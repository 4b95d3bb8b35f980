------------------------------ MODULE MCStartup ------------------------------
(***************************************************************************)
(* A library and a Lua file of one name, a library that does not load, a   *)
(* Lua file of its own and entries that end the process.                   *)
(***************************************************************************)
EXTENDS Startup

Entry(dir, name, types) ==
    [dir |-> dir, form |-> "plugin", name |-> name, works |-> TRUE, types |-> types]

SomeFiles ==
    {Entry("services_cpp", "cpu", {"collector", "enhancer", "detector"}),
     Entry("services_lua", "cpu", {"collector", "enhancer", "detector"}),
     Entry("services_lua", "self", {"collector", "logParser", "handler"}),
     Entry("collectors_cpp", "cpu", {"system"}),
     [Entry("collectors_cpp", "mem", {"system"}) EXCEPT !.works = FALSE],
     Entry("collectors_lua", "cpu", {"system"}),
     Entry("collectors_lua", "mem", {"system"}),
     [Entry("collectors_lua", "mem", {}) EXCEPT !.form = "skipped"],
     [Entry("collectors_lua", "mem", {}) EXCEPT !.form = "bare"],
     [Entry("config_dir", "mem", {}) EXCEPT !.works = FALSE],
     Entry("config_dir", "mem", {})}

NoSettings == [s \in Settings |-> "unset"]

SomeUserFiles ==
    {NoSettings,
     [s \in Settings |->
        CASE s = <<"log", "level">> -> "info"
          [] s \in {<<"server", "threads">>, <<"server", "port">>, <<"cpu", "enable">>,
                    <<"cpu", "poll-frequency">>, <<"mem", "poll-frequency">>} -> "user"
          [] OTHER -> "unset"],
     [s \in Settings |->
        CASE s = <<"log", "level">> -> "bogus"
          [] s[1] = "server" -> "user"
          [] OTHER -> "unset"]}
=============================================================================
