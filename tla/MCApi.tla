--------------------------------- MODULE MCApi ---------------------------------
(***************************************************************************)
(* A small agent for Api: a daemon with a dynamic address and another one, *)
(* two plugin directories, and three system collectors: one that makes its *)
(* resource late, one that has all of its own, and a Lua plugin with the   *)
(* name of a built-in collector.  The collector alias has that name too.   *)
(* config_dir is empty, or describes the first daemon under its fixed key  *)
(* or under an address.                                                    *)
(***************************************************************************)
EXTENDS Api

AllKeys == {"cpu", "alias", "watch", "ghost"}
CfgNames == [p \in {"cpu", "alias"} |-> IF p = "alias" THEN "cpuload" ELSE p]

Add(p) == [op |-> "addCollector", arg |-> p]

AllScripts ==
    [e \in {"core", "cpu", "ghost", "watch", "clash"} |->
        CASE e = "core" -> <<[op |-> "rename", arg |-> None]>>
          [] e = "watch" -> <<[op |-> "setHandler", arg |-> "watch"], Add("alias")>>
          [] e = "clash" -> <<Add("watch")>>
          [] OTHER -> <<Add(e)>>]

AllDirectories == {{"core", "cpu", "ghost"}, {"core", "watch", "clash"}}

Collectors ==
    << [name |-> "diskusage", has |-> {}, late |-> {"root"}],
       [name |-> "uptime", has |-> {"uptime"}, late |-> {}],
       [name |-> "cpuload", has |-> {"mine"}, late |-> {}] >>

AllConfigurations ==
    {<<>>, <<[name |-> "avahi", uniq |-> "dynamic"]>>, <<[name |-> "avahi", uniq |-> "tcp_A"]>>}

AllEnabled == {{1, 2}, {1, 3}}

FixedNames == [n \in {"cpuload", "uptime"} |-> IF n = "cpuload" THEN "avg" ELSE n]
=============================================================================
