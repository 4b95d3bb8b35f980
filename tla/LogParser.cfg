SPECIFICATION Spec
CONSTANTS
    History = 2
    MaxLines = 3
    MaxFiles = 2
    MaxThrows = 1
INVARIANTS HistoryIsExact HistoryBounded
\* the log may stop growing, and the parser has nothing to do
CHECK_DEADLOCK FALSE
