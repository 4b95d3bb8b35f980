SPECIFICATION Spec
CONSTANTS
    History = 3
    MaxLines = 3
    MaxFiles = 1
    MaxThrows = 0
PROPERTY NewLinesReported
CHECK_DEADLOCK FALSE
