SPECIFICATION Spec
CONSTANTS
    Items = {1, 2}
    Whole = 0
    Swap = 3
    Width = 5
    Cap = 2
    MaxCount = 6
    MaxUse = 2
    MaxChanges = 2
INVARIANTS TypeOK Fresh CrashOnlyOnUnseen
PROPERTIES Covered SharesExact
