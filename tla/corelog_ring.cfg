SPECIFICATION Spec
CONSTANTS
    LogLen = 3
    Printers = {p1, p2}
    MaxAdds = 7
INVARIANTS
    TypeOK
    LogIsRecent
    PrintsHistory
CHECK_DEADLOCK FALSE
