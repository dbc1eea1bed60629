SPECIFICATION Spec
CONSTANTS
    Ids = {op1, op2}
    Names = {ews, cluster}
    Plans = {plan}
    Messages = {"write failed", "cycle failed"}
INVARIANTS
    TypeOK
    NeverLockedOut
PROPERTIES
    HistoryKept
