SPECIFICATION SessionsFair
CONSTANTS
    Tasks <- MCTasks
    Families = {"MS41", "MS4x"}
    MaxSamples = 1
INVARIANTS
    SessionsTypeOK
    PortHeld
    ToldTruly
PROPERTIES
    Answers
