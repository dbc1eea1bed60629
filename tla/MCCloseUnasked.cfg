SPECIFICATION Spec
CONSTANTS
    Tasks <- MCTasks
PROPERTIES
    RecoveryAskedAbout
