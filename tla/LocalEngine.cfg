SPECIFICATION Spec
CONSTANTS
    Agents = {"fix"}
    Workers = {"w1", "w2"}
    Order <- MCOrder
    Needs <- MCNeeds
    Commands <- MCCommands
    History = 1
    MaxEvents = 2
    MaxAttempts = 2
    MaxCommands = 1
    CommandLimit = 1
    MaxTroubles = 1
CHECK_DEADLOCK FALSE
INVARIANTS
    OneSandboxPerStep
    RecordIsTrue
PROPERTIES
    Progress
