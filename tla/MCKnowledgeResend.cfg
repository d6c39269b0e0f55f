SPECIFICATION KnowledgeSpec
CONSTANTS
    Members = {m1}
    MaxCommands = 3
    MaxSettings = 2
    MaxDispatches = 3
    MaxCalls = 2
PROPERTIES
    AcknowledgedIsNotResent
CHECK_DEADLOCK FALSE
