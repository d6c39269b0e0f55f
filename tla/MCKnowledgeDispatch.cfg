SPECIFICATION KnowledgeSpec
CONSTANTS
    Members = {m1, m2}
    MaxCommands = 3
    MaxSettings = 2
    MaxDispatches = 2
    MaxCalls = 2
INVARIANTS
    KnowledgeTypeOK
    JournalIsReplayable
    RepeatsFollowFailure
CHECK_DEADLOCK FALSE
