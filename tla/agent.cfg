CONSTANTS
    Impls = {"py", "ts"}
    Histories <- MCHistories
    Blocks <- MCBlocks
    Answers <- MCAnswers
    MaxTurns = 3
SPECIFICATION AgentSpec
INVARIANTS
    AgentTypeOK
    RequestIsWellFormed
    StreamTellsTheStory
    RunsAreTold
PROPERTY EveryTurnEnds
CHECK_DEADLOCK FALSE
