SPECIFICATION FairSpec
CONSTANTS
    Messages <- TurnMessages
    Texts = {"a"}
    NoText = NoText
    ToolIds = {t1, t2}
    NoId = NoId
    Personas = {"neutral"}
    Neutral = "neutral"
    MaxHistory = 6
    MaxToolRounds = 3
    LlmMaxRetries = 2
    InputQueueLength = 1
    OutputQueueLength = 1
    TelegramQueueLength = 1
    StartCooldown = 0
    ReplayCooldown = 0
    MsWrap = 8
    MaxAge = 0
    Never = Never
INVARIANTS TypeOK RequestWellFormed PausedExactlyInTurn
PROPERTIES RollbackSparesEarlierTurns TurnEnds
