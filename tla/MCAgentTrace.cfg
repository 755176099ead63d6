SPECIFICATION Spec
CONSTANTS
    Messages <- TurnMessages
    Texts = {"a", "b", "c"}
    NoText = NoText
    ToolIds = {t1}
    NoId = NoId
    Personas = {"neutral"}
    Neutral = "neutral"
    MaxHistory = 4
    MaxToolRounds = 2
    LlmMaxRetries = 1
    InputQueueLength = 1
    OutputQueueLength = 1
    TelegramQueueLength = 1
    StartCooldown = 2
    ReplayCooldown = 2
    MsWrap = 4
    MaxAge = 0
    Never = Never
PROPERTY FailedTurnLeavesNoTrace
