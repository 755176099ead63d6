SPECIFICATION Spec
CONSTANTS
    Messages <- AllCommands
    Texts = {"a", "b", "c"}
    NoText = NoText
    ToolIds = {t1}
    NoId = NoId
    Personas = {"neutral", "witty"}
    Neutral = "neutral"
    MaxHistory = 2
    MaxToolRounds = 1
    LlmMaxRetries = 1
    InputQueueLength = 1
    OutputQueueLength = 1
    TelegramQueueLength = 1
    StartCooldown = 2
    ReplayCooldown = 2
    MsWrap = 8
    MaxAge = 2
    Never = Never
INVARIANT AnsweredOnce
PROPERTY SameAnswerOncePerWindow
