SPECIFICATION Spec
CONSTANTS
    a = a
    b = b
    c = c
    None = None
    Requests = {a, b, c}
    Tokens <- MCTokens
    Subject = "user"
    Prompt <- MCPrompt
    Streaming <- MCStreaming
    Explicit <- MCExplicit
    Answers = {"x"}
    Limits <- MCLimits
    DefaultRpm = 2
    Window = 2
    Ttl = 2
    IdleTime = 2
    SessionTimeout = 1
    CacheTtl = 1
    CacheSize = 1
    MinAnswers = 2
    LoopWindow = 2
    StreamLength = 1
    MaxClock = 2
    MaxActive = 2
    MaxEdits = 2
INVARIANTS
    WholeAnswersReplayed
    ExplicitSessionIsOne
PROPERTIES
    RevokedStaysOut
    RateHolds
    BudgetLagBounded
