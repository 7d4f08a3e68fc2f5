CONSTANTS
    Turns <- MCAllTurns
    MaxChunk = 4
    None = None
    Offers <- MCOffers
    Listings <- MCListings
    AliasRules <- MCAliasRules
    CuratedFree = {"nvidia"}
    Curated <- MCCurated
    ToolProviders = {"p"}
    NoToolModels <- MCNoToolModels
    PricedTurns <- MCPricedTurns
    MaxFetches = 2
    MaxSyncs = 2
SPECIFICATION PricedSpec
INVARIANTS
    EventsAreTheAnswer
    StreamEqualsBuffered
    ResponsesFramesLegal
    ToolCallsRoundTrip
    AnswerCostsItsPrice
    TagsAreTrue
