CONSTANTS
    Turns <- CutTurns
    MaxChunk = 4
    None = None
    Offers <- MCOffers
    Listings <- MCListings
    AliasRules <- MCAliasRules
    CuratedFree = {"nvidia"}
    Curated <- MCCurated
    ToolProviders = {"p"}
    NoToolModels <- MCNoToolModels
    PricedTurns = {}
    MaxFetches = 2
    MaxSyncs = 2
SPECIFICATION PricedSpec
INVARIANTS
    DeltasPreserved
