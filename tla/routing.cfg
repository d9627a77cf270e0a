CONSTANTS
    a = a
    b = b
    u = u
    x = x
    Models = {a, b, u, x}
    ProviderOf <- MCProviderOf
    Providers <- MCProviders
    Brain = "local-brain"
    Unlisted <- MCUnlisted
    FirstModel <- MCFirstModel
    Lists <- MCLists
    Routes <- MCRoutes
    Hash <- MCHash
    Abilities <- MCAbilities
    Asked <- MCAsked
    Rank <- MCRank
    Volatile = {a, b}
    Sessions = {"s1"}
SPECIFICATION RoutingSpec
INVARIANT GateHolds
INVARIANT ListServed
INVARIANT SessionStays
PROPERTY EveryMemberServed
