CONSTANTS
    Producers = {p1, p2}
    Consumers = {c1, c2}
    Items = {a}
    Capacity = 2
    SizeMod = 4
    NoItem = NoItem
SPECIFICATION FairSpec
INVARIANTS
    TokensConserved
    TicketsMatchTokens
PROPERTIES
    TokensReturn
