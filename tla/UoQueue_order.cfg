CONSTANTS
    Producers = {p1, p2}
    Consumers = {c1}
    Items = {a, b}
    Capacity = 2
    SizeMod = 4
    NoItem = NoItem
SPECIFICATION Spec
INVARIANTS
    DequeuedInOrder
