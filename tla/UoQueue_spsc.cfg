CONSTANTS
    Producers = {p1}
    Consumers = {c1}
    Items = {a, b}
    Capacity = 3
    SizeMod = 6
    NoItem = NoItem
SPECIFICATION Spec
INVARIANTS
    DequeuedInOrder
PROPERTIES
    ImplementsFifo
