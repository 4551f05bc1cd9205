SPECIFICATION Spec
CONSTANTS
    Capacity = 10
    Producer = {p1, p2}
    MaxPush = 2
INVARIANT NoneLost
