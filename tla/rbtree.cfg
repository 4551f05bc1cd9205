SPECIFICATION Spec
CONSTANTS
    Key = {1, 2, 3, 4, 5, 6, 7, 8}
    Value = {v1, v2}
    Rewritten = {4}
    Nil = Nil
INVARIANTS SearchTreeOrder Balanced IterationOrder BoundsRight
PROPERTIES LoopsClimb ImplementsMap
