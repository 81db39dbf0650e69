\* Two passes with copies of one object, of any kind, and a successor of it.
SPECIFICATION Spec
CONSTANTS
    Holders = {1, 2}
    MaxObjects = 5
    MaxWrites = 1
INVARIANTS CacheIntact OnlyOwnWrites
CHECK_DEADLOCK FALSE
