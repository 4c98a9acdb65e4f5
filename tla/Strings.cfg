SPECIFICATION InternSpec
CONSTANTS
    a = a
    b = b
    c = c
    Unused = Unused
    Tombstone = Tombstone
    Text <- MCText
    Hash <- MCHash
    Copy = {1, 2}
    InternCap = 3
INVARIANTS InternFinds OnePerTextInHeap
