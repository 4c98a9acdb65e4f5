SPECIFICATION DictSpec
CONSTANTS
    a = a
    b = b
    c = c
    d = d
    e = e
    Nil = Nil
    Text <- MCText
    Hash <- MCHash
    Val = {Nil, v}
    Copy = {1}
    MinCap = 2
    DeletesAnywhere = TRUE
INVARIANT KeysAreFound
