SPECIFICATION Spec
CONSTANTS
    Outpoints = {o1, o2}
    Coins = {c1, c2}
    Spent = Spent
    Absent = Absent
    Blocks = {b1, b2}
    NullHash = NullHash
    WritesMayFail = TRUE
SYMMETRY Symmetry
INVARIANTS TypeOK FlagsMatchBelow NoLogicError SpentIsPending
PROPERTY RefinesUtxoSet
