CONSTANTS
    t1 = t1
    t2 = t2
    r1 = r1
    r2 = r2
    r3 = r3
    r4 = r4
    Txs = {t1, t2}
    Rows = {r1, r2, r3, r4}
SPECIFICATION Spec
INVARIANTS
    TypeOK
    OneActive
    HeadKept
PROPERTIES
    PromotionSettles
SYMMETRY Symmetry
