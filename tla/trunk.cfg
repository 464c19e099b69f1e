\* Two adding threads race with Close; the owner keeps pumping, so no deadlock.
SPECIFICATION TrunkSpec
CONSTANTS
    Producers = {w1, w2}
    Item = {r1, r2, r3, r4}
    NoItem = NoItem
SYMMETRY Symmetry
INVARIANTS
    DeliveredOnce
    DeliveredInOrder
