\* Three appends, one alteration from outside, one retention window, anchors
\* in the database and off-box; creation times follow the order of the rows.
CONSTANTS
    Events = {e1, e2}
    Verifiers = {v1}
    Retention = 1
    MaxLag = 0
    MaxSeq = 3
    MaxTime = 2
    MaxDamage = 1
SPECIFICATION Spec
SYMMETRY Symmetry
INVARIANTS TypeOK TamperEvident NoFalseAlarm
PROPERTY PruneKeepsChain
CHECK_DEADLOCK FALSE
