\* Nothing is changed from outside; retention deletes rows under an anchor.
CONSTANTS
    Events = {e1, e2}
    Verifiers = {v1}
    Retention = 1
    MaxLag = 0
    MaxSeq = 2
    MaxTime = 2
    MaxDamage = 0
SPECIFICATION Spec
INVARIANT PrunedLogVerifies
CHECK_DEADLOCK FALSE
