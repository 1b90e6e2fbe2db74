SPECIFICATION Spec
INVARIANTS
    LossNeverEnds
