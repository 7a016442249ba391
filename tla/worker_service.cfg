SPECIFICATION Spec
CONSTANTS
    w1 = w1
    w2 = w2
    w3 = w3
    w4 = w4
    k1 = k1
    Workers = {w1, w2, w3, w4}
    Commands = {k1}
    NoPid = NoPid
SYMMETRY WorkerSymmetry
INVARIANTS TypeOK LiveWorkerIsNamed OneWorkerAtATime StatusDeniesOnlyTheDead
CHECK_DEADLOCK FALSE
