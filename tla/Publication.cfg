\* Two operators publish one run, with two findings.
SPECIFICATION Spec
CONSTANTS
    w1 = w1
    w2 = w2
    d1 = d1
    d2 = d2
    Workers = {w1, w2}
    Digests = {d1, d2}
    Findings <- TwoFindings
    Jobs <- AllJobs
    MaxAttempts = 3
    MaxMeddling = 2
SYMMETRY WorkerSymmetry
CHECK_DEADLOCK FALSE
INVARIANTS
    OneRequestPerItem
    ReviewsShareHead
    OutcomesAreTrue
