\* One operator process with the Job backend, one fault anywhere: a failed call, a crash and
\* restart, or a lost child.  An agent that completes or reports an unknown effect,
\* cancellation and deletion, publication of a patch in shadow mode.  A second child can be
\* created after the first is lost.  A finished or deleted run has nothing left to do.
SPECIFICATION LiveSpec
CONSTANTS
    w1 = w1
    w2 = w2
    d1 = d1
    d2 = d2
    d3 = d3
    NoDigest = NoDigest
    Workers = {w1}
    Digests = {d1}
    Shadow = {d1}
    PublishPR = {d1}
    Findings = {}
    Both = {}
    Requests = {"cancel", "delete"}
    Reports = {"Completed", "UnknownEffect"}
    Backend = "job"
    MaxFaults = 1
    MaxChildren = 2
    MaxClock = 0
CHECK_DEADLOCK FALSE
PROPERTIES
    EvidenceBeforeReap
    RunsWindUp
    WorkGoesOn
