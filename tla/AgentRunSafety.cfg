\* Two operator processes on one run, three resolutions: d1 enforces and publishes a patch and
\* its findings, d2 is shadow and publishes nothing, d3 is shadow and publishes findings alone.
\* The clock moves on once.
SPECIFICATION Spec
CONSTANTS
    w1 = w1
    w2 = w2
    d1 = d1
    d2 = d2
    d3 = d3
    NoDigest = NoDigest
    Workers = {w1, w2}
    Digests = {d1, d2, d3}
    Shadow = {d2, d3}
    PublishPR = {d1, d3}
    Findings = {d3}
    Both = {d1}
    Requests = {}
    Reports = {"Completed"}
    Backend = "agent-sandbox"
    MaxFaults = 0
    MaxChildren = 1
    MaxClock = 1
SYMMETRY WorkerSymmetry
CHECK_DEADLOCK FALSE
INVARIANTS
    ExecutesLockedSpec
    EvidenceBacksPhase
    GateDecides
    StatusTellsEffect
PROPERTIES
    ImplementsPhases
