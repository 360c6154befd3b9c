\* Two operator processes whose cycles overlap, one failed request or restart.
\* Controllers are interchangeable.
SPECIFICATION Spec
CONSTANTS
    r1 = r1
    r2 = r2
    c1 = c1
    c2 = c2
    Runs = {r1}
    Controllers = {c1, c2}
    Kinds = {"stream"}
    Effects = {"mcp"}
    ArtifactDays = 2
    WorktreeDays = 1
    LedgerDays = 1
    MaxActions = 10
    MaxClock = 3
    MaxFaults = 1
SYMMETRY Symmetry
INVARIANTS
    RecordsGoLast
PROPERTIES
    RemovalIsDue
