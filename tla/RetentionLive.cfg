\* One controller, a run with two artifacts, at most one failed request: what must be removed is
\* removed, piece by piece.
SPECIFICATION LiveSpec
CONSTANTS
    r1 = r1
    r2 = r2
    c1 = c1
    c2 = c2
    Runs = {r1}
    Controllers = {c1}
    Kinds = {"spec", "stream"}
    Effects = {"mcp"}
    ArtifactDays = 1
    WorktreeDays = 1
    LedgerDays = 1
    MaxActions = 10
    MaxClock = 2
    MaxFaults = 1
PROPERTIES
    WhatIsDueGoes
