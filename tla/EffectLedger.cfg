SPECIFICATION Spec
CONSTANTS
  Callers = {c1, c2}
  Digests = {d1, d2}
  Reapers = {r1}
  MaxAttempts = 2
  MaxLate = 1
  Absent = Absent
SYMMETRY Symmetry
CHECK_DEADLOCK FALSE
INVARIANTS
    AtMostOneGrant
    DefiniteOutcomesAgree
    RetirementFenced
PROPERTIES
    ReplayTruth
    OutcomeNeverOverwritten
    ImplementsAtMostOnce
