SPECIFICATION MCSpec
CONSTANTS
    CharOrder <- CharactersInOrder
    Questions = {"glob", "findings", "gate", "policy", "verify"}
    Plans <- MCPlans
    Outcomes = {"passes", "fails", "signalled", "stopped"}
    MaxFindings = 3
    MaxEvidence = 3
    GateScoreScale = 4
    MaxExecutionChecks = 20
    MaxCriticFindings = 2
    MaxChecks = 20
    MaxChangedPaths = 4
    MaxCommands = 3
    MaxScopePatterns = 4
    MaxPolicyChecks = 3
    MaxObserved = 8
    MaxPolicies = 2
    MaxRulesPerPolicy = 2
    MaxTotalRules = 3
CHECK_DEADLOCK FALSE
INVARIANTS
    AnswersMatchMeaning
    VerdictIsDeserved
PROPERTIES
    VerificationEnds
