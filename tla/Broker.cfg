SPECIFICATION Spec
CONSTANTS
  Callers = {c1, c2}
  Tools <- MCTools
  Mutating <- MCMutating
  Explore <- MCExplore
  Edit <- MCEdit
  Exact <- MCExact
  Arguments <- MCArguments
  PhaseRequests = {"edit"}
  MaxToolCalls = 2
  MaxRequests = 2
  MaxTokens = 6
  MaxCost = 7
  InputPrice = 1
  OutputPrice = 1
  Inputs = {1, 2}
  Limits = {0, 2}
  Outputs = {0, 3}
  OutputCap = 3
  MaxRestarts = 1
CONSTRAINT OneKind
SYMMETRY Symmetry
INVARIANTS
    AnswersAreTrue
    BudgetsHold
PROPERTIES
    ImplementsEffect
