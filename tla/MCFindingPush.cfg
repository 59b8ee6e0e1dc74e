SPECIFICATION Spec
CONSTANTS
  Findings = {f1, f2}
  Requests = {r1, r2, r3}
  MaxAttempts = 3
  None = None
SYMMETRY MCSymmetry
INVARIANTS TypeOK AtMostOneObject NoObjectForgotten RecordsAreTrue AnswersAreTrue
PROPERTY Refinement
