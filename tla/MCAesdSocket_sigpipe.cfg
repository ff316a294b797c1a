CONSTANTS
  Conns = {c1, c2}
  MAIN = MAIN
  HEAD = HEAD
  NONE = NONE
  MaxSends = 1
  ResourcesMayFail = FALSE
  BrokenPipes = TRUE
SPECIFICATION Spec
INVARIANT SurvivesLeavingClients
SYMMETRY ConnSymmetry
