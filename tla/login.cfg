SPECIFICATION FairSpec
CONSTANTS
  MaxIterations = 3
  Passwords = {"p1", "p2"}
  Nonces = {"n1", "n2"}
  MaxAttempts = 2
  MaxExtra = 1
  Faulty = TRUE
INVARIANTS
  MutualProof
  FailsForCause
  ProofAccepted
PROPERTY
  ImplementsLogin
CHECK_DEADLOCK FALSE
