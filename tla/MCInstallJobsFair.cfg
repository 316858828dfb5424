\* An install, its rollback and what follows, one at a time, under fair
\* scheduling.
SPECIFICATION FairSpec
CONSTANTS
  Order <- MCHidden
  Credentialed <- MCCredentialed
  Bootstrapped = {}
  Announcing = {}
  Silent <- MCSilent
  Movable <- MCMovable
  Jobs = {j1, j2}
  MaxActive = 1
PROPERTIES JobsFinish 
