CONSTANTS
  m = m
  n = n
  r = r
  Threads <- MCThreads
  Main = m
  Remote <- MCRemote
  UserSigs <- MCUserSigs
  MaskChoices <- MCMaskChoices
  ActSigs <- MCActSigs
  Budget <- MCBudget
SPECIFICATION Spec
INVARIANT
  NoDuplicateSignal
CHECK_DEADLOCK FALSE
