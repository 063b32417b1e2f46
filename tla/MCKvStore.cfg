SPECIFICATION Spec
CONSTANTS
  Jobs <- MCJobs
  Keys <- MCKeys
  Texts <- MCTexts
  Inputs <- MCInputs
  TrimSpace <- MCTrimSpace
  Ttls <- MCTtls
  MaxVersionsToKeep = 1
  RetainTicks = 0
  MaxCommands = 3
  MaxChanges = 3
  MaxClock = 1
  MaxKeys = 2
INVARIANTS TableIsSound SecretsReadable
PROPERTY IsDictionary
CHECK_DEADLOCK FALSE
