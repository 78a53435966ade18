SPECIFICATION CliSpec
CONSTANTS
  Argv <- MCArgv
  Word <- MCWord
INVARIANTS
  LineIsUnderstood
CHECK_DEADLOCK FALSE
