CONSTANTS
  NumVars = 16
  Sites <- MCSites
  ResultOf <- MCResultOf
  Program <- CallProgram
  Inputs <- MCInputs
  Words <- MCWords
  Halt = 100
  StackSize = 20
  Rotations <- SomeRotations
  Junk <- MCJunk
SPECIFICATION AsmSpec

PROPERTY CallPreservesVariables
