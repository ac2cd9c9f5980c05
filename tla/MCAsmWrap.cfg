CONSTANTS
  NumVars = 17
  Sites <- MCSites
  ResultOf <- MCResultOf
  Program <- CallProgram
  Inputs <- MCInputs
  Words <- MCWords
  Halt = 100
  StackSize = 22
  Rotations <- SomeRotations
  Junk <- MCJunk
SPECIFICATION AsmSpec
PROPERTIES ImplementsCalls CallCosts
