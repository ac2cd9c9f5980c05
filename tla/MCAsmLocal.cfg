CONSTANTS
  NumVars = 2
  Sites <- MCSites
  ResultOf <- MCResultOf
  Program <- LocalProgram
  Inputs <- MCInputs
  Words <- MCWords
  Halt = 100
  StackSize = 3
  Rotations <- AllRotations
  Junk <- MCJunk
SPECIFICATION AsmSpec
INVARIANTS NoJunk
PROPERTIES ImplementsCalls
