CONSTANTS
  NumVars = 2
  Sites <- MCSites
  ResultOf <- MCResultOf
  Program <- MCProgram
  Inputs <- MCInputs
  Words <- MCWords
  Halt = 100
  StackSize = 9
SPECIFICATION MCSpec
INVARIANTS TypeOK FramesIntact ReturnsHome BlocksDisjoint StackLayout
PROPERTIES LandRestores ImplementsIr
