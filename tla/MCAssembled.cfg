CONSTANTS
  Programs <- AssembledPrograms
  StackSize = 100
SPECIFICATION Spec
INVARIANTS TypeOK ComputesMeaning ReturnsToItsCaller
PROPERTY Terminates
