CONSTANTS
  Bases <- Addresses
  Texts <- SampleTexts
  Inputs <- SampleInputs
SPECIFICATION Spec
INVARIANT StoresAreKept
PROPERTY ImplementsAfter
