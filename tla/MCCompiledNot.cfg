CONSTANTS
  Programs <- NotPrograms
  Bases <- Addresses
SPECIFICATION Spec
INVARIANT ComputesMeaning
