CONSTANTS
  Programs <- AllPrograms
  Bases <- Addresses
SPECIFICATION Spec
INVARIANTS MachineTypeOK ComputesMeaning CallsAreLaidOut ArgsGoStraightToParams JumpsStayInside PassesFitTogether
PROPERTY Terminates
