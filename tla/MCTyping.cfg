CONSTANTS
  Types <- MCTypes
  Symbols <- MCSymbols
  NoName = "nodef"
  MemberNames <- MCMemberNames
  VarTypes <- MCVarTypes
  MaxStack = 2
SPECIFICATION Spec
INVARIANTS TypeOK ErrorsAreReported AcceptedIsTranslated StopsAreExplained EqualStructuresLieAlike
CHECK_DEADLOCK FALSE
