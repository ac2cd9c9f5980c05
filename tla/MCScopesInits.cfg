CONSTANTS
  VarNames = {"a", "b"}
  ParamNames = {"a"}
  FunNames = {"f"}
  TagNames = {}
  UseNames = {"a"}
  ReadName = "read"
  WriteName = "write"
  NoName = "-"
  Inits = TRUE
  BareUses = FALSE
  MaxParams = 1
  MaxDecs = 1
  MaxDepth = 2
  MaxNodes = 5
  MaxSymbols = 8
  MaxTables = 6
SPECIFICATION Spec
INVARIANTS TranslationFindsNames
