CONSTANTS
  VarNames = {"a"}
  ParamNames = {"a", "f"}
  FunNames = {"f", "read"}
  TagNames = {}
  UseNames = {"a"}
  ReadName = "read"
  WriteName = "write"
  NoName = "-"
  Inits = TRUE
  BareUses = TRUE
  MaxParams = 2
  MaxDecs = 2
  MaxDepth = 2
  MaxNodes = 5
  MaxSymbols = 6
  MaxTables = 4
SPECIFICATION Spec
INVARIANTS UniqueNames TranslationFindsNames
