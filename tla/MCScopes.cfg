CONSTANTS
  VarNames = {"a", "f"}
  ParamNames = {"a"}
  FunNames = {"f"}
  TagNames = {"f"}
  UseNames = {"a", "f", "read"}
  ReadName = "read"
  WriteName = "write"
  NoName = "-"
  Inits = FALSE
  BareUses = FALSE
  MaxParams = 1
  MaxDecs = 1
  MaxDepth = 2
  MaxNodes = 4
  MaxSymbols = 6
  MaxTables = 4
SPECIFICATION Spec
INVARIANTS TypeOK TranslationFindsNames StableNames FunctionsAreDefined TagsAreGlobal
