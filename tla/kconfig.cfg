SPECIFICATION Spec
CONSTANTS
  Order <- MCOrder
  HashOrder <- MCHashOrder
  SymType <- MCSymType
  Rank <- MCRank
  Parsed <- MCParsed
  Prompts <- MCPrompts
  Defaults <- MCDefaults
  DirDep <- MCDirDep
  RevDep <- MCRevDep
  Implied <- MCImplied
  Ranges <- MCRanges
  Members <- MCMembers
  ChoiceOf <- MCChoiceOf
  Optional = {}
  modules_sym = "M"
  Texts = {"2", "5"}
  Edits = {"y", "5"}
  Names <- Symbols
  Objs = {"a"}
  Refs <- MCRefs
  MaxSets = 2
  MaxJobs = 2
INVARIANTS
  ValuesRight AcceptedTakesEffect FilesRestore ObjectsCurrent SessionKept
CHECK_DEADLOCK FALSE
