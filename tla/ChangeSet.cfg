SPECIFICATION Spec
CONSTANTS
  Contents <- SomeContents
  None = None
  Refs <- RefsOf
  Scripts <- ScriptsOf
  Inline <- InlineOf
  Hidden <- HiddenOf
  Ambiguous <- MurkyOnes
  Runtime <- RuntimeOf
  Dynamic <- DynamicOnes
  Unread <- UnreadOnes
  Paths <- FivePaths
  Fold <- FoldCase
  Extension <- Extensions
  Holds <- HoldsSome
  OperationLists <- Lists
  MaxOperations = 2
INVARIANTS
  AppliesAsAsked
  ReviewShowsEverything
  ReferencesHold
  NoNewScripts
  ExportIsTruthful
CHECK_DEADLOCK FALSE
