SPECIFICATION Spec
CONSTANTS
  Langs = {0}
  LibNames = {1}
  SnipNames = {1}
  MaxLibraryID = 3
  MaxSnippetID = 1
  MaxSort = 1
  Queries <- MCQueries
  LastUsedIDs <- MCLastUsedIDs
INVARIANTS LoopInvariant SelectsChoice
CHECK_DEADLOCK FALSE
