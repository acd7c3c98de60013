SPECIFICATION Spec
CONSTANTS
  Langs = {0}
  LibNames = {1}
  SnipNames = {1, 2}
  MaxLibraryID = 1
  MaxSnippetID = 3
  MaxSort = 3
  Templates <- Templates_One
  Filters <- NamesAndAll
  Sortings = {TRUE, FALSE}
  DupName <- NextName
  Reentrant = FALSE
  CanCrash = FALSE
  Refusable <- SnippetWrites
  HasLangMsgs = TRUE
INVARIANTS IDsUnique LibraryIsReachable NewSnippetSortsLast
PROPERTIES MoveSurvivesReload UnfilteredMoveKeepsOrder ImplementsCollection
