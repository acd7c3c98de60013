SPECIFICATION Spec
CONSTANTS
  Langs = {0}
  LibNames = {1}
  SnipNames = {1, 2}
  MaxLibraryID = 1
  MaxSnippetID = 3
  MaxSort = 4
  Templates <- Templates_One
  Filters <- NamesAndAll
  Sortings = {TRUE, FALSE}
  DupName <- NextName
  Reentrant = FALSE
  CanCrash = FALSE
  Refusable = {}
  HasLangMsgs = TRUE
PROPERTY MoveKeepsOthersInOrder
