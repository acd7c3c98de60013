SPECIFICATION Spec
CONSTANTS
  Langs = {0, 1}
  LibNames = {1}
  SnipNames = {1}
  MaxLibraryID = 2
  MaxSnippetID = 1
  MaxSort = 1
  Templates <- Templates_Any
  Filters <- AllNames
  Sortings = {TRUE, FALSE}
  DupName <- NextName
  Reentrant = TRUE
  CanCrash = FALSE
  Refusable = {}
  HasLangMsgs = TRUE
PROPERTY NamedLibraryIsDeleted
