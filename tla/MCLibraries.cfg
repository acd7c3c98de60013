SPECIFICATION Spec
CONSTANTS
  Langs = {0, 1}
  LibNames = {1}
  SnipNames = {1, 2}
  MaxLibraryID = 2
  MaxSnippetID = 1
  MaxSort = 1
  Templates <- Templates_Two
  Filters <- NamesAndAll
  Sortings = {FALSE}
  DupName <- NextName
  Reentrant = TRUE
  CanCrash = TRUE
  Refusable <- LibraryWrites
  HasLangMsgs = TRUE
INVARIANTS RefIntegrity FreshInv ListedOnce ComboFresh ListFresh LastUsedIsShown
