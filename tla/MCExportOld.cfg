SPECIFICATION Spec
CONSTANTS
  Langs = {0, 1}
  LibNames = {1}
  SnipNames = {1, 2, 3}
  MaxLibraryID = 5
  MaxSnippetID = 8
  MaxSort = 1
  Disks <- MCDisks
  NormalText <- MCNormalText
  OthersNames = {1}
  MaxRequests = 3
INVARIANT ExportedFileIsCurrent
