SPECIFICATION Spec
CONSTANTS
  Files <- MCFiles
  MaxCrashes = 2
INVARIANTS NothingLost VersionTellsSchema IInv
PROPERTY Converted
