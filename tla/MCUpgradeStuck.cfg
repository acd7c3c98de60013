SPECIFICATION Spec
CONSTANTS
  Files <- MCFiles
  MaxCrashes = 1
INVARIANT ConversionNeverFails
