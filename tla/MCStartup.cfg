SPECIFICATION Spec
CONSTANTS
  TemplateSets <- MCTemplateSets
  MaxChanges = 3
INVARIANTS ThrowsForAReason IInv
PROPERTIES DatabaseIsNeverReplaced ShowIsRemembered StaysOnItsFile FoundIfThere
