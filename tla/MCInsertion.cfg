SPECIFICATION Spec
CONSTANTS
  Visible = {"a"}
  Documents <- MCDocuments
  Clips <- MCClips
  AfterTexts <- MCAfterTexts
  MaxName = 2
INVARIANTS IInv StoredEndsAreProper NameIsALine
PROPERTIES LinesSurvive DocumentKeepsEnds SelectionIsKept
