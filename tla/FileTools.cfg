SPECIFICATION Spec
CONSTANTS
  x1 = x1  x2 = x2  a = a   Blank = Blank  None = None
  Caller <- TwoCallers
  Old <- OldLines
  Contents <- SomeContents
  RangeEnds <- Ends
  MaxLines = 3
  Runes <- Ticks
SYMMETRY Symmetric
INVARIANTS FTypeOK EditSurvives FenceHolds ViewShowsWhatExists
PROPERTIES InsertFollowsView
