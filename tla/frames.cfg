SPECIFICATION FairSpec
CONSTANTS
  f1 = f1
  f2 = f2
  Frame = {f1, f2}
  First = f1
  None = none
  Nesting = 2
  CanFail = TRUE
  CanClose = TRUE
INVARIANTS TypeOK OneNotification WarpFindsWindow
PROPERTIES NewestIsDrawn EveryQuestionAnswered
CHECK_DEADLOCK FALSE
