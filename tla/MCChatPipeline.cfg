CONSTANTS
  OpenTag <- MCOpenTag
  CloseTag <- MCCloseTag
  NoContextMessage <- MCNoContext
  RejectedMessage <- MCRejected
  Chars = {"<", "/", "t", " "}
  Blank = " "
  Nothing = Nothing
  MaxText = 6
  MaxPiece = 2
SPECIFICATION Spec
INVARIANTS
  StreamSound
  SameAnswerEitherWay
  OnlyScreenedAnswered
  MemoryHoldsTheAnswer
CHECK_DEADLOCK FALSE
