CONSTANTS
  Connections = {c1, c2}
  Requests <- MCRequests
  Replies <- MCReplies
  Texts <- MCTexts
  Base = 2
  MaxMessageSize = 3
  Capacity = 3
  MaxRequests = 3
  None = None
SPECIFICATION FairFramingSpec
CHECK_DEADLOCK FALSE
INVARIANT QuietBetweenCalls
PROPERTIES FramesArriveWhole CallsReturn WorkersReturn
