CONSTANTS
  IntBits = 4
  NarrowBits = 3
  MaxExp10 = 12
  MaxFixed = 5
  MaxNodes = 3
  Alphabets <- MCAlphabets
  Tokens <- MCTokens
  Arguments <- MCArguments
  Types <- MCTypes
  Filters <- MCFilters
  Comments <- CommentSet
SPECIFICATION Spec
CHECK_DEADLOCK FALSE
INVARIANTS
  ParserFollowsGrammar
  ScalarsAreRead
  SentIsReceived
  PatchesApply
  PointersAgree
  OrderIsConsistent
  PositionsAgree
  ConversionsReturn
PROPERTY FailureLeavesDocument
