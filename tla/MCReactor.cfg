CONSTANTS
  Connections = {k1, k2}
  Fds = {3, 4}
  Workers = {w1, w2}
  Requests <- MCRequests
  MaxRequests = 2
  Listener = Listener
  None = None
SPECIFICATION FairReactorSpec
PROPERTY RequestsAnswered
INVARIANTS OneHandAtATime NoneForgotten WritesRunAlone AnswersFollowRequests
