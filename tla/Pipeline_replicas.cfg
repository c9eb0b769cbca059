SPECIFICATION FairSpec
CONSTANTS
  w = w
  r = r
  bad = bad
  NoEvent = NoEvent
  RingSize = 2
  THREADS = 3
  Requests = {w, r, bad}
  Writes = {w}
  Bodies <- MCBodies
  Databases <- MCDatabases
  Replies <- MCReplies
  InitDb <- MCInitDb
  BodyOf <- MCBodyOf
  Cut <- MCCut
  Apply <- MCApply
  Reply <- MCReply
  Throws <- WriteThrows
  MaxSequence = 4
CHECK_DEADLOCK FALSE
INVARIANT TypeOK
INVARIANT SlotsKept
INVARIANT ExchangeFound
INVARIANT ReplicasInOrder
INVARIANT AnswersLinear
INVARIANT JournalAhead
PROPERTY ImplementsAtomic
PROPERTY AnsweredOrEnded
PROPERTY RingDrains
