SPECIFICATION FairSpec
CONSTANTS
  w = w
  r = r
  bad = bad
  NoEvent = NoEvent
  RingSize = 2
  THREADS = 2
  Requests = {w, r, bad}
  Writes = {w}
  Bodies <- MCBodies
  Databases <- MCDatabases
  Replies <- MCReplies
  InitDb <- MCInitDb
  BodyOf <- MCBodyOf
  Cut <- MCCut
  Apply <- MCApply
  Reply <- MCReply
  Throws <- MCThrows
  MaxSequence = 3
CHECK_DEADLOCK FALSE
PROPERTY AllAnswered
