\* A transcript is sent again after a text reply.
CONSTANTS
  NoOne = NoOne
  silent = silent
  hi = hi
  coffee = coffee
  sure = sure
  Words = {hi, coffee, sure}
  Opener = hi
  Replies = {r1}
  Closeouts = {c1, c2}
  Bootstraps = {}
  Conversation <- SameTalk
  OneAtATime = TRUE
  Member = TRUE
SPECIFICATION Spec
INVARIANTS NoLineTwice
