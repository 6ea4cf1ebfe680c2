\* An error after the commit of a streamed reply.
CONSTANTS
  NoOne = NoOne
  hi = hi
  Words = {hi}
  Opener = hi
  Replies = {r1}
  Closeouts = {}
  Bootstraps = {}
  Member = FALSE
  MaxDeltas = 1
SPECIFICATION Spec
INVARIANTS ErrorMeansUnstored
