\* A closeout without a review copy races a reply that has one.
CONSTANTS
  NoOne = NoOne
  silent = silent
  hi = hi
  coffee = coffee
  sure = sure
  Words = {hi, coffee, sure}
  Opener = hi
  Replies = {r1}
  Closeouts = {c1}
  Bootstraps = {}
  Conversation <- SameTalk
  OneAtATime = FALSE
  Member = TRUE
SPECIFICATION Spec
PROPERTIES NamesKept
