\* A reply and two closeouts at once: the session row, the review row and their
\* lock; or a closeout and two bootstraps: the voice fact.
CONSTANTS
  NoOne = NoOne
  silent = silent
  hi = hi
  coffee = coffee
  sure = sure
  Words = {hi, coffee, sure}
  Opener = hi
  r1 = r1
  c1 = c1
  c2 = c2
  b1 = b1
  b2 = b2
  Replies = {r1}
  Closeouts = {c1, c2}
  Bootstraps = {b1, b2}
  Conversation <- SameTalk
  OneAtATime = FALSE
  Member = FALSE
SPECIFICATION CastSpec
INVARIANTS ReviewMatchesSession ReviewOfStoredTurn MixedOnlyBySilence RevokedStayRevoked
PROPERTIES EveryRequestEnds
