\* Two replies and a closeout at once: the history, conflicts and the profile.
CONSTANTS
  NoOne = NoOne
  silent = silent
  hi = hi
  coffee = coffee
  sure = sure
  Words = {hi, coffee, sure}
  Opener = hi
  Replies = {r1, r2}
  Closeouts = {c1}
  Bootstraps = {}
  Conversation <- SameTalk
  OneAtATime = FALSE
  Member = TRUE
SPECIFICATION Spec
INVARIANTS HistoryInv TurnInv ConflictNeedsTwoRivals ProfileFromStoredTurns
PROPERTIES AppendOnly KeepsHistory
