\* A page of one session's messages arrives after another was selected.
CONSTANTS
  NoOne = NoOne
  hi = hi
  Words = {hi}
  Opener = hi
  Replies = {r1, r2}
  Closeouts = {}
  Bootstraps = {}
  Member = TRUE
  MaxDeltas = 1
  Engines = {"coach", "stream", "feedback", "review", "scene"}
  Retries = 1
  Backoff = 1
  Deadline = 3
  Timeout = 2
  DeltasKept = 2
  Letters = {"a", "w"}
  Wide = {"w"}
  Scripts <- SmallScripts
  LearnerTurns = {t1, t2, t3}
  Signals <- SmallSignals
  Pasts <- SmallPasts
  Categories = {"tense", "article"}
  SceneCap = 2
  Window = 3
  Sessions = {1, 2, 3}
  ListSize = 1
  ReplaySize = 2
  MaxTurns = 2
  MaxRequests = 4
  Samples <- ThreeSamples
  Outputs <- SmallOutputs
  Concurrency = 2
  OldRows <- OneOldRow
SPECIFICATION PartSpec
INVARIANTS ReplayOfSelected
