\* Two streamed replies whose clients may leave at any time; or a call of any
\* engine to its providers; or events cut into chunks anywhere; or turns of one
\* learner that end side by side; or past sessions paged while one goes on; or a bench that runs
\* three samples.
CONSTANTS
  NoOne = NoOne
  hi = hi
  Words = {hi}
  Opener = hi
  Replies = {r1, r2}
  Closeouts = {}
  Bootstraps = {}
  Member = TRUE
  MaxDeltas = 1
  Engines = {"coach", "stream", "feedback", "review", "scene"}
  Retries = 1
  Backoff = 1
  Deadline = 3
  Timeout = 2
  DeltasKept = 2
  Letters = {"a", "w"}
  Wide = {"w"}
  Scripts <- SmallScripts
  LearnerTurns = {t1, t2, t3}
  Signals <- SmallSignals
  Pasts <- SmallPasts
  Categories = {"tense", "article"}
  SceneCap = 2
  Window = 3
  Sessions = {1, 2, 3}
  ListSize = 1
  ReplaySize = 2
  MaxTurns = 2
  MaxRequests = 4
  Samples <- ThreeSamples
  Outputs <- SmallOutputs
  Concurrency = 2
  OldRows <- OneOldRow
SPECIFICATION PartSpec
INVARIANTS StreamInv CallsInv FramesInv LearnerInv PagesInv BenchInv
PROPERTIES AbandonedUnsaved EveryStreamEnds
