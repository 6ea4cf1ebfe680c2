---------------------------- MODULE PictureProofs ----------------------------
(***************************************************************************)
(* What happens to a picture, and how often one may be sent, for any       *)
(* number of browsers, uploads, restarts, retries, processes and callers:  *)
(* proofs of the inductive invariant SceneInv of the cache row, that a     *)
(* pending row has somebody who will settle it, of what a session that is  *)
(* created from the row may be created from, of the                        *)
(* inductive invariant MediaInv of the uploads, and of what the limiters   *)
(* promise: quotas are kept, and only who has used one up is refused.      *)
(***************************************************************************)
EXTENDS SceneAnalysis, MediaUpload, RateLimits, FiniteSetTheorems, SequenceTheorems, TLAPS

-----------------------------------------------------------------------------
(* The transactions on the row.                                            *)

(* What writers want the row to be: a state of the present version.        *)
Wanted == {Pending, Failed} \cup {Ready(found) : found \in Results}

LEMMA WantedRows ==
  ASSUME NEW want \in Wanted
  PROVE  /\ want \in Row /\ want \in WholeRows
         /\ want.version = "now" /\ want.status \in {"pending", "ready", "failed"}
         /\ \A k \in Columns : want.result[k] \in FoundIn(k) \cup {NoWord}
<1>1. NoResult \in Result /\ \A k \in Columns : NoResult[k] = NoWord
  BY DEF NoResult, Result, Value
<1>2. CASE want \in {Pending, Failed}
  BY <1>1, <1>2 DEF WholeRows, Row, Pending, Failed
<1>3. CASE \E found \in Results : want = Ready(found)
  <2>1. PICK found \in Results : want = Ready(found)
    BY <1>3
  <2>2. found \in Result /\ \A k \in Columns : found[k] \in FoundIn(k)
    BY ResultsAssumption DEF FoundIn
  <2>3. QED
    BY <2>1, <2>2 DEF WholeRows, Row, Ready
<1>4. QED
  BY <1>2, <1>3 DEF Wanted

LEMMA RowsKnown ==
  /\ NoRow \in Row /\ OldRow \in Row /\ NoRow # OldRow
  /\ NoRow.status = "none" /\ NoRow.version = "none"
  /\ OldRow.status = "ready" /\ OldRow.version = "old"
  /\ NoResult \in Result
BY ResultsAssumption DEF NoRow, OldRow, NoResult, Row, Result, Value

(* Two rows with the same columns are the same row.                        *)
LEMMA SameRow ==
  ASSUME NEW a \in Row, NEW b \in Row, a.status = b.status, a.version = b.version,
         \A k \in Columns : a.result[k] = b.result[k]
  PROVE  a = b
<1>1. a.result = b.result
  BY DEF Row, Result
<1>2. QED
  BY <1>1 DEF Row

(* An UPDATE of a row that has not changed makes it what is wanted.        *)
LEMMA UpdateUnseen ==
  ASSUME NEW loaded \in Row, NEW want \in Row, row \in Row
  PROVE  /\ UpdatedRow(loaded, want) \in Row
         /\ row = loaded => UpdatedRow(loaded, want) = want
         /\ UpdatedRow(loaded, want).status
              = IF want.status = loaded.status THEN row.status ELSE want.status
         /\ UpdatedRow(loaded, want).version
              = IF want.version = loaded.version THEN row.version ELSE want.version
         /\ \A k \in Columns : UpdatedRow(loaded, want).result[k]
              = IF want.result[k] = loaded.result[k] THEN row.result[k] ELSE want.result[k]
<1> DEFINE new == UpdatedRow(loaded, want)
<1>1. /\ new.status = IF want.status = loaded.status THEN row.status ELSE want.status
      /\ new.version = IF want.version = loaded.version THEN row.version ELSE want.version
      /\ \A k \in Columns : new.result[k]
           = IF want.result[k] = loaded.result[k] THEN row.result[k] ELSE want.result[k]
  BY DEF UpdatedRow, Updated
<1>2. new.result \in Result
  <2>1. \A k \in Columns : Updated(row.result[k], loaded.result[k], want.result[k]) \in Value
    BY DEF Updated, Row, Result
  <2>2. new.result = [k \in Columns |-> Updated(row.result[k], loaded.result[k], want.result[k])]
    BY DEF UpdatedRow
  <2>3. QED
    BY <2>1, <2>2 DEF Result
<1>3. new = [status |-> new.status, version |-> new.version, result |-> new.result]
  BY DEF UpdatedRow
<1> HIDE DEF new
<1>4. new \in Row
  BY <1>1, <1>2, <1>3 DEF Row
<1>5. row = loaded => new = want
  <2>1. SUFFICES ASSUME row = loaded PROVE new = want
    OBVIOUS
  <2>2. /\ new.status = want.status /\ new.version = want.version
        /\ \A k \in Columns : new.result[k] = want.result[k]
    BY <1>1, <2>1
  <2>3. QED
    BY <1>4, <2>2, SameRow
<1>6. QED
  BY <1>1, <1>4, <1>5 DEF new

(* A commit makes the row one of the present version, and changes its      *)
(* status unless it has loaded the very status that it wants.              *)
LEMMA CommitKeeps ==
  ASSUME SceneTypeOK, RowsSound, WholeUnlessOverwritten,
         NEW w \in Writers, NEW want \in Wanted, Commit(w, want)
  PROVE  /\ row' \in Row /\ Sound(row') /\ row' # NoRow /\ row'.version = "now"
         /\ row'.status = IF want.status = tx[w].loaded.status THEN row.status ELSE want.status
         /\ tx' = [tx EXCEPT ![w] = NoTx]
         /\ overwritten' \in BOOLEAN
         /\ overwritten => overwritten'
         /\ row' \in WholeRows \/ overwritten'
<1> DEFINE l == tx[w].loaded
<1>1. /\ row \in Row /\ l \in Row /\ tx[w].open
      /\ Sound(row) /\ Sound(l)
      /\ l # NoRow => row # NoRow
      /\ l.version = "now" => row.version = "now"
      /\ l = NoRow => row = NoRow
      /\ tx' = [tx EXCEPT ![w] = NoTx]
      /\ row' = IF l = NoRow THEN want ELSE UpdatedRow(l, want)
      /\ overwritten \in BOOLEAN /\ overwritten' = (overwritten \/ row # l)
  BY DEF SceneTypeOK, RowsSound, WholeUnlessOverwritten, Commit, InsertRefused
<1>2. /\ want \in Row /\ want \in WholeRows /\ want.version = "now"
      /\ want.status \in {"pending", "ready", "failed"}
      /\ \A k \in Columns : want.result[k] \in FoundIn(k) \cup {NoWord}
  BY WantedRows
<1>3. l = tx[w].loaded
  OBVIOUS
<1>4. overwritten' \in BOOLEAN /\ (overwritten => overwritten')
  BY <1>1
<1>5. ASSUME row' = want PROVE row' \in WholeRows \/ overwritten'
  BY <1>2, <1>5
<1> HIDE DEF l
<1>6. CASE l = NoRow
  <2>1. row' = want /\ l.status = "none"
    BY <1>1, <1>6, RowsKnown
  <2>2. want # NoRow /\ want.status # "none"
    BY <1>2, RowsKnown
  <2>3. Sound(row')
    BY <1>2, <2>1, <2>2 DEF Sound
  <2>4. row' \in WholeRows \/ overwritten'
    BY <1>5, <2>1
  <2>5. QED
    BY <1>1, <1>2, <1>3, <1>4, <2>1, <2>2, <2>3, <2>4
<1>7. CASE l # NoRow
  <2>1. /\ row' \in Row
        /\ row = l => row' = want
        /\ row'.status = IF want.status = l.status THEN row.status ELSE want.status
        /\ row'.version = IF want.version = l.version THEN row.version ELSE want.version
        /\ \A k \in Columns : row'.result[k]
             = IF want.result[k] = l.result[k] THEN row.result[k] ELSE want.result[k]
    BY <1>1, <1>2, <1>7, UpdateUnseen
  <2>2. row'.version = "now"
    BY <1>1, <1>2, <2>1
  <2>3. row.status # "none"
    BY <1>1, <1>7, RowsKnown DEF Sound
  <2>4. ASSUME NEW k \in Columns
        PROVE  row'.result[k] \in FoundIn(k) \cup {NoWord}
    <3>1. CASE row.version = "now"
      BY <1>1, <1>2, <2>1, <3>1, RowsKnown DEF Sound
    <3>2. CASE row.version # "now"
      <4>1. row = OldRow /\ l = OldRow
        BY <1>1, <1>7, <3>2 DEF Sound
      <4>2. QED
        BY <1>2, <2>1, <4>1
    <3>3. QED
      BY <3>1, <3>2
  <2>5. Sound(row') /\ row' # NoRow
    BY <1>2, <2>1, <2>2, <2>3, <2>4, RowsKnown DEF Sound
  <2>6. row' \in WholeRows \/ overwritten'
    <3>1. CASE row = l
      BY <1>5, <2>1, <3>1
    <3>2. CASE row # l
      BY <1>1, <3>2
    <3>3. QED
      BY <3>1, <3>2
  <2>7. QED
    <3>1. row'.status = IF want.status = tx[w].loaded.status THEN row.status ELSE want.status
      BY <1>3, <2>1
    <3>2. QED
      BY <1>1, <1>4, <2>1, <2>2, <2>5, <2>6, <3>1
<1>8. QED
  BY <1>6, <1>7

-----------------------------------------------------------------------------
(* Types.                                                                  *)

LEMMA RetriedType ==
  ASSUME NEW state \in JobState
  PROVE  /\ Retried(state) \in JobState /\ Retried(state).pc \in {"queued", "dead"}
<1>1. NoRow \in Row
  BY RowsKnown
<1>2. CASE state.left > 0
  <2>1. Retried(state) = [state EXCEPT !.pc = "queued", !.left = @ - 1, !.want = NoRow]
    BY <1>2 DEF Retried
  <2>2. state.left - 1 \in Nat
    BY <1>2 DEF JobState
  <2>3. QED
    BY <1>1, <2>1, <2>2 DEF JobState, JobPc
<1>3. CASE ~(state.left > 0)
  <2>1. Retried(state) = [state EXCEPT !.pc = "dead", !.want = NoRow]
    BY <1>3 DEF Retried
  <2>2. QED
    BY <1>1, <2>1 DEF JobState, JobPc
<1>4. QED
  BY <1>2, <1>3

LEMMA NoJobType ==
  ASSUME NEW j \in Jobs
  PROVE  NoJob(j[1]) \in JobState /\ NoJob(j[1]).pc = "none"
BY RowsKnown, SceneAssumption DEF NoJob, JobState, JobPc, Jobs

LEMMA WritersKnown ==
  /\ Clients \subseteq Writers /\ Jobs \subseteq Writers
  /\ Clients \cap Jobs = {}
  /\ \A c \in Clients : Restarts[c] \in Nat /\ \A n \in 0..Restarts[c] : <<c, n>> \in Jobs
BY SceneAssumption DEF Writers, Jobs

(* What the change of a browser's phase alone comes to.                    *)
LEMMA ClientGoing ==
  ASSUME SceneTypeOK, NEW c \in Clients, NEW from, NEW to \in ClientPc, ClientGoes(c, from, to)
  PROVE  /\ client' \in [Clients -> ClientState]
         /\ client[c].pc = from /\ client'[c].pc = to
         /\ client'[c].restarts = client[c].restarts /\ client'[c].found = client[c].found
         /\ \A d \in Clients \ {c} : client'[d] = client[d]
BY DEF SceneTypeOK, ClientGoes, ClientState

LEMMA JobGoing ==
  ASSUME SceneTypeOK, NEW j \in Jobs, NEW from, NEW to \in JobPc, JobGoes(j, from, to)
  PROVE  /\ job' \in [Jobs -> JobState]
         /\ job[j].pc = from /\ job'[j].pc = to
         /\ \A i \in Jobs \ {j} : job'[i] = job[i]
BY DEF SceneTypeOK, JobGoes, JobState

LEMMA PcsKnown ==
  /\ \A pc \in {"check", "waiting", "pending", "queueing", "recording", "inline", "storing",
               "created", "told", "broken"} : pc \in ClientPc
  /\ \A pc \in {"none", "queued", "running", "saving", "dead"} : pc \in JobPc
  /\ NoResult \in Result /\ Results \subseteq Result
  /\ \A r \in Row : r.result \in Result
BY ResultsAssumption, RowsKnown DEF ClientPc, JobPc, Inside, ClientEnds, Row

LEMMA LoadMoves ==
  ASSUME SceneTypeOK, NEW w \in Writers, Load(w)
  PROVE  /\ tx' \in [Writers -> [open : BOOLEAN, loaded : Row]]
         /\ \A x \in Writers \ {w} : tx'[x] = tx[x]
         /\ tx'[w].open /\ tx'[w].loaded = row
         /\ row' = row /\ overwritten' = overwritten
BY DEF SceneTypeOK, Load, rowVars

LEMMA ReleaseMoves ==
  ASSUME SceneTypeOK, NEW w \in Writers, tx' = [tx EXCEPT ![w] = NoTx]
  PROVE  /\ tx' \in [Writers -> [open : BOOLEAN, loaded : Row]]
         /\ \A x \in Writers \ {w} : tx'[x] = tx[x]
         /\ ~tx'[w].open
BY RowsKnown DEF SceneTypeOK, NoTx

LEMMA CommitTyped ==
  ASSUME SceneTypeOK, RowsSound, WholeUnlessOverwritten,
         NEW w \in Writers, NEW want \in Wanted, Commit(w, want)
  PROVE  /\ row' \in Row /\ overwritten' \in BOOLEAN
         /\ tx' \in [Writers -> [open : BOOLEAN, loaded : Row]]
BY CommitKeeps, ReleaseMoves

(* What the writers at work want.                                          *)
LEMMA WantsKnown ==
  /\ Pending \in Wanted /\ Failed \in Wanted /\ \A found \in Results : Ready(found) \in Wanted
  /\ Pending.status = "pending" /\ Failed.status = "failed" /\ \A found : Ready(found).status = "ready"
BY DEF Wanted, Pending, Failed, Ready, NoRow

LEMMA ClientStepTypes ==
  ASSUME SceneTypeOK, RowsSound, WholeUnlessOverwritten, ResultsFound, SlotsFree, NEW c \in Clients,
         StartProgress(c) \/ Poll(c) \/ PollTimesOut(c) \/ StartBreaks(c)
  PROVE  SceneTypeOK'
<1>0. /\ c \in Writers /\ row \in Row /\ row.result \in Result /\ overwritten \in BOOLEAN
      /\ client \in [Clients -> ClientState] /\ job \in [Jobs -> JobState]
      /\ tx \in [Writers -> [open : BOOLEAN, loaded : Row]]
      /\ \A d \in Clients : client[d].restarts <= Restarts[d]
  BY WritersKnown, PcsKnown DEF SceneTypeOK
<1> DEFINE Pcs == {"check", "waiting", "pending", "queueing", "recording", "inline", "storing",
                   "created", "told", "broken"}
<1>1. ASSUME NEW from, NEW to \in Pcs, ClientGoes(c, from, to)
      PROVE  /\ client' \in [Clients -> ClientState]
             /\ \A d \in Clients : client'[d].restarts <= Restarts[d]
  <2>1. to \in ClientPc
    BY PcsKnown
  <2>2. QED
    BY <1>0, <1>1, <2>1, ClientGoing
<1>2. ASSUME NEW to \in Pcs, NEW found \in Result,
             client' = [client EXCEPT ![c].pc = to, ![c].found = found]
      PROVE  /\ client' \in [Clients -> ClientState]
             /\ \A d \in Clients : client'[d].restarts <= Restarts[d]
  <2>1. to \in ClientPc
    BY PcsKnown
  <2>2. QED
    BY <1>0, <1>2, <2>1 DEF ClientState
<1>3. CASE StartHits(c)
  BY <1>0, <1>2, <1>3 DEF rowVars, StartHits, SceneTypeOK
<1>4. CASE StartMisses(c)
  BY <1>0, <1>1, <1>4 DEF rowVars, StartMisses, SceneTypeOK
<1>5. CASE StartLoads(c)
  BY <1>0, <1>5, LoadMoves DEF rowVars, StartLoads, SceneTypeOK
<1>6. CASE SavePending(c)
  BY <1>0, <1>1, <1>6, CommitTyped, WantsKnown DEF SavePending, SceneTypeOK
<1>7. ASSUME job' = job \/ job' = [job EXCEPT ![<<c, client[c].restarts>>].pc = "queued"]
      PROVE  job' \in [Jobs -> JobState]
  <2>1. "queued" \in JobPc
    BY PcsKnown
  <2>2. ASSUME NEW slot, job' = [job EXCEPT ![slot].pc = "queued"]
        PROVE  job' \in [Jobs -> JobState]
    BY <1>0, <2>1, <2>2 DEF JobState
  <2>3. QED
    BY <1>0, <1>7, <2>2
<1>8. CASE Enqueue(c)
  BY <1>0, <1>1, <1>7, <1>8 DEF rowVars, Enqueue, SceneTypeOK
<1>9. CASE EnqueueFails(c)
  BY <1>0, <1>1, <1>7, <1>9 DEF rowVars, EnqueueFails, SceneTypeOK
<1>10. CASE SaveQueueFailure(c)
  BY <1>0, <1>1, <1>10, CommitTyped, WantsKnown DEF SaveQueueFailure, SceneTypeOK
<1>11. CASE AnalyzeInline(c)
  BY <1>0, <1>2, <1>11, PcsKnown DEF rowVars, AnalyzeInline, SceneTypeOK
<1>12. CASE InlineFails(c)
  BY <1>0, <1>1, <1>12 DEF rowVars, InlineFails, SceneTypeOK
<1>13. CASE StoreInline(c)
  BY <1>0, <1>1, <1>13, CommitTyped, WantsKnown DEF StoreInline, SceneTypeOK, ResultsFound, ClientGoes
<1>14. CASE StartConflicts(c) \/ StartBreaks(c)
  BY <1>0, <1>2, <1>14, ReleaseMoves, PcsKnown DEF rowVars, StartConflicts, StartBreaks, Abort, SceneTypeOK
<1>15. CASE PollReady(c)
  <2>1. client[c].restarts + 1 \in Nat /\ client[c].restarts + 1 <= Restarts[c] /\ "check" \in ClientPc
    BY <1>0, <1>15, WritersKnown, PcsKnown DEF rowVars, PollReady, SlotsFree, ClientState
  <2>2. client' = [client EXCEPT ![c].pc = "check", ![c].restarts = client[c].restarts + 1]
    BY <1>15 DEF rowVars, PollReady
  <2>3. client' \in [Clients -> ClientState] /\ \A d \in Clients : client'[d].restarts <= Restarts[d]
    BY <1>0, <2>1, <2>2 DEF ClientState
  <2>4. QED
    BY <1>0, <1>15, <2>3 DEF rowVars, PollReady, SceneTypeOK
<1>16. CASE PollFailed(c) \/ PollTimesOut(c)
  BY <1>0, <1>1, <1>16 DEF rowVars, PollFailed, PollTimesOut, SceneTypeOK
<1>17. QED
  BY <1>3, <1>4, <1>5, <1>6, <1>8, <1>9, <1>10, <1>11, <1>12, <1>13, <1>14, <1>15, <1>16
     DEF StartProgress, Poll

(* What a job turns into when it has saved or given up.                    *)
LEMMA JobReplaced ==
  ASSUME SceneTypeOK, NEW j \in Jobs,
         job' = [job EXCEPT ![j] = Retried(@)] \/ job' = [job EXCEPT ![j] = NoJob(j[1])]
  PROVE  /\ job' \in [Jobs -> JobState]
         /\ job'[j].pc \in {"none", "queued", "dead"}
         /\ \A i \in Jobs \ {j} : job'[i] = job[i]
<1>1. /\ job \in [Jobs -> JobState]
      /\ Retried(job[j]) \in JobState /\ Retried(job[j]).pc \in {"queued", "dead"}
      /\ NoJob(j[1]) \in JobState /\ NoJob(j[1]).pc = "none"
  BY RetriedType, NoJobType DEF SceneTypeOK
<1>2. QED
  BY <1>1

LEMMA JobStepTypes ==
  ASSUME SceneTypeOK, RowsSound, WholeUnlessOverwritten, ResultsFound, NEW j \in Jobs, JobProgress(j) \/ JobBreaks(j)
  PROVE  SceneTypeOK'
<1>0. /\ j \in Writers /\ row \in Row
      /\ client \in [Clients -> ClientState] /\ job \in [Jobs -> JobState]
      /\ tx \in [Writers -> [open : BOOLEAN, loaded : Row]]
      /\ \A d \in Clients : client[d].restarts <= Restarts[d]
  BY WritersKnown DEF SceneTypeOK
<1>1. CASE WorkerTakes(j)
  BY <1>0, <1>1, JobGoing, PcsKnown DEF rowVars, WorkerTakes, SceneTypeOK
<1>2. CASE JobUnreadable(j)
  BY <1>0, <1>2, JobReplaced DEF rowVars, JobUnreadable, SceneTypeOK
<1>3. CASE JobAnalyses(j)
  <2>1. PICK want \in {Ready(found) : found \in Results} \cup {Failed} :
          job' = [job EXCEPT ![j].pc = "saving", ![j].want = want]
    BY <1>3 DEF rowVars, JobAnalyses
  <2>2. want \in Row /\ "saving" \in JobPc
    BY WantsKnown, WantedRows, PcsKnown
  <2>3. job' \in [Jobs -> JobState]
    BY <1>0, <2>1, <2>2 DEF JobState
  <2>4. QED
    BY <1>0, <1>3, <2>3 DEF rowVars, JobAnalyses, SceneTypeOK
<1>4. CASE JobLoads(j)
  BY <1>0, <1>4, LoadMoves DEF rowVars, JobLoads, SceneTypeOK
<1>5. CASE JobSaves(j)
  <2>1. job[j].want \in Wanted
    BY <1>5, WantsKnown DEF rowVars, JobSaves, ResultsFound
  <2>2. /\ row' \in Row /\ overwritten' \in BOOLEAN
        /\ tx' \in [Writers -> [open : BOOLEAN, loaded : Row]]
    BY <1>0, <1>5, <2>1, CommitTyped DEF JobSaves
  <2>3. job' \in [Jobs -> JobState]
    BY <1>5, JobReplaced DEF rowVars, JobSaves
  <2>4. QED
    BY <1>0, <1>5, <2>2, <2>3 DEF rowVars, JobSaves, SceneTypeOK
<1>6. CASE JobBreaks(j)
  BY <1>0, <1>6, JobReplaced, ReleaseMoves DEF rowVars, JobBreaks, Abort, SceneTypeOK
<1>7. QED
  BY <1>1, <1>2, <1>3, <1>4, <1>5, <1>6 DEF JobProgress

-----------------------------------------------------------------------------
(* Slots, transactions and results.                                        *)

(* The changes of a step that the other conjuncts need to know of.         *)
LEMMA ClientStepFrame ==
  ASSUME SceneTypeOK, RowsSound, WholeUnlessOverwritten, ResultsFound, NEW c \in Clients,
         StartProgress(c) \/ Poll(c) \/ PollTimesOut(c) \/ StartBreaks(c)
  PROVE  /\ \A d \in Clients \ {c} : client'[d] = client[d]
         /\ \A w \in Writers \ {c} : tx'[w] = tx[w]
         /\ \A i \in Jobs \ {<<c, client[c].restarts>>} : job'[i] = job[i]
<1>0. /\ client \in [Clients -> ClientState] /\ job \in [Jobs -> JobState]
      /\ tx \in [Writers -> [open : BOOLEAN, loaded : Row]]
  BY DEF SceneTypeOK
<1>1. \A d \in Clients \ {c} : client'[d] = client[d]
  BY <1>0 DEF StartProgress, Poll, PollTimesOut, StartBreaks, StartHits, StartMisses, StartLoads,
     SavePending, Enqueue, EnqueueFails, SaveQueueFailure, AnalyzeInline, InlineFails,
     StoreInline, StartConflicts, PollReady, PollFailed, ClientGoes
<1>2. \A w \in Writers \ {c} : tx'[w] = tx[w]
  BY <1>0 DEF StartProgress, Poll, PollTimesOut, StartBreaks, StartHits, StartMisses, StartLoads,
     SavePending, Enqueue, EnqueueFails, SaveQueueFailure, AnalyzeInline, InlineFails,
     StoreInline, StartConflicts, PollReady, PollFailed, Load, Commit, Abort
<1>3. \A i \in Jobs \ {<<c, client[c].restarts>>} : job'[i] = job[i]
  BY <1>0 DEF StartProgress, Poll, PollTimesOut, StartBreaks, StartHits, StartMisses, StartLoads,
     SavePending, Enqueue, EnqueueFails, SaveQueueFailure, AnalyzeInline, InlineFails,
     StoreInline, StartConflicts, PollReady, PollFailed
<1>4. QED
  BY <1>1, <1>2, <1>3

LEMMA JobStepFrame ==
  ASSUME SceneTypeOK, NEW j \in Jobs, JobProgress(j) \/ JobBreaks(j)
  PROVE  /\ client' = client
         /\ \A w \in Writers \ {j} : tx'[w] = tx[w]
         /\ \A i \in Jobs \ {j} : job'[i] = job[i]
         /\ job[j].pc \in {"queued", "running", "saving"}
<1>0. job \in [Jobs -> JobState] /\ tx \in [Writers -> [open : BOOLEAN, loaded : Row]]
  BY DEF SceneTypeOK
<1>1. client' = client /\ job[j].pc \in {"queued", "running", "saving"}
  BY DEF JobProgress, JobBreaks, WorkerTakes, JobUnreadable, JobAnalyses, JobLoads, JobSaves, JobGoes
<1>2. \A w \in Writers \ {j} : tx'[w] = tx[w]
  BY <1>0 DEF JobProgress, JobBreaks, WorkerTakes, JobUnreadable, JobAnalyses, JobLoads, JobSaves,
     Load, Commit, Abort
<1>3. \A i \in Jobs \ {j} : job'[i] = job[i]
  BY <1>0 DEF JobProgress, JobBreaks, WorkerTakes, JobUnreadable, JobAnalyses, JobLoads, JobSaves, JobGoes
<1>4. QED
  BY <1>1, <1>2, <1>3

(***************************************************************************)
(* A step of a browser loads the row, commits a status, gives its          *)
(* transaction up, queues a job or moves without any of these.             *)
(***************************************************************************)
Kept == row' = row /\ overwritten' = overwritten

Loads(w) == Kept /\ tx'[w].open /\ tx'[w].loaded = row

Commits(w, status) ==
  /\ tx[w].open /\ ~tx'[w].open
  /\ Sound(row') /\ row' # NoRow /\ row'.version = "now"
  /\ overwritten => overwritten'
  /\ row' \in WholeRows \/ overwritten'
  /\ row'.status = IF status = tx[w].loaded.status THEN row.status ELSE status

Releases(w) == Kept /\ ~tx'[w].open

StartCommits(c) ==
  /\ job' = job
  /\ \/ client[c].pc = "pending" /\ client'[c].pc = "queueing" /\ Commits(c, "pending")
     \/ client[c].pc = "recording" /\ client'[c].pc = "inline" /\ Commits(c, "failed")
     \/ client[c].pc = "storing" /\ client'[c].pc = "created" /\ Commits(c, "ready")
  /\ client'[c].restarts = client[c].restarts /\ client'[c].found = client[c].found

StartQueues(c) ==
  LET slot == <<c, client[c].restarts>> IN
  /\ Kept /\ tx' = tx /\ slot \in Jobs
  /\ client[c].pc = "queueing" /\ client'[c].pc \in {"waiting", "told", "recording"}
  /\ client'[c].restarts = client[c].restarts
  /\ client'[c].pc = "waiting" => client[c].restarts < Restarts[c]
  /\ \/ job'[slot].pc = "queued"
     \/ job' = job /\ client'[c].pc = "recording"

(* What a session may be created from.                                     *)
Usable(found) ==
  /\ \A k \in Columns :
       \/ found[k] \in FoundIn(k)
       \/ found[k] = NoWord /\ k \notin Required
  /\ found \in Results \/ overwritten

StartMoves(c) ==
  /\ Kept /\ tx' = tx /\ job' = job
  /\ client[c].pc \in {"check", "inline", "waiting"}
  /\ client'[c].pc \in {"check", "pending", "inline", "storing", "created", "told"}
  /\ client'[c].pc = "pending" => client[c].pc = "check"
  /\ client'[c].pc = "storing" => client'[c].found \in Results
  /\ client'[c].pc = "created" => Usable(client'[c].found)
  /\ \/ client'[c].restarts = client[c].restarts /\ client'[c].pc # "check"
     \/ client'[c].restarts = client[c].restarts + 1 /\ client'[c].pc = "check"

LEMMA CommitsStatus ==
  ASSUME SceneTypeOK, RowsSound, WholeUnlessOverwritten, NEW w \in Writers, NEW want \in Wanted, Commit(w, want)
  PROVE  Commits(w, want.status)
BY CommitKeeps, ReleaseMoves DEF Commits, Commit

LEMMA ClientSteps ==
  ASSUME SceneTypeOK, RowsSound, WholeUnlessOverwritten, ResultsFound, NEW c \in Clients,
         StartProgress(c) \/ Poll(c) \/ PollTimesOut(c) \/ StartBreaks(c)
  PROVE  \/ /\ client' = client /\ job' = job /\ Loads(c)
            /\ client[c].pc \in {"pending", "recording", "storing"}
         \/ StartCommits(c)
         \/ /\ job' = job /\ Releases(c) /\ client'[c].restarts = client[c].restarts
            /\ \/ client'[c].pc = "broken"
               \/ client'[c].pc = "told" /\ client[c].pc \in {"pending", "storing"}
         \/ StartQueues(c)
         \/ StartMoves(c)
<1>0. /\ c \in Writers /\ row \in Row
      /\ client \in [Clients -> ClientState] /\ job \in [Jobs -> JobState]
      /\ client[c] \in ClientState /\ client[c].restarts <= Restarts[c]
      /\ client[c].restarts \in Nat /\ Restarts[c] \in Nat
  BY WritersKnown DEF SceneTypeOK, ClientState
<1>1. <<c, client[c].restarts>> \in Jobs
  BY <1>0, WritersKnown
<1>2. ASSUME NEW from, NEW to, ClientGoes(c, from, to)
      PROVE  /\ client[c].pc = from /\ client'[c].pc = to
             /\ client'[c].restarts = client[c].restarts /\ client'[c].found = client[c].found
  BY <1>0, <1>2 DEF ClientGoes, ClientState
<1>3. CASE StartHits(c)
  <2>1. client'[c].pc = "created" /\ client'[c].found = row.result /\ client'[c].restarts = client[c].restarts
    BY <1>0, <1>3 DEF rowVars, StartHits, ClientState
  <2>2. Usable(row.result)
    <3>1. /\ row.version = "now" /\ row.status = "ready"
          /\ \A k \in Columns : row.result[k] \in FoundIn(k) \cup {NoWord}
          /\ \A k \in Required : row.result[k] # NoWord
      BY <1>3, RowsKnown DEF rowVars, StartHits, CacheHit, RowsSound, Sound
    <3>2. ASSUME ~overwritten PROVE row.result \in Results
      <4>1. row \in WholeRows
        BY <3>2 DEF WholeUnlessOverwritten
      <4>2. PICK found \in Results : row = Ready(found)
        BY <3>1, <4>1 DEF WholeRows, NoRow, OldRow, Pending, Failed
      <4>3. QED
        BY <4>2 DEF Ready
    <3>3. QED
      BY <3>1, <3>2 DEF Usable
  <2>3. StartMoves(c)
    BY <1>3, <2>1, <2>2 DEF rowVars, StartHits, StartMoves, Kept
  <2>4. QED
    BY <2>3
<1>4. CASE StartMisses(c)
  BY <1>2, <1>4 DEF rowVars, StartMisses, StartMoves, Kept
<1>5. CASE StartLoads(c)
  BY <1>0, <1>5, LoadMoves DEF rowVars, StartLoads, Loads, Kept
<1>6. CASE SavePending(c)
  BY <1>0, <1>2, <1>6, CommitsStatus, WantsKnown DEF rowVars, SavePending, StartCommits
<1>7. ASSUME job' = [job EXCEPT ![<<c, client[c].restarts>>].pc = "queued"]
      PROVE  job'[<<c, client[c].restarts>>].pc = "queued"
  BY <1>0, <1>1, <1>7 DEF JobState
<1>8. CASE Enqueue(c)
  <2>2. /\ client[c].pc = "queueing" /\ client'[c].restarts = client[c].restarts
        /\ client'[c].pc = IF client[c].restarts = Restarts[c] THEN "told" ELSE "waiting"
        /\ job'[<<c, client[c].restarts>>].pc = "queued"
    BY <1>2, <1>7, <1>8 DEF rowVars, Enqueue
  <2>3. client'[c].pc = "waiting" => client[c].restarts < Restarts[c]
    BY <1>0, <2>2
  <2>4. StartQueues(c)
    BY <1>1, <1>8, <2>2, <2>3 DEF rowVars, Enqueue, StartQueues, Kept
  <2>5. QED
    BY <2>4
<1>9. CASE EnqueueFails(c)
  BY <1>1, <1>2, <1>7, <1>9 DEF rowVars, EnqueueFails, StartQueues, Kept
<1>10. CASE SaveQueueFailure(c)
  BY <1>0, <1>2, <1>10, CommitsStatus, WantsKnown DEF rowVars, SaveQueueFailure, StartCommits
<1>11. CASE AnalyzeInline(c)
  <2>1. PICK found \in Results :
          client' = [client EXCEPT ![c].pc = IF CacheEnabled THEN "storing" ELSE "created",
                                   ![c].found = found]
    BY <1>11 DEF rowVars, AnalyzeInline
  <2>2. /\ client'[c].pc \in {"storing", "created"} /\ client'[c].found = found
        /\ client'[c].restarts = client[c].restarts
    BY <1>0, <2>1 DEF ClientState
  <2>3. Usable(found)
    BY DEF Usable, FoundIn
  <2>4. StartMoves(c)
    BY <1>11, <2>2, <2>3 DEF AnalyzeInline, StartMoves, Kept, rowVars
  <2>5. QED
    BY <2>4
<1>12. CASE InlineFails(c)
  BY <1>2, <1>12 DEF rowVars, InlineFails, StartMoves, Kept
<1>13. CASE StoreInline(c)
  <2>1. client[c].found \in Results
    BY <1>13 DEF rowVars, StoreInline, ClientGoes, ResultsFound
  <2>2. Commits(c, "ready")
    BY <1>0, <1>13, <2>1, CommitsStatus, WantsKnown DEF rowVars, StoreInline
  <2>3. QED
    BY <1>2, <1>13, <2>2 DEF rowVars, StoreInline, StartCommits
<1>14. ASSUME NEW to, client' = [client EXCEPT ![c].pc = to, ![c].found = NoResult], Abort(c)
       PROVE  /\ client'[c].pc = to /\ Releases(c)
              /\ client'[c].restarts = client[c].restarts
  BY <1>0, <1>14, ReleaseMoves DEF Abort, Releases, Kept, rowVars, ClientState
<1>15. CASE StartConflicts(c)
  <2>1. client[c].pc # "recording"
    BY <1>15 DEF rowVars, StartConflicts, InsertRefused, RowsSound
  <2>2. QED
    BY <1>14, <1>15, <2>1 DEF rowVars, StartConflicts
<1>16. CASE StartBreaks(c)
  BY <1>14, <1>16 DEF rowVars, StartBreaks
<1>17. CASE PollReady(c)
  <2>1. client'[c].pc = "check" /\ client'[c].restarts = client[c].restarts + 1
    BY <1>0, <1>17 DEF rowVars, PollReady, ClientState
  <2>2. QED
    BY <1>17, <2>1 DEF rowVars, PollReady, StartMoves, Kept
<1>18. CASE PollFailed(c) \/ PollTimesOut(c)
  BY <1>2, <1>18 DEF rowVars, PollFailed, PollTimesOut, StartMoves, Kept
<1>19. QED
  BY <1>3, <1>4, <1>5, <1>6, <1>8, <1>9, <1>10, <1>11, <1>12, <1>13, <1>15, <1>16, <1>17, <1>18
     DEF StartProgress, Poll

(* The same of a job.                                                      *)
LEMMA JobSteps ==
  ASSUME SceneTypeOK, RowsSound, WholeUnlessOverwritten, ResultsFound, NEW j \in Jobs, JobProgress(j) \/ JobBreaks(j)
  PROVE  \/ /\ Kept /\ tx' = tx /\ job[j].pc \in {"queued", "running"}
            /\ job'[j].pc \in {"running", "saving", "queued", "dead"}
            /\ job'[j].pc = "saving" => job'[j].want \in {Ready(found) : found \in Results} \cup {Failed}
         \/ job[j].pc = "saving" /\ job' = job /\ Loads(j)
         \/ /\ job[j].pc = "saving" /\ job'[j].pc \in {"none", "queued", "dead"}
            /\ Commits(j, job[j].want.status)
         \/ Releases(j) /\ job'[j].pc \in {"queued", "dead"}
<1>0. /\ j \in Writers /\ row \in Row
      /\ job \in [Jobs -> JobState] /\ job[j] \in JobState
  BY WritersKnown DEF SceneTypeOK
<1>1. ASSUME job' = [job EXCEPT ![j] = Retried(@)]
      PROVE  job'[j].pc \in {"queued", "dead"}
  BY <1>0, <1>1, RetriedType
<1>2. CASE WorkerTakes(j)
  BY <1>0, <1>2, JobGoing, PcsKnown DEF rowVars, WorkerTakes, JobGoes, Kept
<1>3. CASE JobUnreadable(j)
  BY <1>1, <1>3 DEF rowVars, JobUnreadable, Kept
<1>4. CASE JobAnalyses(j)
  <2>1. PICK want \in {Ready(found) : found \in Results} \cup {Failed} :
          job' = [job EXCEPT ![j].pc = "saving", ![j].want = want]
    BY <1>4 DEF rowVars, JobAnalyses
  <2>2. job'[j].pc = "saving" /\ job'[j].want = want
    BY <1>0, <2>1 DEF JobState
  <2>3. QED
    BY <1>4, <2>2 DEF rowVars, JobAnalyses, Kept
<1>5. CASE JobLoads(j)
  BY <1>0, <1>5, LoadMoves DEF rowVars, JobLoads, Loads, Kept
<1>6. CASE JobSaves(j)
  <2>1. job[j].want \in Wanted
    BY <1>6, WantsKnown DEF rowVars, JobSaves, ResultsFound
  <2>2. Commits(j, job[j].want.status)
    BY <1>0, <1>6, <2>1, CommitsStatus DEF rowVars, JobSaves
  <2>3. job'[j].pc \in {"none", "queued", "dead"}
    BY <1>6, JobReplaced DEF rowVars, JobSaves
  <2>4. QED
    BY <1>6, <2>2, <2>3 DEF rowVars, JobSaves
<1>7. CASE JobBreaks(j)
  BY <1>0, <1>1, <1>7, ReleaseMoves DEF rowVars, JobBreaks, Abort, Releases, Kept
<1>8. QED
  BY <1>2, <1>3, <1>4, <1>5, <1>6, <1>7 DEF JobProgress

-----------------------------------------------------------------------------
(* The conjuncts of SceneInv, over the steps of a browser.                 *)

LEMMA ClientSlots ==
  ASSUME SceneInv, NEW c \in Clients,
         StartProgress(c) \/ Poll(c) \/ PollTimesOut(c) \/ StartBreaks(c)
  PROVE  SlotsFree'
<1>0. /\ SceneTypeOK /\ RowsSound /\ WholeUnlessOverwritten /\ ResultsFound /\ SlotsFree
      /\ client[c].restarts \in Nat /\ Restarts[c] \in Nat
  BY WritersKnown DEF SceneInv, SceneTypeOK, ClientState
<1>1. /\ \A d \in Clients \ {c} : client'[d] = client[d]
      /\ \A i \in Jobs \ {<<c, client[c].restarts>>} : job'[i] = job[i]
  BY <1>0, ClientStepFrame
<1>2. ASSUME NEW d \in Clients, d # c
      PROVE  /\ client'[d].pc = "waiting" => client'[d].restarts < Restarts[d]
             /\ \A n \in 0..Restarts[d] :
                  \/ n > client'[d].restarts
                  \/ n = client'[d].restarts /\ client'[d].pc \in {"check", "pending", "queueing"}
                  => job'[<<d, n>>].pc = "none"
  <2>1. \A n \in 0..Restarts[d] : job'[<<d, n>>] = job[<<d, n>>]
    BY <1>1, <1>2, WritersKnown
  <2>2. QED
    BY <1>0, <1>1, <1>2, <2>1 DEF SlotsFree
<1>3. ASSUME job' = job, client'[c].restarts = client[c].restarts,
             client'[c].pc = "waiting" => client[c].pc = "waiting",
             client'[c].pc \in {"check", "pending", "queueing"}
               => client[c].pc \in {"check", "pending", "queueing"}
      PROVE  /\ client'[c].pc = "waiting" => client'[c].restarts < Restarts[c]
             /\ \A n \in 0..Restarts[c] :
                  \/ n > client'[c].restarts
                  \/ n = client'[c].restarts /\ client'[c].pc \in {"check", "pending", "queueing"}
                  => job'[<<c, n>>].pc = "none"
  BY <1>0, <1>3 DEF SlotsFree
<1>4. /\ client'[c].pc = "waiting" => client'[c].restarts < Restarts[c]
      /\ \A n \in 0..Restarts[c] :
           \/ n > client'[c].restarts
           \/ n = client'[c].restarts /\ client'[c].pc \in {"check", "pending", "queueing"}
           => job'[<<c, n>>].pc = "none"
  <2>1. CASE client' = client /\ job' = job
    BY <1>3, <2>1
  <2>2. CASE StartCommits(c)
    BY <1>3, <2>2 DEF StartCommits
  <2>3. CASE /\ job' = job /\ client'[c].pc \in {"broken", "told"}
             /\ client'[c].restarts = client[c].restarts
    BY <1>3, <2>3
  <2>4. CASE StartQueues(c)
    <3>1. ASSUME NEW n \in 0..Restarts[c], n > client'[c].restarts
          PROVE  job'[<<c, n>>].pc = "none"
      <4>1. client'[c].restarts = client[c].restarts /\ n \in Nat
        BY <1>0, <2>4 DEF Kept, StartQueues
      <4>2. <<c, n>> \in Jobs /\ <<c, n>> # <<c, client[c].restarts>>
        BY <1>0, <3>1, <4>1, WritersKnown
      <4>3. job'[<<c, n>>] = job[<<c, n>>]
        BY <1>1, <4>2
      <4>4. QED
        BY <1>0, <3>1, <4>1, <4>3 DEF SlotsFree
    <3>2. QED
      BY <2>4, <3>1 DEF Kept, StartQueues
  <2>5. CASE StartMoves(c)
    <3>1. CASE client'[c].restarts = client[c].restarts /\ client'[c].pc # "check"
      BY <1>3, <2>5, <3>1 DEF Kept, StartMoves
    <3>2. CASE client'[c].restarts = client[c].restarts + 1 /\ client'[c].pc = "check"
      <4>1. ASSUME NEW n \in 0..Restarts[c], n > client'[c].restarts \/ n = client'[c].restarts
            PROVE  job'[<<c, n>>].pc = "none"
        <5>1. n \in Nat /\ n > client[c].restarts
          BY <1>0, <3>2, <4>1
        <5>2. QED
          BY <1>0, <2>5, <5>1 DEF SlotsFree, StartMoves, Kept
      <4>2. QED
        BY <3>2, <4>1
    <3>3. QED
      BY <2>5, <3>1, <3>2 DEF Kept, StartMoves
  <2>6. QED
    BY <1>0, <2>1, <2>2, <2>3, <2>4, <2>5, ClientSteps
<1>5. QED
  BY <1>2, <1>4 DEF SlotsFree

LEMMA ClientTransactions ==
  ASSUME SceneInv, NEW c \in Clients,
         StartProgress(c) \/ Poll(c) \/ PollTimesOut(c) \/ StartBreaks(c)
  PROVE  TxWhereWritten' /\ ResultsFound'
<1>0. /\ SceneTypeOK /\ RowsSound /\ WholeUnlessOverwritten /\ ResultsFound /\ SlotsFree /\ TxWhereWritten
      /\ client[c].restarts \in 0..Restarts[c]
  BY WritersKnown DEF SceneInv, SceneTypeOK, ClientState
<1>1. /\ \A d \in Clients \ {c} : client'[d] = client[d] /\ tx'[d] = tx[d]
      /\ \A j \in Jobs : tx'[j] = tx[j]
      /\ \A i \in Jobs \ {<<c, client[c].restarts>>} : job'[i] = job[i]
  BY <1>0, ClientStepFrame, WritersKnown
<1>2. /\ tx'[c].open => client'[c].pc \in {"pending", "recording", "storing"}
      /\ client'[c].pc = "storing" => client'[c].found \in Results
  BY <1>0, ClientSteps DEF StartCommits, StartQueues, StartMoves, Kept, Commits, Releases, TxWhereWritten, ResultsFound
<1>3. ASSUME NEW j \in Jobs
      PROVE  /\ tx'[j].open => job'[j].pc = "saving"
             /\ job'[j].pc = "saving" => job'[j].want \in {Ready(found) : found \in Results} \cup {Failed}
  <2>1. job'[j] = job[j] \/ (job[j].pc = "none" /\ job'[j].pc = "queued")
    <3>1. CASE StartQueues(c)
      BY <1>0, <1>1, <3>1 DEF Kept, StartQueues, SlotsFree
    <3>2. CASE ~StartQueues(c)
      BY <1>0, <3>2, ClientSteps DEF StartCommits, StartMoves, Kept
    <3>3. QED
      BY <3>1, <3>2
  <2>2. QED
    BY <1>0, <1>1, <2>1 DEF TxWhereWritten, ResultsFound
<1>4. QED
  BY <1>1, <1>2, <1>3, <1>0 DEF TxWhereWritten, ResultsFound

(* A row that is there stays, under the present version once it has it.    *)
LEMMA ClientRows ==
  ASSUME SceneInv, NEW c \in Clients,
         StartProgress(c) \/ Poll(c) \/ PollTimesOut(c) \/ StartBreaks(c)
  PROVE  RowsSound'
<1>0. /\ SceneTypeOK /\ RowsSound /\ WholeUnlessOverwritten /\ ResultsFound /\ SlotsFree /\ TxWhereWritten
      /\ client[c].restarts \in 0..Restarts[c] /\ c \in Writers
  BY WritersKnown DEF SceneInv, SceneTypeOK, ClientState
<1>1. /\ \A d \in Clients \ {c} : client'[d] = client[d] /\ tx'[d] = tx[d]
      /\ \A w \in Writers \ {c} : tx'[w] = tx[w]
      /\ \A j \in Jobs : tx'[j] = tx[j]
      /\ \A i \in Jobs \ {<<c, client[c].restarts>>} : job'[i] = job[i]
  BY <1>0, ClientStepFrame, WritersKnown
<1>2. row' = row \/ (Sound(row') /\ row' # NoRow /\ row'.version = "now")
  BY <1>0, ClientSteps DEF Kept, Loads, Releases, StartCommits, Commits, StartQueues, StartMoves
<1>3. tx'[c].open => row' = row /\ (tx'[c] = tx[c] \/ tx'[c].loaded = row)
  BY <1>0, ClientSteps DEF Kept, Loads, Releases, StartCommits, Commits, StartQueues, StartMoves
<1>4. Sound(row') /\ (row # NoRow => row' # NoRow) /\ (row.version = "now" => row'.version = "now")
  BY <1>0, <1>2 DEF RowsSound
<1>5. ASSUME NEW w \in Writers, tx'[w].open
      PROVE  /\ Sound(tx'[w].loaded)
             /\ tx'[w].loaded # NoRow => row' # NoRow
             /\ tx'[w].loaded.version = "now" => row'.version = "now"
  <2>1. CASE w = c
    BY <1>0, <1>3, <1>5, <2>1 DEF RowsSound
  <2>2. CASE w # c
    BY <1>0, <1>1, <1>4, <1>5, <2>2 DEF RowsSound
  <2>3. QED
    BY <2>1, <2>2
<1>6. ASSUME client'[c].pc \in {"queueing", "recording"}
      PROVE  row' # NoRow /\ (tx'[c].open => tx'[c].loaded # NoRow)
  BY <1>0, <1>6, ClientSteps
     DEF Kept, Loads, Releases, StartCommits, Commits, StartQueues, StartMoves, RowsSound, TxWhereWritten
<1>7. ASSUME NEW j \in Jobs, job'[j].pc \in {"queued", "running", "saving"}
      PROVE  row' # NoRow /\ (tx'[j].open => tx'[j].loaded # NoRow)
  <2>1. CASE job'[j] = job[j]
    BY <1>0, <1>1, <1>4, <1>7, <2>1 DEF RowsSound
  <2>2. CASE job'[j] # job[j]
    <3>1. StartQueues(c)
      BY <1>0, <2>2, ClientSteps DEF StartCommits, StartMoves, Kept
    <3>2. job[j].pc = "none" /\ client[c].pc = "queueing"
      BY <1>0, <1>1, <2>2, <3>1 DEF Kept, StartQueues, SlotsFree
    <3>3. QED
      BY <1>0, <1>1, <1>4, <3>2 DEF RowsSound, TxWhereWritten
  <2>3. QED
    BY <2>1, <2>2
<1>8. QED
  <2>1. ASSUME NEW d \in Clients, client'[d].pc \in {"queueing", "recording"}
        PROVE  row' # NoRow /\ (tx'[d].open => tx'[d].loaded # NoRow)
    BY <1>0, <1>1, <1>4, <1>6, <2>1 DEF RowsSound
  <2>2. QED
    BY <1>4, <1>5, <1>7, <2>1 DEF RowsSound

(* Whoever is to settle a pending row still is, or has handed it on.       *)
LEMMA ClientSettles ==
  ASSUME SceneInv, NEW c \in Clients,
         StartProgress(c) \/ Poll(c) \/ PollTimesOut(c) \/ StartBreaks(c)
  PROVE  PendingSettled'
<1>0. /\ SceneTypeOK /\ RowsSound /\ WholeUnlessOverwritten /\ ResultsFound /\ SlotsFree /\ TxWhereWritten /\ PendingSettled
      /\ client[c].restarts \in 0..Restarts[c] /\ c \in Writers
  BY WritersKnown DEF SceneInv, SceneTypeOK, ClientState
<1>1. /\ \A d \in Clients \ {c} : client'[d] = client[d] /\ tx'[d] = tx[d]
      /\ \A j \in Jobs : tx'[j] = tx[j]
      /\ \A i \in Jobs \ {<<c, client[c].restarts>>} : job'[i] = job[i]
  BY <1>0, ClientStepFrame, WritersKnown
<1>2. SUFFICES ASSUME row'.status = "pending"
               PROVE  \/ \E d \in Clients : client'[d].pc = "queueing"
                      \/ \E d \in Clients : client'[d].pc = "recording" /\ Settles(d, "failed")'
                      \/ \E j \in Jobs : job'[j].pc \in {"queued", "running"}
                      \/ \E j \in Jobs : job'[j].pc = "saving" /\ Settles(j, job[j].want.status)'
                      \/ Interrupted'
  BY DEF PendingSettled
<1>3. \/ client'[c].pc = "queueing"
      \/ client'[c].pc = "broken"
      \/ client'[c].pc = "recording" /\ Settles(c, "failed")'
      \/ job'[<<c, client[c].restarts>>].pc = "queued" /\ <<c, client[c].restarts>> \in Jobs
      \/ /\ row.status = "pending" /\ job' = job /\ client[c].pc # "queueing"
         /\ ~(client[c].pc = "recording" /\ Settles(c, "failed"))
  <2>1. CASE client' = client /\ job' = job /\ Loads(c)
    BY <1>2, <2>1, <1>0, ClientSteps DEF Kept, Loads, Settles
  <2>2. CASE StartCommits(c)
    BY <1>2, <2>2 DEF StartCommits, Commits, Settles
  <2>3. CASE StartQueues(c)
    BY <1>0, <2>3 DEF Kept, StartQueues, Settles, TxWhereWritten
  <2>4. CASE StartMoves(c)
    BY <1>2, <2>4 DEF Kept, StartMoves
  <2>5. QED
    BY <1>0, <1>2, <2>1, <2>2, <2>3, <2>4, ClientSteps DEF Kept, Releases
<1>4. CASE /\ row.status = "pending" /\ job' = job /\ client[c].pc # "queueing"
           /\ ~(client[c].pc = "recording" /\ Settles(c, "failed"))
  <2>1. CASE \E d \in Clients : client[d].pc = "queueing"
    BY <1>1, <1>4, <2>1
  <2>2. CASE \E d \in Clients : client[d].pc = "recording" /\ Settles(d, "failed")
    BY <1>1, <1>4, <2>2 DEF Settles
  <2>3. CASE \E j \in Jobs : job[j].pc \in {"queued", "running"}
    BY <1>4, <2>3
  <2>4. CASE \E j \in Jobs : job[j].pc = "saving" /\ Settles(j, job[j].want.status)
    BY <1>1, <1>4, <2>4 DEF Settles
  <2>5. CASE Interrupted
    <3>1. CASE \E j \in Jobs : job[j].pc = "dead"
      BY <1>4, <3>1 DEF Interrupted
    <3>2. CASE \E d \in Clients : client[d].pc = "broken"
      <4>1. PICK d \in Clients : client[d].pc = "broken"
        BY <3>2
      <4>2. client'[d].pc = "broken"
        BY <1>0, <1>1, <4>1, ClientSteps DEF StartCommits, StartQueues, StartMoves, Kept
      <4>3. QED
        BY <4>2 DEF Interrupted
    <3>3. QED
      BY <2>5, <3>1, <3>2 DEF Interrupted
  <2>6. QED
    BY <1>0, <1>4, <2>1, <2>2, <2>3, <2>4, <2>5 DEF PendingSettled
<1>5. QED
  BY <1>3, <1>4 DEF Interrupted

LEMMA ClientStep ==
  ASSUME SceneInv, NEW c \in Clients,
         StartProgress(c) \/ Poll(c) \/ PollTimesOut(c) \/ StartBreaks(c)
  PROVE  SceneInv'
<1>1. SceneTypeOK' /\ SlotsFree' /\ TxWhereWritten' /\ RowsSound' /\ ResultsFound' /\ PendingSettled'
  BY ClientStepTypes, ClientSlots, ClientTransactions, ClientRows, ClientSettles DEF SceneInv
<1>2. WholeUnlessOverwritten'
  <2>1. Kept \/ row' \in WholeRows \/ overwritten'
    BY ClientSteps DEF SceneInv, StartCommits, StartQueues, StartMoves, Loads, Releases, Commits
  <2>2. QED
    BY <2>1 DEF SceneInv, Kept, WholeUnlessOverwritten
<1>3. PendingHasOwner'
  BY <1>1 DEF PendingSettled, PendingHasOwner, StartAtWork, JobAtWork
<1>4. QED
  BY <1>1, <1>3, <1>2 DEF SceneInv

-----------------------------------------------------------------------------
(* The same over the steps of a job.                                       *)

LEMMA JobRows ==
  ASSUME SceneInv, NEW j \in Jobs, JobProgress(j) \/ JobBreaks(j)
  PROVE  SlotsFree' /\ TxWhereWritten' /\ ResultsFound' /\ RowsSound'
<1>0. /\ SceneTypeOK /\ RowsSound /\ WholeUnlessOverwritten /\ ResultsFound /\ SlotsFree /\ TxWhereWritten /\ j \in Writers
  BY WritersKnown DEF SceneInv
<1>1. /\ client' = client
      /\ \A w \in Writers \ {j} : tx'[w] = tx[w]
      /\ \A i \in Jobs \ {j} : job'[i] = job[i] /\ tx'[i] = tx[i]
      /\ \A c \in Clients : tx'[c] = tx[c]
      /\ job[j].pc \in {"queued", "running", "saving"}
  BY <1>0, JobStepFrame, WritersKnown
<1>2. SlotsFree'
  <2>1. ASSUME NEW c \in Clients, NEW n \in 0..Restarts[c], job[<<c, n>>].pc = "none"
        PROVE  job'[<<c, n>>].pc = "none"
    BY <1>1, <2>1, WritersKnown
  <2>2. QED
    BY <1>0, <1>1, <2>1 DEF SlotsFree
<1>3. /\ tx'[j].open => job'[j].pc = "saving"
      /\ job'[j].pc = "saving" => job'[j].want \in {Ready(found) : found \in Results} \cup {Failed}
  BY <1>0, JobSteps DEF Kept, Loads, Commits, Releases, TxWhereWritten, ResultsFound
<1>4. TxWhereWritten' /\ ResultsFound'
  BY <1>0, <1>1, <1>3 DEF TxWhereWritten, ResultsFound
<1>5. row' = row \/ (Sound(row') /\ row' # NoRow /\ row'.version = "now")
  BY <1>0, JobSteps DEF Kept, Loads, Releases, Commits
<1>6. Sound(row') /\ (row # NoRow => row' # NoRow) /\ (row.version = "now" => row'.version = "now")
  BY <1>0, <1>5 DEF RowsSound
<1>7. tx'[j].open => row' = row /\ (tx'[j] = tx[j] \/ tx'[j].loaded = row)
  BY <1>0, JobSteps DEF Kept, Loads, Releases, Commits
<1>8. ASSUME NEW w \in Writers, tx'[w].open
      PROVE  /\ Sound(tx'[w].loaded)
             /\ tx'[w].loaded # NoRow => row' # NoRow
             /\ tx'[w].loaded.version = "now" => row'.version = "now"
  <2>1. CASE w = j
    BY <1>0, <1>7, <1>8, <2>1 DEF RowsSound
  <2>2. CASE w # j
    BY <1>0, <1>1, <1>6, <1>8, <2>2 DEF RowsSound
  <2>3. QED
    BY <2>1, <2>2
<1>9. ASSUME NEW c \in Clients, client'[c].pc \in {"queueing", "recording"}
      PROVE  row' # NoRow /\ (tx'[c].open => tx'[c].loaded # NoRow)
  BY <1>0, <1>1, <1>6, <1>9 DEF RowsSound
<1>10. ASSUME NEW i \in Jobs, job'[i].pc \in {"queued", "running", "saving"}
       PROVE  row' # NoRow /\ (tx'[i].open => tx'[i].loaded # NoRow)
  BY <1>0, <1>1, <1>6, <1>7, <1>10 DEF RowsSound
<1>11. QED
  BY <1>2, <1>4, <1>6, <1>8, <1>9, <1>10 DEF RowsSound

LEMMA JobSettles ==
  ASSUME SceneInv, NEW j \in Jobs, JobProgress(j) \/ JobBreaks(j)
  PROVE  PendingSettled'
<1>0. /\ SceneTypeOK /\ RowsSound /\ WholeUnlessOverwritten /\ ResultsFound /\ TxWhereWritten /\ PendingSettled /\ j \in Writers
  BY WritersKnown DEF SceneInv
<1>1. /\ client' = client
      /\ \A i \in Jobs \ {j} : job'[i] = job[i] /\ tx'[i] = tx[i]
      /\ \A c \in Clients : tx'[c] = tx[c]
      /\ job[j].pc \in {"queued", "running", "saving"}
  BY <1>0, JobStepFrame, WritersKnown
<1>2. SUFFICES ASSUME row'.status = "pending"
               PROVE  \/ \E d \in Clients : client'[d].pc = "queueing"
                      \/ \E d \in Clients : client'[d].pc = "recording" /\ Settles(d, "failed")'
                      \/ \E i \in Jobs : job'[i].pc \in {"queued", "running"}
                      \/ \E i \in Jobs : job'[i].pc = "saving" /\ Settles(i, job[i].want.status)'
                      \/ Interrupted'
  BY DEF PendingSettled
<1>3. job[j].pc = "saving" => job[j].want.status # "pending"
  BY <1>0, WantsKnown DEF ResultsFound
<1>4. \/ job'[j].pc \in {"queued", "running", "dead"}
      \/ job'[j].pc = "saving" /\ Settles(j, job[j].want.status)'
      \/ /\ row.status = "pending" /\ job[j].pc = "saving"
         /\ ~Settles(j, job[j].want.status)
  <2>1. CASE row' = row /\ tx' = tx /\ job[j].pc \in {"queued", "running"} /\ job'[j].pc = "saving"
    BY <1>0, <2>1 DEF TxWhereWritten, Settles
  <2>2. CASE job[j].pc = "saving" /\ job' = job /\ Loads(j)
    BY <1>2, <1>3, <2>2 DEF Kept, Loads, Settles
  <2>3. CASE job[j].pc = "saving" /\ Commits(j, job[j].want.status)
    BY <1>2, <1>3, <2>3 DEF Commits, Settles
  <2>4. QED
    BY <1>0, <2>1, <2>2, <2>3, JobSteps DEF Kept
<1>5. CASE /\ row.status = "pending" /\ job[j].pc = "saving"
           /\ ~Settles(j, job[j].want.status)
  <2>1. \/ \E d \in Clients : client[d].pc = "queueing"
        \/ \E d \in Clients : client[d].pc = "recording" /\ Settles(d, "failed")
        \/ \E i \in Jobs \ {j} : job[i].pc \in {"queued", "running"}
        \/ \E i \in Jobs \ {j} : job[i].pc = "saving" /\ Settles(i, job[i].want.status)
        \/ \E d \in Clients : client[d].pc = "broken"
        \/ \E i \in Jobs \ {j} : job[i].pc = "dead"
    BY <1>0, <1>5 DEF PendingSettled, Interrupted
  <2>2. QED
    BY <1>1, <2>1 DEF Interrupted, Settles
<1>6. QED
  BY <1>4, <1>5 DEF Interrupted

LEMMA JobStep ==
  ASSUME SceneInv, NEW j \in Jobs, JobProgress(j) \/ JobBreaks(j)
  PROVE  SceneInv'
<1>1. SceneTypeOK' /\ SlotsFree' /\ TxWhereWritten' /\ RowsSound' /\ ResultsFound' /\ PendingSettled'
  BY JobStepTypes, JobRows, JobSettles DEF SceneInv
<1>2. WholeUnlessOverwritten'
  <2>1. Kept \/ row' \in WholeRows \/ overwritten'
    BY JobSteps DEF SceneInv, Loads, Releases, Commits
  <2>2. QED
    BY <2>1 DEF SceneInv, Kept, WholeUnlessOverwritten
<1>3. PendingHasOwner'
  BY <1>1 DEF PendingSettled, PendingHasOwner, StartAtWork, JobAtWork
<1>4. QED
  BY <1>1, <1>3, <1>2 DEF SceneInv

-----------------------------------------------------------------------------
LEMMA SceneInvInit == Init => SceneInv
<1> SUFFICES ASSUME Init PROVE SceneInv
  OBVIOUS
<1>1. /\ row \in {NoRow, OldRow} /\ row \in Row /\ row.status # "pending" /\ overwritten = FALSE
  BY RowsKnown DEF Init
<1>2. \A c \in Clients : client[c].pc = "check" /\ client[c].restarts = 0
  BY DEF Init
<1>3. /\ \A j \in Jobs : job[j] \in JobState /\ job[j].pc = "none"
      /\ \A w \in Writers : tx[w] = NoTx
  BY NoJobType DEF Init
<1>4. SceneTypeOK
  <2>1. client \in [Clients -> ClientState]
    BY PcsKnown DEF Init, ClientState
  <2>2. job \in [Jobs -> JobState]
    BY <1>3 DEF Init
  <2>3. tx \in [Writers -> [open : BOOLEAN, loaded : Row]]
    BY RowsKnown DEF Init, NoTx
  <2>4. ASSUME NEW c \in Clients
        PROVE  client[c].restarts <= Restarts[c]
    <3>1. Restarts[c] \in Nat
      BY WritersKnown
    <3>2. 0 <= Restarts[c]
      BY <3>1
    <3>3. QED
      BY <1>2, <3>2
  <2>5. QED
    BY <1>1, <2>1, <2>2, <2>3, <2>4 DEF SceneTypeOK
<1>5. SlotsFree
  <2>1. ASSUME NEW c \in Clients, NEW n \in 0..Restarts[c]
        PROVE  job[<<c, n>>].pc = "none"
    BY <1>3, WritersKnown
  <2>2. QED
    BY <1>2, <2>1 DEF SlotsFree
<1>6. TxWhereWritten /\ ResultsFound
  BY <1>2, <1>3, WritersKnown DEF TxWhereWritten, ResultsFound, NoTx
<1>7. RowsSound /\ WholeUnlessOverwritten
  BY <1>1, <1>2, <1>3 DEF RowsSound, Sound, NoTx, WholeUnlessOverwritten, WholeRows
<1>8. PendingHasOwner /\ PendingSettled
  BY <1>1 DEF PendingHasOwner, PendingSettled
<1>9. QED
  BY <1>4, <1>5, <1>6, <1>7, <1>8 DEF SceneInv

LEMMA SceneStutters ==
  ASSUME SceneInv, UNCHANGED vars
  PROVE  SceneInv'
<1>1. SceneTypeOK' /\ SlotsFree' /\ TxWhereWritten'
  BY DEF SceneInv, vars, rowVars, SceneTypeOK, SlotsFree, TxWhereWritten
<1>2. RowsSound' /\ ResultsFound' /\ WholeUnlessOverwritten'
  BY DEF SceneInv, vars, rowVars, RowsSound, ResultsFound, WholeUnlessOverwritten
<1>3. PendingHasOwner' /\ PendingSettled'
  BY DEF SceneInv, vars, rowVars, PendingHasOwner, PendingSettled, StartAtWork, JobAtWork, Interrupted, Settles
<1>4. QED
  BY <1>1, <1>2, <1>3 DEF SceneInv

LEMMA SceneInvStep ==
  ASSUME SceneInv, [Next]_vars
  PROVE  SceneInv'
<1>1. CASE \E c \in Clients : StartProgress(c) \/ Poll(c) \/ PollTimesOut(c) \/ StartBreaks(c)
  BY <1>1, ClientStep
<1>2. CASE \E j \in Jobs : JobProgress(j) \/ JobBreaks(j)
  BY <1>2, JobStep
<1>3. CASE UNCHANGED vars
  BY <1>3, SceneStutters
<1>4. QED
  BY <1>1, <1>2, <1>3 DEF Next, Finished

(* For every number of browsers, restarts and retries: a row that says     *)
(* pending has a start or a job that will change it, unless a process      *)
(* ended or a job ran out of retries, whatever overlapping transactions    *)
(* write into the row (_upsert, scene_analysis_db.py; image_analysis.py).  *)
THEOREM PendingIsOwned == Spec => []SceneInv
<1>1. Init => SceneInv
  BY SceneInvInit
<1>2. SceneInv /\ [Next]_vars => SceneInv'
  BY SceneInvStep
<1>3. QED
  BY <1>1, <1>2, PTL DEF Spec

LEMMA CreatedStep ==
  ASSUME SceneInv, CreatedFromResult, [Next]_vars
  PROVE  CreatedFromResult'
<1> USE DEF CreatedFromResult
<1>0. SceneTypeOK /\ RowsSound /\ WholeUnlessOverwritten /\ ResultsFound
  BY DEF SceneInv
<1>1. ASSUME NEW c \in Clients, StartProgress(c) \/ Poll(c) \/ PollTimesOut(c) \/ StartBreaks(c)
      PROVE  CreatedFromResult'
  <2>1. \A d \in Clients \ {c} : client'[d] = client[d]
    BY <1>0, <1>1, ClientStepFrame
  <2>2. overwritten => overwritten'
    BY <1>0, <1>1, ClientSteps DEF StartCommits, StartQueues, StartMoves, Kept, Loads, Releases, Commits
  <2>3. ASSUME client'[c].pc = "created"
        PROVE  /\ \A k \in Columns :
                    \/ client'[c].found[k] \in FoundIn(k)
                    \/ client'[c].found[k] = NoWord /\ k \notin Required
               /\ client'[c].found \in Results \/ overwritten'
    <3>1. CASE StartCommits(c)
      <4>1. client[c].found \in Results /\ client'[c].found = client[c].found
        BY <1>0, <2>3, <3>1 DEF StartCommits, ResultsFound
      <4>2. QED
        BY <4>1 DEF FoundIn
    <3>2. CASE StartMoves(c)
      BY <2>3, <3>2 DEF Kept, StartMoves, Usable
    <3>3. QED
      BY <1>0, <1>1, <2>3, <3>1, <3>2, ClientSteps DEF Kept, StartQueues
  <2>4. QED
    BY <2>1, <2>2, <2>3
<1>2. ASSUME NEW j \in Jobs, JobProgress(j) \/ JobBreaks(j)
      PROVE  CreatedFromResult'
  <2>1. client' = client
    BY <1>0, <1>2, JobStepFrame
  <2>2. overwritten => overwritten'
    BY <1>0, <1>2, JobSteps DEF Kept, Loads, Releases, Commits
  <2>3. QED
    BY <2>1, <2>2
<1>3. CASE UNCHANGED vars
  BY <1>3 DEF vars, rowVars
<1>4. QED
  BY <1>1, <1>2, <1>3 DEF Next, Finished

(* What a session is created from was found, column by column, under the   *)
(* present version and has all that a hit requires; and it is one result   *)
(* of one analysis unless a transaction has committed over a change of the *)
(* row that it had not seen (the cache branch of start, agent.py; _upsert, *)
(* scene_analysis_db.py), for any number of columns and of browsers that   *)
(* overlap.                                                                *)
THEOREM CreatedOnlyFromResult == Spec => []CreatedFromResult
<1>1. Init => CreatedFromResult
  BY DEF Init, CreatedFromResult
<1>2. SceneInv /\ CreatedFromResult /\ [Next]_vars => CreatedFromResult'
  BY CreatedStep
<1>3. QED
  BY <1>1, <1>2, PendingIsOwned, PTL DEF Spec

-----------------------------------------------------------------------------
(* Uploads.  The gate's conjuncts of MediaInv say what passes it, those of *)
(* what is stored relate an object and a row to the upload they are of,    *)
(* and those of visitors explain why the cookie of the one upload that     *)
(* made its visitor up opens all that was shown.                           *)

(* What no step but the first and ResolveOwner changes of an upload.       *)
Identity(u) ==
  /\ upload'[u].size = upload[u].size /\ upload'[u].visitor = upload[u].visitor
  /\ upload'[u].fresh = upload[u].fresh

Advances(u, from, to) ==
  /\ upload[u].pc = from /\ upload'[u].pc = to /\ Identity(u)
  /\ upload'[u].starts = upload[u].starts /\ upload'[u].status = upload[u].status

Replies(u, status, pc) ==
  /\ upload'[u].pc = pc /\ Identity(u)
  /\ upload'[u].starts = upload[u].starts + 1
  /\ upload'[u].status = IF upload[u].starts = 0 THEN status ELSE upload[u].status

Typed ==
  /\ upload' \in [Uploads -> UploadState]
  /\ \A u \in Uploads : upload'[u].total <= MaxBody

LEMMA StagesKnown ==
  /\ \A pc \in {"none", "sent", "cut", "parsed", "owned", "measured", "stored", "saved", "signed",
               "answered"} : pc \in Stages
  /\ \A pc \in Stages : pc \in {"none", "sent", "cut", "parsed", "owned", "measured", "stored",
                               "saved", "signed", "answered"}
BY DEF Stages

LEMMA UploadGoing ==
  ASSUME MediaTypeOK, NEW u \in Uploads, NEW from, NEW to \in Stages, UploadGoes(u, from, to)
  PROVE  /\ Typed /\ Advances(u, from, to)
         /\ \A v \in Uploads \ {u} : upload'[v] = upload[v]
<1>1. /\ upload \in [Uploads -> UploadState] /\ upload[u].pc = from
      /\ upload' = [upload EXCEPT ![u].pc = to]
      /\ \A v \in Uploads : upload[v].total <= MaxBody
  BY DEF MediaTypeOK, UploadGoes
<1>2. /\ upload' \in [Uploads -> UploadState] /\ Advances(u, from, to)
      /\ \A v \in Uploads \ {u} : upload'[v] = upload[v]
      /\ upload'[u].total = upload[u].total
  BY <1>1 DEF UploadState, Advances, Identity
<1>3. QED
  BY <1>1, <1>2 DEF Typed

LEMMA Answering ==
  ASSUME MediaTypeOK, NEW u \in Uploads, NEW status \in Nat, NEW pc \in Stages,
         Answers(u, status, pc)
  PROVE  /\ Typed /\ Replies(u, status, pc)
         /\ \A v \in Uploads \ {u} : upload'[v] = upload[v]
<1>1. /\ upload \in [Uploads -> UploadState] /\ upload[u] \in UploadState
      /\ \A v \in Uploads : upload[v].total <= MaxBody
  BY DEF MediaTypeOK
<1>2. PICK answer : answer = IF upload[u].starts = 0 THEN status ELSE upload[u].status
  OBVIOUS
<1>3. /\ upload' = [upload EXCEPT ![u] = [upload[u] EXCEPT !.pc = pc, !.starts = upload[u].starts + 1,
                                                           !.status = answer]]
      /\ upload[u].starts + 1 \in Nat /\ answer \in Nat
  <2>1. upload[u].starts + 1 \in Nat /\ answer \in Nat
    BY <1>1, <1>2 DEF UploadState
  <2>2. QED
    BY <1>2, <2>1 DEF Answers
<1>4. /\ upload' \in [Uploads -> UploadState]
      /\ \A v \in Uploads \ {u} : upload'[v] = upload[v]
      /\ upload'[u].total = upload[u].total
      /\ upload'[u].pc = pc /\ upload'[u].starts = upload[u].starts + 1 /\ upload'[u].status = answer
      /\ Identity(u)
  BY <1>1, <1>3 DEF UploadState, Identity
<1>5. QED
  BY <1>1, <1>2, <1>4 DEF Typed, Replies

(* The steps of an upload, by what they do to it and to what is stored.    *)
Sending(u) ==
  /\ upload[u].pc = "none" /\ upload'[u].pc = "sent" /\ upload'[u].size >= Framing
  /\ upload'[u].visitor = jar /\ ~upload'[u].fresh /\ upload'[u].starts = upload[u].starts

Gating(u) ==
  /\ upload[u].pc \in {"sent", "cut"}
  /\ \/ Advances(u, "sent", "sent")
     \/ Advances(u, "sent", "parsed") /\ upload[u].size <= MaxBody
     \/ Replies(u, 413, "answered") /\ upload[u].size > MaxBody
     \/ Replies(u, 413, "cut") /\ upload[u].size > MaxBody
     \/ Advances(u, "sent", "cut") /\ upload[u].starts # 0
     \/ upload[u].pc = "cut" /\ Replies(u, 400, "answered")

Owning(u) ==
  /\ upload[u].pc = "parsed"
  /\ \/ Advances(u, "parsed", "owned") /\ upload[u].visitor # 0 /\ visitors' = visitors
     \/ /\ upload[u].visitor = 0 /\ visitors' = visitors + 1 /\ upload'[u].pc = "owned"
        /\ upload'[u].visitor = visitors + 1 /\ upload'[u].fresh
        /\ upload'[u].size = upload[u].size /\ upload'[u].starts = upload[u].starts
     \/ Replies(u, 429, "answered") /\ visitors' = visitors

Storing(u) ==
  \/ /\ upload[u].pc = "owned"
     /\ \/ Advances(u, "owned", "measured") /\ FileSize(u) \in 1..MaxFile
        \/ \E status \in Nat : Replies(u, status, "answered")
     /\ UNCHANGED << objects, rows >>
  \/ /\ upload[u].pc = "measured" /\ objects' \in {objects, objects \cup {Media(u)}}
     /\ \/ Advances(u, "measured", "stored") /\ Media(u) \in objects'
        \/ \E status \in Nat : Replies(u, status, "answered")
     /\ UNCHANGED rows
  \/ /\ upload[u].pc = "stored" /\ rows' \in {rows, rows \cup {Media(u)}}
     /\ \/ Advances(u, "stored", "saved") /\ Media(u) \in rows'
        \/ \E status \in Nat : Replies(u, status, "answered")
     /\ UNCHANGED objects
  \/ /\ upload[u].pc = "saved"
     /\ \/ Advances(u, "saved", "signed")
        \/ \E status \in Nat : Replies(u, status, "answered")
     /\ UNCHANGED << objects, rows >>

Arriving(u) ==
  /\ upload[u].pc = "signed" /\ \E status \in Nat : Replies(u, status, "answered")
  /\ \/ /\ jar' = IF upload[u].fresh THEN upload[u].visitor ELSE jar
        /\ shown' = shown \cup {u}
     \/ UNCHANGED << jar, shown >>

LEMMA UploadSteps ==
  ASSUME MediaTypeOK, GateKept, VisitorKnown, NEW u \in Uploads, UploadStep(u)
  PROVE  /\ Typed
         /\ \A v \in Uploads \ {u} : upload'[v] = upload[v]
         /\ \/ Sending(u) /\ UNCHANGED << jar, visitors, objects, rows, shown >>
            \/ Gating(u) /\ UNCHANGED << jar, visitors, objects, rows, shown >>
            \/ Owning(u) /\ UNCHANGED << jar, objects, rows, shown >>
            \/ Storing(u) /\ UNCHANGED << jar, visitors, shown >>
            \/ Arriving(u) /\ UNCHANGED << visitors, objects, rows >>
<1>0. /\ upload \in [Uploads -> UploadState] /\ upload[u] \in UploadState
      /\ upload[u].total \in Nat /\ upload[u].size \in Nat
      /\ \A v \in Uploads : upload[v].total <= MaxBody
      /\ jar \in Nat /\ visitors \in Nat /\ visitors + 1 \in Nat
      /\ MaxBody \in Nat /\ MaxFile \in Nat
  BY UploadAssumption DEF MediaTypeOK, UploadState
<1>1. CASE SendUpload(u)
  <2>1. PICK size \in BodySizes, declared \in BOOLEAN, image \in Images :
          upload' = [upload EXCEPT ![u] =
            [@ EXCEPT !.pc = "sent", !.size = size, !.declared = declared,
                      !.image = image, !.visitor = jar]]
    BY <1>1 DEF SendUpload
  <2>2. size \in Nat /\ size >= Framing /\ "sent" \in Stages
    BY <1>0, StagesKnown DEF BodySizes, Framing
  <2>3. ~upload[u].fresh
    BY <1>1 DEF SendUpload, VisitorKnown
  <2>4. /\ upload' \in [Uploads -> UploadState]
        /\ \A v \in Uploads \ {u} : upload'[v] = upload[v]
        /\ upload'[u].total = upload[u].total
        /\ upload'[u].pc = "sent" /\ upload'[u].visitor = jar /\ upload'[u].size = size
        /\ upload'[u].fresh = upload[u].fresh /\ upload'[u].starts = upload[u].starts
    BY <1>0, <2>1, <2>2 DEF UploadState
  <2>5. QED
    BY <1>0, <1>1, <2>2, <2>3, <2>4 DEF SendUpload, Sending, Typed
<1>2. CASE Declared(u)
  BY <1>0, <1>2, UploadGoing, Answering, StagesKnown DEF Declared, Gating
<1>3. CASE CountBlock(u)
  <2>1. CASE WithinLimit(upload[u].total + 1)
    <3>1. /\ upload' = [upload EXCEPT ![u].total = upload[u].total + 1]
          /\ upload[u].pc = "sent" /\ upload[u].total + 1 \in Nat /\ upload[u].total + 1 <= MaxBody
      BY <1>0, <1>3, <2>1 DEF CountBlock, WithinLimit
    <3>2. /\ upload' \in [Uploads -> UploadState]
          /\ \A v \in Uploads \ {u} : upload'[v] = upload[v]
          /\ upload'[u].total = upload[u].total + 1
          /\ Advances(u, "sent", "sent")
      BY <1>0, <3>1 DEF UploadState, Advances, Identity
    <3>3. QED
      BY <1>0, <1>3, <3>1, <3>2 DEF CountBlock, Gating, Typed
  <2>2. CASE ~WithinLimit(upload[u].total + 1)
    <3>1. upload[u].size > MaxBody /\ upload[u].pc = "sent"
      BY <1>0, <1>3, <2>2 DEF CountBlock, WithinLimit
    <3>2. IF upload[u].starts = 0 THEN Answers(u, 413, "cut") ELSE UploadGoes(u, "sent", "cut")
      BY <1>3, <2>2 DEF CountBlock
    <3>3. QED
      BY <1>3, <3>1, <3>2, UploadGoing, Answering, StagesKnown DEF CountBlock, Gating
  <2>3. QED
    BY <2>1, <2>2
<1>4. CASE ParsingFails(u)
  BY <1>4, Answering, StagesKnown DEF ParsingFails, Gating
<1>5. CASE BodyEnds(u)
  BY <1>0, <1>5, UploadGoing, StagesKnown DEF BodyEnds, Gating, UploadGoes
<1>6. CASE ResolveOwner(u)
  <2>1. ASSUME upload[u].visitor = 0, visitors' = visitors + 1,
               upload' = [upload EXCEPT ![u].pc = "owned", ![u].fresh = TRUE,
                                        ![u].visitor = visitors + 1]
        PROVE  Typed /\ Owning(u) /\ \A v \in Uploads \ {u} : upload'[v] = upload[v]
    <3>1. "owned" \in Stages
      BY StagesKnown
    <3>2. /\ upload' \in [Uploads -> UploadState]
          /\ \A v \in Uploads \ {u} : upload'[v] = upload[v]
          /\ upload'[u].total = upload[u].total
          /\ upload'[u].pc = "owned" /\ upload'[u].visitor = visitors + 1 /\ upload'[u].fresh
          /\ upload'[u].size = upload[u].size /\ upload'[u].starts = upload[u].starts
      BY <1>0, <2>1, <3>1 DEF UploadState
    <3>3. QED
      BY <1>0, <1>6, <2>1, <3>2 DEF ResolveOwner, Owning, Typed
  <2>2. ASSUME upload[u].visitor # 0, UploadGoes(u, "parsed", "owned"), visitors' = visitors
        PROVE  Typed /\ Owning(u) /\ \A v \in Uploads \ {u} : upload'[v] = upload[v]
    BY <2>2, UploadGoing, StagesKnown DEF Owning, UploadGoes
  <2>3. ASSUME Answers(u, 429, "answered"), visitors' = visitors
        PROVE  Typed /\ Owning(u) /\ \A v \in Uploads \ {u} : upload'[v] = upload[v]
    <3>1. upload[u].pc = "parsed"
      BY <1>6 DEF ResolveOwner, UploadGoes
    <3>2. /\ Typed /\ Replies(u, 429, "answered")
          /\ \A v \in Uploads \ {u} : upload'[v] = upload[v]
      BY <2>3, Answering, StagesKnown
    <3>3. QED
      BY <2>3, <3>1, <3>2 DEF Owning
  <2>4. QED
    BY <1>6, <2>1, <2>2, <2>3 DEF ResolveOwner
<1>7. CASE Measure(u)
  <2> DEFINE verdict == Verdict(upload[u].image, FileSize(u))
  <2>1. /\ verdict \in Nat
        /\ verdict = 0 => FileSize(u) \in 1..MaxFile
    <3>1. upload[u].image \in {"good", "unsupported", "bad signature"}
      BY <1>0 DEF UploadState, Images
    <3>2. FileSize(u) \in Nat
      BY <1>0, <1>7 DEF Measure, FileSize, Framing, GateKept
    <3>3. CASE upload[u].image = "unsupported"
      BY <3>3 DEF Verdict
    <3>4. CASE upload[u].image = "bad signature"
      <4>1. verdict = 400
        BY <3>4, Zenon DEF Verdict
      <4>2. QED
        BY <4>1
    <3>5. CASE upload[u].image = "good" /\ FileSize(u) = 0
      BY <3>5 DEF Verdict
    <3>6. CASE upload[u].image = "good" /\ FileSize(u) # 0 /\ FileSize(u) > MaxFile
      BY <3>6 DEF Verdict
    <3>7. CASE upload[u].image = "good" /\ FileSize(u) # 0 /\ ~(FileSize(u) > MaxFile)
      BY <1>0, <3>2, <3>7 DEF Verdict
    <3>8. QED
      BY <3>1, <3>3, <3>4, <3>5, <3>6, <3>7
  <2> HIDE DEF verdict
  <2>2. /\ upload[u].pc = "owned"
        /\ \/ verdict = 0 /\ UploadGoes(u, "owned", "measured")
           \/ Answers(u, verdict, "answered")
        /\ UNCHANGED << jar, visitors, objects, rows, shown >>
    BY <1>7 DEF Measure, verdict
  <2>3. QED
    BY <2>1, <2>2, UploadGoing, Answering, StagesKnown DEF Storing
<1>8. CASE StoreObject(u)
  BY <1>8, UploadGoing, StagesKnown DEF StoreObject, Storing, UploadGoes
<1>9. CASE StoringFails(u)
  BY <1>9, Answering, StagesKnown DEF StoringFails, Storing
<1>10. CASE SaveMedia(u)
  BY <1>10, UploadGoing, StagesKnown DEF SaveMedia, Storing, UploadGoes
<1>11. CASE SavingFails(u)
  BY <1>11, Answering, StagesKnown DEF SavingFails, Storing
<1>12. CASE Sign(u)
  BY <1>12, UploadGoing, Answering, StagesKnown DEF Sign, Storing
<1>13. CASE UploadArrives(u)
  BY <1>13, Answering, StagesKnown DEF UploadArrives, Arriving
<1>14. QED
  BY <1>1, <1>2, <1>3, <1>4, <1>5, <1>6, <1>7, <1>8, <1>9, <1>10, <1>11, <1>12, <1>13 DEF UploadStep

-----------------------------------------------------------------------------
(* An upload is known by the same media as long as its object may exist.   *)
LEMMA MediaKept ==
  ASSUME MediaInv, NEW u \in Uploads, UploadStep(u)
  PROVE  /\ \A v \in Uploads \ {u} : Media(v)' = Media(v) /\ FileSize(v)' = FileSize(v)
         /\ upload[u].pc \notin {"none", "parsed"} =>
              /\ Media(u)' = Media(u) /\ FileSize(u)' = FileSize(u)
              /\ upload'[u].size = upload[u].size
              /\ upload'[u].visitor = upload[u].visitor /\ upload'[u].fresh = upload[u].fresh
         /\ upload[u].pc # "none" => upload'[u].size = upload[u].size
<1>1. MediaTypeOK /\ GateKept /\ VisitorKnown
  BY DEF MediaInv
<1>2. \A v \in Uploads \ {u} : upload'[v] = upload[v]
  BY <1>1, UploadSteps
<1>3. upload[u].pc \notin {"none", "parsed"} => Identity(u)
  BY <1>1, UploadSteps DEF Sending, Gating, Owning, Storing, Arriving, Advances, Replies
<1>4. upload[u].pc # "none" => upload'[u].size = upload[u].size
  BY <1>1, UploadSteps DEF Sending, Gating, Owning, Storing, Arriving, Advances, Replies, Identity
<1>5. QED
  BY <1>2, <1>3, <1>4 DEF Media, FileSize, Identity

LEMMA GateStep ==
  ASSUME MediaInv, NEW u \in Uploads, UploadStep(u)
  PROVE  GateKept' /\ LargeBodyRefused'
<1>1. /\ MediaTypeOK /\ GateKept /\ VisitorKnown /\ StoredKept /\ LargeBodyRefused
      /\ upload[u].size \in Nat /\ upload[u].starts \in Nat
      /\ MaxBody \in Nat /\ MaxFile \in Nat /\ MaxFile < MaxBody
  BY UploadAssumption DEF MediaInv, MediaTypeOK, UploadState
<1>2. /\ \A v \in Uploads \ {u} : upload'[v] = upload[v]
      /\ upload'[u] \in UploadState
  BY <1>1, UploadSteps DEF Typed
<1>3. CASE Sending(u)
  <2>2. /\ \A o \in objects : o.id # u
        /\ objects' = objects
    BY <1>1, <1>3, UploadSteps DEF StoredKept, Sending, Gating, Owning, Storing, Arriving, Advances
  <2>3. QED
    BY <1>1, <1>2, <1>3, <2>2 DEF GateKept, LargeBodyRefused, Sending
<1>4. CASE upload[u].pc # "none"
  <2>1. /\ upload'[u].pc # "none" => upload'[u].size >= Framing
        /\ upload'[u].pc \notin {"cut", "answered"} => upload'[u].starts = 0
        /\ upload'[u].pc = "cut" =>
             upload'[u].size > MaxBody /\ upload'[u].starts > 0 /\ upload'[u].status = 413
        /\ upload'[u].pc \in Stages \ {"none", "sent", "cut", "answered"} => upload'[u].size <= MaxBody
        /\ upload'[u].size > MaxBody /\ upload'[u].pc = "answered" => upload'[u].status = 413
    <3>1. upload'[u].size = upload[u].size
      BY <1>4, MediaKept
    <3>2. CASE Gating(u)
      BY <1>1, <1>4, <3>1, <3>2, StagesKnown DEF Gating, GateKept, Advances, Replies
    <3>3. CASE Owning(u) \/ Storing(u) \/ Arriving(u)
      BY <1>1, <1>4, <3>1, <3>3, StagesKnown DEF Owning, Storing, Arriving, GateKept, Advances, Replies
    <3>4. QED
      BY <1>1, <1>4, <3>2, <3>3, UploadSteps DEF Sending
  <2>2. \A o \in objects' : o \in objects \/ (o = Media(u) /\ upload[u].pc = "measured")
    BY <1>1, UploadSteps DEF Storing
  <2>3. upload[u].pc = "measured" => upload[u].size <= MaxBody
    BY <1>1, StagesKnown DEF GateKept
  <2>4. ASSUME NEW v \in Uploads, upload'[v].size > MaxBody, NEW o \in objects'
        PROVE  o.id # v
    <3>1. upload'[v].size = upload[v].size
      BY <1>2, <1>4, MediaKept
    <3>2. QED
      BY <1>1, <2>2, <2>3, <2>4, <3>1 DEF LargeBodyRefused, Media
  <2>5. QED
    BY <1>1, <1>2, <2>1, <2>4 DEF GateKept, LargeBodyRefused
<1>5. QED
  BY <1>1, <1>3, <1>4, UploadSteps DEF Gating, Owning, Storing, Arriving

LEMMA StoredStep ==
  ASSUME MediaInv, NEW u \in Uploads, UploadStep(u)
  PROVE  StoredKept' /\ RowHasObject' /\ MediaTypeOK'
<1>1. /\ MediaTypeOK /\ GateKept /\ VisitorKnown /\ StoredKept /\ RowHasObject
      /\ upload[u] \in UploadState
  BY DEF MediaInv, MediaTypeOK
<1>2. /\ \A v \in Uploads \ {u} : upload'[v] = upload[v] /\ Media(v)' = Media(v) /\ FileSize(v)' = FileSize(v)
      /\ Typed
  BY <1>1, UploadSteps, MediaKept
<1>3. /\ objects \subseteq objects' /\ rows \subseteq rows'
      /\ \A o \in objects' : o \in objects \/ (o = Media(u) /\ upload[u].pc = "measured"
                                                /\ upload'[u].pc \in {"stored", "answered"})
      /\ \A m \in rows' : m \in rows \/ (m = Media(u) /\ upload[u].pc = "stored")
  BY <1>1, UploadSteps DEF Storing, Advances, Replies
<1>4. /\ upload'[u].pc \in {"measured", "stored", "saved", "signed"} => FileSize(u)' \in 1..MaxFile
      /\ upload'[u].pc \in {"stored", "saved", "signed"} => Media(u)' \in objects'
      /\ upload'[u].pc \in {"saved", "signed"} => Media(u)' \in rows'
  <2>1. CASE Sending(u) \/ Gating(u) \/ Owning(u) \/ Arriving(u)
    BY <2>1 DEF Sending, Gating, Owning, Arriving, Advances, Replies
  <2>2. CASE Storing(u)
    <3>1. Media(u)' = Media(u) /\ FileSize(u)' = FileSize(u)
      BY <2>2, MediaKept DEF Storing
    <3>2. QED
      BY <1>1, <1>3, <2>2, <3>1 DEF Storing, Advances, Replies, StoredKept
  <2>3. QED
    BY <1>1, <2>1, <2>2, UploadSteps
<1>5. ASSUME NEW o \in objects'
      PROVE  /\ o.id \in Uploads /\ o = Media(o.id)' /\ FileSize(o.id)' \in 1..MaxFile
             /\ upload'[o.id].pc \in {"stored", "saved", "signed", "answered"}
  <2>1. CASE o \in objects
    <3>1. /\ o.id \in Uploads /\ o = Media(o.id) /\ FileSize(o.id) \in 1..MaxFile
          /\ upload[o.id].pc \in {"stored", "saved", "signed", "answered"}
      BY <1>1, <2>1 DEF StoredKept
    <3>2. CASE o.id = u
      <4>1. upload'[u].pc \in {"stored", "saved", "signed", "answered"}
        BY <1>1, <3>1, <3>2, UploadSteps DEF Sending, Gating, Owning, Storing, Arriving, Advances, Replies
      <4>2. QED
        BY <3>1, <3>2, <4>1, MediaKept
    <3>3. CASE o.id # u
      BY <1>2, <3>1, <3>3
    <3>4. QED
      BY <3>2, <3>3
  <2>2. CASE /\ o = Media(u) /\ upload[u].pc = "measured"
             /\ upload'[u].pc \in {"stored", "answered"}
    BY <1>1, <2>2, MediaKept DEF StoredKept, Media
  <2>3. QED
    BY <1>3, <2>1, <2>2
<1>6. StoredKept'
  <2>1. ASSUME NEW v \in Uploads
        PROVE  /\ upload'[v].pc \in {"measured", "stored", "saved", "signed"} => FileSize(v)' \in 1..MaxFile
               /\ upload'[v].pc \in {"stored", "saved", "signed"} => Media(v)' \in objects'
               /\ upload'[v].pc \in {"saved", "signed"} => Media(v)' \in rows'
    BY <1>1, <1>2, <1>3, <1>4 DEF StoredKept
  <2>2. QED
    BY <1>5, <2>1 DEF StoredKept
<1>7. RowHasObject'
  <2>1. upload[u].pc = "stored" => Media(u) \in objects /\ Media(u).size \in 1..MaxFile
    BY <1>1 DEF StoredKept, Media
  <2>2. QED
    BY <1>1, <1>3, <2>1 DEF RowHasObject
<1>8. MediaTypeOK'
  <2>1. \A o, p \in objects' : o.id = p.id => o = p
    BY <1>5
  <2>2. visitors' \in Nat /\ jar' \in 0..visitors' /\ shown' \subseteq Uploads
    <3>1. visitors \in Nat /\ jar \in Nat /\ jar <= visitors /\ shown \subseteq Uploads
          /\ upload[u].visitor \in Nat /\ upload[u].visitor <= visitors
      BY <1>1 DEF MediaTypeOK, VisitorKnown, UploadState
    <3>2. visitors' \in {visitors, visitors + 1} /\ jar' \in {jar, upload[u].visitor} /\ shown' \subseteq shown \cup {u}
      BY <1>1, UploadSteps DEF Owning, Arriving
    <3>3. QED
      BY <3>1, <3>2
  <2>3. QED
    BY <1>2, <2>1, <2>2 DEF MediaTypeOK, Typed
<1>9. QED
  BY <1>6, <1>7, <1>8

(* FreshShown of the next state.                                           *)
FreshNext(visitor) == \E m \in shown' : upload'[m].fresh /\ upload'[m].visitor = visitor

LEMMA VisitorStep ==
  ASSUME MediaInv, NEW u \in Uploads, UploadStep(u)
  PROVE  VisitorKnown'
<1>1. /\ MediaTypeOK /\ GateKept /\ VisitorKnown /\ StoredKept
      /\ upload[u] \in UploadState /\ visitors \in Nat /\ upload[u].visitor \in Nat
      /\ jar \in Nat /\ jar <= visitors
  BY DEF MediaInv, MediaTypeOK, UploadState
<1>2. /\ \A v \in Uploads \ {u} : upload'[v] = upload[v] /\ Media(v)' = Media(v)
      /\ rows \subseteq rows' /\ shown \subseteq shown'
      /\ visitors' \in {visitors, visitors + 1}
      /\ shown' = shown \/ (shown' = shown \cup {u} /\ Arriving(u))
  BY <1>1, UploadSteps, MediaKept DEF Storing, Owning, Arriving
<1>3. \A m \in shown : m \in Uploads /\ m # u
  <2>1. u \in shown => upload[u].pc = "answered"
    BY <1>1 DEF VisitorKnown
  <2>2. upload[u].pc # "answered"
    BY <1>1, UploadSteps DEF Sending, Gating, Owning, Storing, Arriving
  <2>3. QED
    BY <1>1, <2>1, <2>2 DEF MediaTypeOK
<1>4. \A visitor : FreshShown(visitor) => FreshNext(visitor)
  BY <1>2, <1>3 DEF FreshShown, FreshNext
<1>5. /\ upload'[u].visitor <= visitors'
      /\ upload'[u].pc \in {"owned", "measured", "stored", "saved", "signed"} => upload'[u].visitor # 0
      /\ upload'[u].fresh => upload'[u].pc \notin {"none", "sent", "cut", "parsed"}
      /\ upload'[u].visitor # 0 /\ ~upload'[u].fresh => FreshNext(upload'[u].visitor)
  <2>1. CASE Sending(u) /\ visitors' = visitors
    BY <1>1, <1>4, <2>1 DEF Sending, VisitorKnown
  <2>2. CASE Owning(u)
    BY <1>1, <1>4, <2>2 DEF Owning, VisitorKnown, Advances, Replies, Identity
  <2>3. CASE (Gating(u) \/ Storing(u) \/ Arriving(u)) /\ visitors' = visitors
    <3>1. /\ upload'[u].visitor = upload[u].visitor /\ upload'[u].fresh = upload[u].fresh
          /\ upload'[u].pc \in {"owned", "measured", "stored", "saved", "signed"}
               => upload[u].pc \in {"owned", "measured", "stored", "saved", "signed"}
          /\ upload'[u].pc \in {"none", "sent", "cut", "parsed"}
               => upload[u].pc \in {"none", "sent", "cut", "parsed"}
      BY <2>3 DEF Gating, Storing, Arriving, Advances, Replies, Identity
    <3>2. QED
      BY <1>1, <1>4, <2>3, <3>1 DEF VisitorKnown
  <2>4. QED
    BY <1>1, <2>1, <2>2, <2>3, UploadSteps
<1>6. jar # 0 => jar' # 0
  BY <1>1, UploadSteps DEF Arriving, VisitorKnown
<1>7. ASSUME shown' = shown \cup {u}, Arriving(u)
      PROVE  /\ upload'[u].pc = "answered" /\ upload'[u].visitor # 0 /\ Media(u)' \in rows'
             /\ upload'[u].fresh => jar' # 0 \/ shown' = shown
             /\ upload'[u].visitor = upload[u].visitor /\ upload'[u].fresh = upload[u].fresh
  <2>1. /\ upload[u].pc = "signed" /\ upload[u].visitor # 0 /\ Media(u) \in rows
        /\ upload'[u].pc = "answered" /\ upload'[u].visitor = upload[u].visitor
        /\ upload'[u].fresh = upload[u].fresh
    BY <1>1, <1>7 DEF Arriving, VisitorKnown, StoredKept, Replies, Identity
  <2>2. Media(u)' = Media(u)
    BY <2>1, MediaKept
  <2>3. QED
    BY <1>2, <1>7, <2>1, <2>2 DEF Arriving
<1>8. jar' # 0 => FreshNext(jar')
  <2>1. CASE jar' = jar
    BY <1>1, <1>4, <2>1 DEF VisitorKnown
  <2>2. CASE jar' # jar
    <3>1. /\ Arriving(u) /\ shown' = shown \cup {u}
          /\ upload[u].fresh /\ jar' = upload[u].visitor
      BY <1>1, <2>2, UploadSteps DEF Arriving
    <3>2. QED
      BY <1>7, <3>1 DEF FreshNext
  <2>3. QED
    BY <2>1, <2>2
<1>9. ASSUME NEW m \in shown'
      PROVE  /\ upload'[m].pc = "answered" /\ upload'[m].visitor # 0 /\ Media(m)' \in rows'
             /\ upload'[m].fresh => jar' # 0
  <2>1. CASE m \in shown
    BY <1>1, <1>2, <1>3, <1>6, <2>1 DEF VisitorKnown
  <2>2. CASE m \notin shown
    BY <1>2, <1>7, <2>2
  <2>3. QED
    BY <2>1, <2>2
<1>10. ASSUME NEW v \in Uploads \ {u}
       PROVE  /\ upload'[v].visitor <= visitors'
              /\ upload'[v].pc \in {"owned", "measured", "stored", "saved", "signed"} => upload'[v].visitor # 0
              /\ upload'[v].fresh => upload'[v].pc \notin {"none", "sent", "cut", "parsed"}
              /\ upload'[v].visitor # 0 /\ ~upload'[v].fresh => FreshNext(upload'[v].visitor)
  <2>1. upload[v].visitor \in Nat /\ upload[v].visitor <= visitors /\ upload'[v] = upload[v]
    BY <1>1, <1>2 DEF VisitorKnown, MediaTypeOK, UploadState
  <2>2. upload'[v].visitor <= visitors'
    BY <1>1, <1>2, <2>1
  <2>3. QED
    BY <1>1, <1>4, <2>1, <2>2 DEF VisitorKnown
<1>11. QED
  <2>1. ASSUME NEW v \in Uploads
        PROVE  /\ upload'[v].visitor <= visitors'
               /\ upload'[v].pc \in {"owned", "measured", "stored", "saved", "signed"} => upload'[v].visitor # 0
               /\ upload'[v].fresh => upload'[v].pc \notin {"none", "sent", "cut", "parsed"}
               /\ upload'[v].visitor # 0 /\ ~upload'[v].fresh => FreshNext(upload'[v].visitor)
    BY <1>5, <1>10
  <2>2. QED
    BY <1>8, <1>9, <2>1 DEF VisitorKnown, FreshShown, FreshNext

(* One fresh visitor among what was shown is the visitor of all of it, and *)
(* the one in the jar.                                                     *)
LEMMA VisitorsAgree ==
  ASSUME MediaTypeOK, VisitorKnown
  PROVE  ShownIsReadable
<1>1. SUFFICES ASSUME \A m, n \in shown : upload[m].fresh /\ upload[n].fresh => m = n,
                      NEW m \in shown
               PROVE  Readable(m)
  BY DEF ShownIsReadable
<1>2. m \in Uploads /\ Media(m) \in rows /\ upload[m].visitor # 0
  BY DEF MediaTypeOK, VisitorKnown
<1>3. FreshShown(upload[m].visitor)
  BY <1>2 DEF VisitorKnown, FreshShown
<1>4. FreshShown(jar)
  BY <1>3 DEF VisitorKnown, FreshShown
<1>5. upload[m].visitor = jar
  BY <1>1, <1>3, <1>4 DEF FreshShown
<1>6. QED
  BY <1>2, <1>5 DEF Readable, Media

LEMMA MediaInvInit == MediaInit => MediaInv
<1> SUFFICES ASSUME MediaInit PROVE MediaInv
  OBVIOUS
<1>1. /\ NotSent \in UploadState /\ NotSent.total = 0 /\ NotSent.pc = "none"
      /\ NotSent.visitor = 0 /\ ~NotSent.fresh /\ NotSent.starts = 0 /\ NotSent.size = 0
      /\ MaxBody \in Nat
  BY UploadAssumption, StagesKnown DEF NotSent, UploadState, Images
<1>2. /\ jar = 0 /\ visitors = 0 /\ objects = {} /\ rows = {} /\ shown = {}
      /\ upload \in [Uploads -> UploadState]
      /\ \A u \in Uploads : upload[u] = NotSent
  BY <1>1 DEF MediaInit
<1>3. MediaTypeOK
  BY <1>1, <1>2 DEF MediaTypeOK
<1>4. GateKept /\ StoredKept /\ VisitorKnown
  BY <1>1, <1>2 DEF GateKept, StoredKept, VisitorKnown
<1>5. RowHasObject /\ LargeBodyRefused
  BY <1>1, <1>2 DEF RowHasObject, LargeBodyRefused
<1>6. QED
  BY <1>3, <1>4, <1>5, VisitorsAgree DEF MediaInv

LEMMA MediaInvStep ==
  ASSUME MediaInv, [MediaNext]_mediaVars
  PROVE  MediaInv'
<1>1. ASSUME NEW u \in Uploads, UploadStep(u)
      PROVE  MediaInv'
  <2>1. /\ GateKept' /\ LargeBodyRefused' /\ StoredKept' /\ RowHasObject' /\ MediaTypeOK'
        /\ VisitorKnown'
    BY <1>1, GateStep, StoredStep, VisitorStep
  <2>2. ShownIsReadable'
    <3>1. SUFFICES ASSUME \A m, n \in shown' : upload'[m].fresh /\ upload'[n].fresh => m = n,
                          NEW m \in shown'
                   PROVE  Readable(m)'
      BY DEF ShownIsReadable
    <3>2. m \in Uploads /\ Media(m)' \in rows' /\ upload'[m].visitor # 0
      BY <2>1 DEF MediaTypeOK, VisitorKnown
    <3>3. FreshNext(upload'[m].visitor)
      BY <2>1, <3>2 DEF VisitorKnown, FreshShown, FreshNext
    <3>4. FreshNext(jar')
      BY <2>1, <3>3 DEF VisitorKnown, FreshShown, FreshNext
    <3>5. upload'[m].visitor = jar'
      BY <3>1, <3>3, <3>4 DEF FreshNext
    <3>6. QED
      BY <3>2, <3>5 DEF Readable, Media
  <2>3. QED
    BY <2>1, <2>2 DEF MediaInv
<1>2. CASE UNCHANGED mediaVars
  <2>1. MediaTypeOK' /\ GateKept' /\ LargeBodyRefused'
    BY <1>2 DEF mediaVars, MediaInv, MediaTypeOK, GateKept, LargeBodyRefused
  <2>2. StoredKept' /\ RowHasObject'
    BY <1>2 DEF mediaVars, MediaInv, StoredKept, RowHasObject, Media, FileSize
  <2>3. VisitorKnown'
    <3>1. /\ jar' = jar /\ visitors' = visitors /\ rows' = rows /\ upload' = upload /\ shown' = shown
          /\ VisitorKnown
      BY <1>2 DEF mediaVars, MediaInv
    <3>2. \A m : Media(m)' = Media(m) /\ (FreshShown(m) <=> FreshNext(m))
      BY <3>1 DEF Media, FileSize, FreshShown, FreshNext
    <3>3. /\ \A u \in Uploads :
               upload'[u].visitor # 0 /\ ~upload'[u].fresh => FreshNext(upload'[u].visitor)
          /\ jar' # 0 => FreshNext(jar')
      BY <3>1, <3>2 DEF VisitorKnown
    <3>4. QED
      BY <3>1, <3>2, <3>3 DEF VisitorKnown, FreshShown, FreshNext
  <2>4. ShownIsReadable'
    BY <1>2 DEF mediaVars, MediaInv, ShownIsReadable, Readable
  <2>5. QED
    BY <2>1, <2>2, <2>3, <2>4 DEF MediaInv
<1>3. QED
  BY <1>1, <1>2 DEF MediaNext

(* For every number of uploads and every pair of limits: a row has its     *)
(* object, of the size and owner it records, whatever failed on the way    *)
(* (upload_media); of a body beyond the limit nothing is kept and the      *)
(* browser is told 413 (BodySizeLimitMiddleware); and a browser whose      *)
(* uploads made up one visitor can read all that it was shown.             *)
THEOREM UploadsKept == MediaSpec => []MediaInv
<1>1. MediaInit => MediaInv
  BY MediaInvInit
<1>2. MediaInv /\ [MediaNext]_mediaVars => MediaInv'
  BY MediaInvStep
<1>3. QED
  BY <1>1, <1>2, PTL DEF MediaSpec

-----------------------------------------------------------------------------
(* The inductive invariant of the limiters.                                *)

(* The keys behind another in a table have been used since it was.         *)
OrderKept ==
  \A p \in Processes : \A i, j \in DOMAIN table[p] :
    i < j => table[p][j] \in since[p][table[p][i]]

SetsFinite ==
  /\ \A p \in Processes, k \in Keys : IsFiniteSet(times[p][k]) /\ IsFiniteSet(since[p][k])
  /\ \A k \in Keys : IsFiniteSet(asked[k]) /\ \A by \in Judges : IsFiniteSet(granted[k][by])

(* Every use asked for in the window is there, by a number of its own.     *)
AskedKept ==
  \A k \in Keys :
    /\ \A u \in asked[k] :
         tick - Window < u.at /\ u.at <= tick /\ (u.at = tick => u.nth < Cardinality(asked[k]))
    /\ \A p \in Processes : \A u \in times[p][k] : u.at > tick - Window => u \in asked[k]
    /\ \A by \in Judges : granted[k][by] \subseteq asked[k]

InSlot(uses, n) == {u \in uses : u.at \div Window = n}

(* Redis counts no more in a slot than has been asked for in it, and has   *)
(* not let through more than it has counted.                               *)
CountsKept ==
  \A k \in Keys :
    /\ \A n \in Slots : n > Slot => counts[<<k, n>>] = 0
    /\ counts[<<k, Slot>>] <= Cardinality(InSlot(asked[k], Slot))
    /\ \A n \in Slots :
         /\ Cardinality(InSlot(granted[k]["redis"], n)) <= counts[<<k, n>>]
         /\ Cardinality(InSlot(granted[k]["redis"], n)) <= LimitOf(k)

(* What a table has let through in the window it still counts.             *)
GrantsKept ==
  \A k \in Keys :
    /\ \A by \in Judges : \A u \in granted[k][by] : tick - Window < u.at /\ u.at <= tick
    /\ \A p \in Processes : k \notin evicted[p] => granted[k][p] \subseteq times[p][k]

TablesInv == TableBounded /\ OrderKept /\ BusyKeysStay

LimitsIInv ==
  LimitsTypeOK /\ SetsFinite /\ TablesInv /\ AskedKept /\ CountsKept /\ GrantsKept

-----------------------------------------------------------------------------
(* The clock and its slots.                                                *)

LEMMA Constants ==
  /\ Window \in Nat /\ Window >= 1 /\ LastTick \in Nat
  /\ \A k : LimitOf(k) \in Nat /\ LimitOf(k) >= 1
  /\ "redis" \in Judges /\ Processes \subseteq Judges
BY LimitsAssumption DEF LimitOf, Judges

LEMMA Quotient ==
  ASSUME NEW n \in Nat
  PROVE  /\ n \div Window \in Nat
         /\ Window * (n \div Window) <= n
         /\ n < Window * (n \div Window) + Window
BY Constants

LEMMA Products ==
  ASSUME NEW i \in Nat, NEW j \in Nat, i < j
  PROVE  Window * i \in Nat /\ Window * j \in Nat /\ Window * i + Window <= Window * j
<1>1. PICK d \in Nat : j = i + 1 + d
  <2>1. j - i - 1 \in Nat /\ j = i + 1 + (j - i - 1)
    OBVIOUS
  <2>2. QED
    BY <2>1
<1>2. Window * j = Window * i + Window + Window * d
  BY <1>1, Constants
<1>3. Window * d \in Nat /\ Window * i \in Nat /\ Window * j \in Nat
  BY <1>1, Constants
<1>4. QED
  BY <1>2, <1>3, Constants

(* A time of the slot of n lies less than a window before n.               *)
LEMMA SlotWithinWindow ==
  ASSUME NEW n \in Nat, NEW a \in Nat, a \div Window = n \div Window
  PROVE  a > n - Window
<1>1. Window * (n \div Window) \in Nat
  BY Quotient, Constants
<1>2. Window * (n \div Window) <= a /\ n < Window * (n \div Window) + Window
  BY Quotient
<1>3. QED
  BY <1>1, <1>2, Constants

LEMMA SlotsInOrder ==
  ASSUME NEW n \in Nat, NEW a \in Nat, a <= n
  PROVE  a \div Window <= n \div Window
<1>1. a \div Window \in Nat /\ n \div Window \in Nat
  BY Quotient
<1>2. SUFFICES ASSUME n \div Window < a \div Window PROVE FALSE
  BY <1>1
<1>3. /\ Window * (n \div Window) \in Nat /\ Window * (a \div Window) \in Nat
      /\ Window * (n \div Window) + Window <= Window * (a \div Window)
  BY <1>1, <1>2, Products
<1>4. Window * (a \div Window) <= a /\ n < Window * (n \div Window) + Window
  BY Quotient
<1>5. QED
  BY <1>3, <1>4, Constants

(* A window reaches into two slots.                                        *)
LEMMA WindowTwoSlots ==
  ASSUME NEW n \in Nat, NEW a \in Nat, n - Window < a, a <= n
  PROVE  a \div Window = n \div Window \/ a \div Window = n \div Window - 1
<1> DEFINE i == a \div Window
           j == n \div Window
<1>1. i \in Nat /\ j \in Nat /\ i <= j
  BY Quotient, SlotsInOrder
<1>2. /\ n < Window * j + Window /\ a < Window * i + Window
      /\ Window * j <= n /\ Window * i <= a
  BY Quotient
<1> HIDE DEF i, j
<1>3. SUFFICES ASSUME i + 1 < j PROVE FALSE
  BY <1>1 DEF i, j
<1>4. /\ Window * i \in Nat /\ Window * (i + 1) \in Nat /\ Window * j \in Nat
      /\ Window * i + Window <= Window * (i + 1)
      /\ Window * (i + 1) + Window <= Window * j
  BY <1>1, <1>3, Products
<1>5. QED
  BY <1>2, <1>4, Constants

LEMMA SlotsKnown ==
  ASSUME NEW n \in 0..LastTick
  PROVE  n \div Window \in Slots
BY SlotsInOrder, Quotient, Constants DEF Slots

-----------------------------------------------------------------------------
(* Sets of uses.                                                           *)

LEMMA AddOne ==
  ASSUME NEW S, NEW x, IsFiniteSet(S)
  PROVE  /\ IsFiniteSet(S \cup {x})
         /\ Cardinality(S) \in Nat /\ Cardinality(S \cup {x}) \in Nat
         /\ Cardinality(S \cup {x}) <= Cardinality(S) + 1
         /\ Cardinality(S) <= Cardinality(S \cup {x})
         /\ x \notin S => Cardinality(S \cup {x}) = Cardinality(S) + 1
<1>1. /\ IsFiniteSet(S \cup {x})
      /\ Cardinality(S \cup {x}) = IF x \in S THEN Cardinality(S) ELSE Cardinality(S) + 1
  BY FS_AddElement
<1>2. Cardinality(S) \in Nat
  BY FS_CardinalityType
<1>3. QED
  BY <1>1, <1>2

LEMMA Fewer ==
  ASSUME NEW S, IsFiniteSet(S), NEW T, T \subseteq S
  PROVE  /\ IsFiniteSet(T)
         /\ Cardinality(T) \in Nat /\ Cardinality(S) \in Nat
         /\ Cardinality(T) <= Cardinality(S)
BY FS_Subset, FS_CardinalityType

-----------------------------------------------------------------------------
(* Which way a step goes.                                                  *)

LEMMA NextMoves ==
  ASSUME LimitsNext
  PROVE  \/ Pass
         \/ /\ \E p \in Processes, k \in Keys, yes \in BOOLEAN : Consume(p, k, yes)
            /\ UNCHANGED <<setup, tick>>
<1>1. CASE Pass
  BY <1>1
<1>2. ASSUME NEW p \in Processes, AskForAddress(p)
      PROVE  /\ \E k \in Keys, yes \in BOOLEAN : Consume(p, k, yes)
             /\ UNCHANGED <<setup, tick>>
  <2>1. Address \in Keys
    BY DEF Keys
  <2>2. QED
    BY <1>2, <2>1 DEF AskForAddress
<1>3. ASSUME NEW p \in Processes, NEW o \in Owners, Ask(p, o)
      PROVE  /\ \E k \in Keys, yes \in BOOLEAN : Consume(p, k, yes)
             /\ UNCHANGED <<setup, tick>>
  <2>1. o \in Keys
    BY DEF Keys
  <2>2. QED
    BY <1>3, <2>1 DEF Ask
<1>4. QED
  BY <1>1, <1>2, <1>3 DEF LimitsNext

LEMMA ConsumeMoves ==
  ASSUME NEW p, NEW k, NEW yes, Consume(p, k, yes)
  PROVE  /\ asked' = [asked EXCEPT ![k] = @ \cup {NewUse(k)}]
         /\ \/ RedisSays(k, yes)
            \/ UseTable(p, k, yes) /\ counts' \in {counts, Incremented(k)}
BY DEF Consume, FallbackSays, TableSays

-----------------------------------------------------------------------------
(* The table of a process.                                                 *)

LEMMA Removed ==
  ASSUME NEW S, NEW s \in Seq(S), NEW n \in DOMAIN s
  PROVE  /\ RemoveAt(s, n) \in Seq(S)
         /\ Len(RemoveAt(s, n)) = Len(s) - 1
         /\ \A i \in 1..(Len(s) - 1) :
              RemoveAt(s, n)[i] = IF i < n THEN s[i] ELSE s[i + 1]
<1> DEFINE a == SubSeq(s, 1, n - 1)
           b == SubSeq(s, n + 1, Len(s))
<1>1. /\ Len(s) \in Nat /\ n \in 1..Len(s) /\ n \in Nat
      /\ \A i \in 1..Len(s) : s[i] \in S
  BY LenProperties, ElementOfSeq
<1>2. /\ a \in Seq(S) /\ Len(a) = n - 1
      /\ \A i \in 1..(n - 1) : a[i] = s[i]
  <2>1. \A i \in 1..(n - 1) : s[i] \in S
    BY <1>1
  <2>2. /\ a \in Seq(S) /\ Len(a) = IF 1 <= n - 1 THEN n - 1 - 1 + 1 ELSE 0
        /\ \A i \in 1..(n - 1 - 1 + 1) : a[i] = s[1 + i - 1]
    BY <1>1, <2>1, SubSeqProperties
  <2> HIDE DEF a
  <2>3. QED
    BY <1>1, <2>2
<1>3. /\ b \in Seq(S) /\ Len(b) = Len(s) - n
      /\ \A i \in 1..(Len(s) - n) : b[i] = s[n + i]
  <2>1. \A i \in (n + 1)..Len(s) : s[i] \in S
    BY <1>1
  <2>2. /\ b \in Seq(S) /\ Len(b) = IF n + 1 <= Len(s) THEN Len(s) - (n + 1) + 1 ELSE 0
        /\ \A i \in 1..(Len(s) - (n + 1) + 1) : b[i] = s[n + 1 + i - 1]
    BY <1>1, <2>1, SubSeqProperties
  <2> HIDE DEF b
  <2>3. QED
    BY <1>1, <2>2
<1>4. /\ a \o b \in Seq(S) /\ Len(a \o b) = Len(a) + Len(b)
      /\ \A i \in 1..(Len(a) + Len(b)) : (a \o b)[i] = IF i <= Len(a) THEN a[i] ELSE b[i - Len(a)]
  BY <1>2, <1>3, ConcatProperties
<1>5. RemoveAt(s, n) = a \o b
  BY DEF RemoveAt
<1> DEFINE l == Len(s)
           c == a \o b
<1>8. /\ l \in Nat /\ n \in 1..l /\ n \in Nat
      /\ c \in Seq(S) /\ Len(c) = l - 1
      /\ \A i \in 1..(n - 1) : a[i] = s[i]
      /\ \A i \in 1..(l - n) : b[i] = s[n + i]
      /\ \A i \in 1..(l - 1) : c[i] = IF i <= n - 1 THEN a[i] ELSE b[i - (n - 1)]
  <2> HIDE DEF a, b, c
  <2>1. Len(a) + Len(b) = l - 1 /\ Len(a) = n - 1
    BY <1>1, <1>2, <1>3
  <2>2. c \in Seq(S) /\ Len(c) = Len(a) + Len(b)
        /\ \A i \in 1..(Len(a) + Len(b)) : c[i] = IF i <= Len(a) THEN a[i] ELSE b[i - Len(a)]
    BY <1>4 DEF c
  <2>3. QED
    BY <1>1, <1>2, <1>3, <2>1, <2>2
<1> HIDE DEF a, b, c, l
<1>6. ASSUME NEW i \in 1..(l - 1)
      PROVE  c[i] = IF i < n THEN s[i] ELSE s[i + 1]
  <2>1. i \in Int
    BY <1>8
  <2>2. CASE i < n
    BY <1>8, <2>1, <2>2
  <2>3. CASE ~(i < n)
    <3>1. PICK h \in Int : h = i - (n - 1)
      BY <1>8, <2>1
    <3>2. h \in 1..(l - n) /\ n + h = i + 1 /\ ~(i <= n - 1)
      BY <1>8, <2>1, <2>3, <3>1
    <3>3. c[i] = b[h]
      BY <1>8, <3>1, <3>2
    <3>4. b[h] = s[n + h]
      BY <1>8, <3>2
    <3>5. QED
      BY <2>3, <3>2, <3>3, <3>4
  <2>4. QED
    BY <2>2, <2>3
<1>7. QED
  BY <1>5, <1>6, <1>8 DEF c, l

LEMMA TableKnown ==
  ASSUME LimitsTypeOK, NEW p \in Processes
  PROVE  /\ table[p] \in Seq(Keys) /\ Len(table[p]) \in Nat
         /\ DOMAIN table[p] = 1..Len(table[p])
         /\ \A i \in 1..Len(table[p]) : table[p][i] \in Keys /\ table[p][i] \in Counted(p)
         /\ table[p] = <<>> <=> Len(table[p]) = 0
         /\ setup.capacity \in Int /\ Room \in Nat /\ Room >= 1 /\ Room >= setup.capacity
<1>1. table[p] \in Seq(Keys)
  BY DEF LimitsTypeOK
<1>2. /\ Len(table[p]) \in Nat /\ DOMAIN table[p] = 1..Len(table[p])
      /\ \A i \in 1..Len(table[p]) : table[p][i] \in Keys
      /\ table[p] = <<>> <=> Len(table[p]) = 0
  BY <1>1, LenProperties, ElementOfSeq, EmptySeq
<1>3. setup.capacity \in Int
  BY LimitsAssumption DEF LimitsTypeOK
<1>4. QED
  BY <1>1, <1>2, <1>3 DEF Counted, Room

Left(p, k) == IF MustEvict(p, k) THEN Tail(table[p]) ELSE Others(p, k)

(* What is left of the table before the key is put at its end: its other   *)
(* keys in their order, but for the first one if there must be room.       *)
KeepsTable(p, k, t) ==
  /\ t \in Seq(Keys) /\ Len(t) \in Nat /\ Len(t) + 1 <= Room
  /\ \A i \in 1..Len(t) : t[i] # k /\ t[i] \in Counted(p)
  /\ \A i, j \in 1..Len(t) : i < j => t[i] # t[j] /\ t[j] \in since[p][t[i]]
  /\ \A other \in Counted(p) :
       \/ other = k
       \/ \E i \in 1..Len(t) : t[i] = other
       \/ MustEvict(p, k) /\ other = table[p][1]

LEMMA KeptTable ==
  ASSUME LimitsTypeOK, TablesInv, NEW p \in Processes, NEW k \in Keys,
         NEW t, t = Left(p, k)
  PROVE  KeepsTable(p, k, t)
<1> USE DEF KeepsTable
<1> DEFINE s == table[p]
           n == Len(table[p])
<1>1. /\ s \in Seq(Keys) /\ n \in Nat /\ DOMAIN s = 1..n
      /\ \A i \in 1..n : s[i] \in Keys /\ s[i] \in Counted(p)
      /\ s = <<>> <=> n = 0
      /\ setup.capacity \in Int /\ Room \in Nat /\ Room >= 1 /\ Room >= setup.capacity
      /\ n <= Room
  BY TableKnown DEF TablesInv, TableBounded
<1>2. /\ \A i, j \in 1..n : s[i] = s[j] => i = j
      /\ \A i, j \in 1..n : i < j => s[i] # s[j] /\ s[j] \in since[p][s[i]]
  BY <1>1 DEF TablesInv, TableBounded, OrderKept
<1>3. \A other \in Counted(p) : \E i \in 1..n : s[i] = other
  BY <1>1 DEF Counted
<1>4. CASE MustEvict(p, k)
  <2>1. n >= 1 /\ t = Tail(s) /\ k \notin Counted(p)
    BY <1>1, <1>4 DEF MustEvict, Left
  <2>2. t \in Seq(Keys) /\ Len(t) = n - 1 /\ \A i \in 1..(n - 1) : t[i] = s[i + 1]
    <3>1. s # <<>>
      BY <1>1, <2>1
    <3>2. QED
      BY <1>1, <2>1, <3>1, HeadTailProperties
  <2> HIDE DEF s, n
  <2>3. \A i \in 1..(n - 1) : i \in 1..n /\ i + 1 \in 1..n
    BY <1>1, <2>1
  <2>4. \A i \in 1..(n - 1) : t[i] # k /\ t[i] \in Counted(p)
    BY <1>1, <2>1, <2>2, <2>3
  <2>5. ASSUME NEW i \in 1..(n - 1), NEW j \in 1..(n - 1), i < j
        PROVE  t[i] # t[j] /\ t[j] \in since[p][t[i]]
    <3>1. t[i] = s[i + 1] /\ t[j] = s[j + 1]
      BY <2>2
    <3>2. i + 1 \in 1..n /\ j + 1 \in 1..n /\ i + 1 < j + 1
      BY <1>1, <2>5
    <3>3. s[i + 1] # s[j + 1] /\ s[j + 1] \in since[p][s[i + 1]]
      BY <1>2, <3>2
    <3>4. QED
      BY <3>1, <3>3
  <2>6. ASSUME NEW other \in Counted(p)
        PROVE  (\E i \in 1..(n - 1) : t[i] = other) \/ other = s[1]
    <3>1. PICK i \in 1..n : s[i] = other
      BY <1>3
    <3>2. CASE i = 1
      BY <3>1, <3>2
    <3>3. CASE i # 1
      <4>1. PICK h \in 1..(n - 1) : i = h + 1
        <5>1. i - 1 \in 1..(n - 1) /\ i = (i - 1) + 1
          BY <1>1, <3>3
        <5>2. QED
          BY <5>1
      <4>2. t[h] = s[i]
        BY <2>2, <4>1
      <4>3. QED
        BY <3>1, <4>1, <4>2
    <3>4. QED
      BY <3>2, <3>3
  <2>7. QED
    BY <1>1, <1>4, <2>1, <2>2, <2>4, <2>5, <2>6 DEF s
<1>5. CASE ~ MustEvict(p, k) /\ k \in Counted(p)
  <2> DEFINE m == Place(p, k)
  <2>1. m \in 1..n /\ s[m] = k
    BY <1>1, <1>3, <1>5 DEF Place
  <2>2. t = RemoveAt(s, m)
    BY <1>5 DEF Others, Left
  <2>9. RemoveAt(s, m) \in Seq(Keys) /\ Len(RemoveAt(s, m)) = Len(s) - 1
        /\ \A i \in 1..(Len(s) - 1) : RemoveAt(s, m)[i] = IF i < m THEN s[i] ELSE s[i + 1]
    <3>1. m \in DOMAIN s
      BY <1>1, <2>1
    <3> HIDE DEF m, s
    <3>2. QED
      BY <1>1, <3>1, Removed
  <2> HIDE DEF m
  <2>3. /\ t \in Seq(Keys) /\ Len(t) = n - 1
        /\ \A i \in 1..(n - 1) : t[i] = IF i < m THEN s[i] ELSE s[i + 1]
    BY <2>2, <2>9
  <2> HIDE DEF s, n
  <2>4. \A i \in 1..(n - 1) : i \in 1..n /\ i + 1 \in 1..n
    BY <1>1
  <2>5. ASSUME NEW i \in 1..(n - 1) PROVE t[i] # k /\ t[i] \in Counted(p)
    <3>1. PICK h \in 1..n : t[i] = s[h] /\ h # m
      <4>1. i \in Int /\ m \in Int /\ i \in 1..n /\ i + 1 \in 1..n
        BY <1>1, <2>1, <2>4
      <4>2. CASE i < m
        BY <2>3, <4>1, <4>2
      <4>3. CASE ~(i < m)
        <5>1. t[i] = s[i + 1] /\ i + 1 # m
          BY <2>3, <4>1, <4>3
        <5>2. QED
          BY <4>1, <5>1
      <4>4. QED
        BY <4>2, <4>3
    <3>2. QED
      BY <1>1, <1>2, <2>1, <3>1
  <2>6. ASSUME NEW i \in 1..(n - 1), NEW j \in 1..(n - 1), i < j
        PROVE  t[i] # t[j] /\ t[j] \in since[p][t[i]]
    <3>1. /\ i \in Int /\ j \in Int /\ m \in Int
          /\ i \in 1..n /\ j \in 1..n /\ i + 1 \in 1..n /\ j + 1 \in 1..n
          /\ i + 1 < j + 1 /\ i < j + 1
      BY <1>1, <2>1, <2>4, <2>6
    <3>2. CASE i < m /\ j < m
      <4>1. t[i] = s[i] /\ t[j] = s[j]
        BY <2>3, <3>2
      <4>2. s[i] # s[j] /\ s[j] \in since[p][s[i]]
        BY <1>2, <2>6, <3>1
      <4>3. QED
        BY <4>1, <4>2
    <3>3. CASE i < m /\ ~(j < m)
      <4>1. t[i] = s[i] /\ t[j] = s[j + 1]
        BY <2>3, <3>3
      <4>2. s[i] # s[j + 1] /\ s[j + 1] \in since[p][s[i]]
        BY <1>2, <3>1
      <4>3. QED
        BY <4>1, <4>2
    <3>4. CASE ~(i < m)
      <4>1. ~(j < m)
        BY <2>6, <3>1, <3>4
      <4>2. t[i] = s[i + 1] /\ t[j] = s[j + 1]
        BY <2>3, <3>4, <4>1
      <4>3. s[i + 1] # s[j + 1] /\ s[j + 1] \in since[p][s[i + 1]]
        BY <1>2, <3>1
      <4>4. QED
        BY <4>2, <4>3
    <3>5. QED
      BY <3>2, <3>3, <3>4
  <2>7. ASSUME NEW other \in Counted(p), other # k
        PROVE  \E i \in 1..(n - 1) : t[i] = other
    <3>1. PICK i \in 1..n : s[i] = other
      BY <1>3
    <3>2. CASE i < m
      <4>1. i \in 1..(n - 1) /\ t[i] = s[i]
        BY <1>1, <2>1, <2>3, <3>2
      <4>2. QED
        BY <3>1, <4>1
    <3>3. CASE i > m
      <4>1. PICK h \in 1..(n - 1) : i = h + 1 /\ ~(h < m)
        <5>1. i - 1 \in 1..(n - 1) /\ i = (i - 1) + 1 /\ ~(i - 1 < m)
          BY <1>1, <2>1, <3>3
        <5>2. QED
          BY <5>1
      <4>2. t[h] = s[i]
        BY <2>3, <4>1
      <4>3. QED
        BY <3>1, <4>1, <4>2
    <3>4. i < m \/ i > m
      <4>1. i # m /\ i \in Int /\ m \in Int
        BY <1>1, <2>1, <2>7, <3>1
      <4>2. QED
        BY <4>1
    <3>5. QED
      BY <3>2, <3>3, <3>4
  <2>8. n - 1 \in Nat /\ n - 1 + 1 <= Room /\ Len(t) = n - 1
    BY <1>1, <2>1, <2>3
  <2> HIDE DEF n
  <2>10. QED
    BY <2>3, <2>5, <2>6, <2>7, <2>8
<1>6. CASE ~ MustEvict(p, k) /\ k \notin Counted(p)
  <2>1. t = s /\ (n = 0 \/ n < setup.capacity)
    BY <1>1, <1>6 DEF Others, MustEvict, Left
  <2>2. \A i, j \in 1..n : i < j => s[i] # s[j]
    BY <1>1, <1>2
  <2> HIDE DEF s, n
  <2>3. Len(t) = n
    BY <2>1 DEF s, n
  <2>4. QED
    BY <1>1, <1>2, <1>3, <1>6, <2>1, <2>2, <2>3
<1>7. QED
  BY <1>4, <1>5, <1>6

Held(s) == {s[i] : i \in DOMAIN s}

LEMMA NewTable ==
  ASSUME LimitsTypeOK, TablesInv, NEW p \in Processes, NEW k \in Keys,
         NEW T, T = TableAfter(p, k)
  PROVE  /\ T \in Seq(Keys) /\ Len(T) <= Room
         /\ \A i, j \in DOMAIN T : T[i] = T[j] => i = j
         /\ \A i, j \in DOMAIN T : i < j => T[i] # k /\ T[j] \in since[p][T[i]] \cup {k}
         /\ k \in Held(T) /\ Held(T) \subseteq Counted(p) \cup {k}
         /\ \A other \in Counted(p) \ Held(T) : MustEvict(p, k) /\ other = table[p][1]
<1>0. PICK t : t = Left(p, k)
  OBVIOUS
<1> DEFINE n == Len(t)
<1>1. /\ t \in Seq(Keys) /\ n \in Nat /\ n + 1 <= Room
      /\ \A i \in 1..n : t[i] # k /\ t[i] \in Counted(p)
      /\ \A i, j \in 1..n : i < j => t[i] # t[j] /\ t[j] \in since[p][t[i]]
      /\ \A other \in Counted(p) :
           other = k \/ (\E i \in 1..n : t[i] = other) \/ (MustEvict(p, k) /\ other = table[p][1])
  <2>1. KeepsTable(p, k, t)
    BY <1>0, KeptTable
  <2>2. QED
    BY <2>1 DEF KeepsTable
<1>2. T = Append(t, k)
  BY <1>0 DEF TableAfter, Left
<1>3. /\ T \in Seq(Keys) /\ Len(T) = n + 1
      /\ \A i \in 1..n : T[i] = t[i]
      /\ T[n + 1] = k
  BY <1>1, <1>2, AppendProperties
<1>4. DOMAIN T = 1..(n + 1)
  BY <1>3, LenProperties
<1> HIDE DEF n
<1>5. \A i \in 1..(n + 1) : i \in 1..n \/ i = n + 1
  BY <1>1
<1>6. ASSUME NEW i \in 1..(n + 1), NEW j \in 1..(n + 1), i < j
      PROVE  T[i] # T[j] /\ T[i] # k /\ T[j] \in since[p][T[i]] \cup {k}
  <2>1. i \in 1..n
    BY <1>1, <1>6
  <2>2. CASE j = n + 1
    BY <1>1, <1>3, <2>1, <2>2
  <2>3. CASE j \in 1..n
    BY <1>1, <1>3, <1>6, <2>1, <2>3
  <2>4. QED
    BY <1>5, <2>2, <2>3
<1>7. \A i, j \in 1..(n + 1) : T[i] = T[j] => i = j
  <2>1. \A i, j \in 1..(n + 1) : i < j \/ j < i \/ i = j
    BY <1>1
  <2>2. QED
    BY <1>6, <2>1
<1>8. k \in Held(T)
  BY <1>1, <1>3, <1>4 DEF Held
<1>9. Held(T) \subseteq Counted(p) \cup {k}
  BY <1>1, <1>3, <1>4, <1>5 DEF Held
<1>10. \A i \in 1..n : t[i] \in Held(T)
  <2>1. ASSUME NEW i \in 1..n PROVE t[i] \in Held(T)
    <3>1. i \in 1..(n + 1) /\ T[i] = t[i]
      BY <1>1, <1>3
    <3>2. QED
      BY <1>4, <3>1 DEF Held
  <2>2. QED
    BY <2>1
<1>11. \A other \in Counted(p) \ Held(T) : MustEvict(p, k) /\ other = table[p][1]
  BY <1>1, <1>8, <1>10
<1>12. Len(T) <= Room
  BY <1>1, <1>3
<1>13. QED
  BY <1>3, <1>4, <1>6, <1>7, <1>8, <1>9, <1>11, <1>12

(* The first key falls out only if as many others as there is room for     *)
(* have been used since.                                                   *)
LEMMA FirstIsStale ==
  ASSUME LimitsTypeOK, SetsFinite, TablesInv, NEW p \in Processes, NEW k \in Keys,
         MustEvict(p, k), NEW S, S = since[p][table[p][1]] \cup {k}
  PROVE  IsFiniteSet(S) /\ Cardinality(S) \in Nat /\ Room <= Cardinality(S)
<1> DEFINE s == table[p]
           n == Len(table[p])
<1>1. /\ n \in Nat /\ DOMAIN s = 1..n /\ n >= 1 /\ n >= setup.capacity
      /\ setup.capacity \in Int /\ Room \in Nat
      /\ \A i \in 1..n : s[i] \in Keys /\ s[i] \in Counted(p)
      /\ k \notin Counted(p)
  BY TableKnown DEF MustEvict
<1>2. /\ \A i, j \in 1..n : s[i] = s[j] => i = j
      /\ \A j \in 1..n : 1 < j => s[j] \in since[p][s[1]]
  BY <1>1 DEF TablesInv, TableBounded, OrderKept
<1>3. Room <= n
  BY <1>1 DEF Room
<1>4. IsFiniteSet(S)
  <2>1. IsFiniteSet(since[p][s[1]])
    BY <1>1 DEF SetsFinite
  <2>2. QED
    BY <2>1, AddOne
<1> HIDE DEF s, n
<1> DEFINE f == [j \in 1..n |-> IF j = 1 THEN k ELSE s[j]]
<1>5. \A j \in 1..n : 1 < j => s[j] \in S
  BY <1>1, <1>2 DEF s
<1>6. \A j \in 1..n : j = 1 \/ 1 < j
  BY <1>1
<1>7. f \in [1..n -> S]
  BY <1>5, <1>6
<1>8. \A i, j \in 1..n : f[i] = f[j] => i = j
  BY <1>1, <1>2
<1>9. f \in Injection(1..n, S)
  BY <1>7, <1>8 DEF Injection, IsInjective
<1> HIDE DEF f
<1>10. Cardinality(1..n) <= Cardinality(S)
  BY <1>4, <1>9, FS_Injection
<1>11. Cardinality(1..n) = n
  <2>1. 1 \in Int /\ n \in Int /\ ~(1 > n) /\ n - 1 + 1 = n
    BY <1>1
  <2>2. Cardinality(1..n) = IF 1 > n THEN 0 ELSE n - 1 + 1
    BY ONLY <2>1, FS_Interval
  <2>3. QED
    BY <2>1, <2>2
<1>12. Cardinality(S) \in Nat
  BY <1>4, FS_CardinalityType
<1>13. QED
  BY <1>1, <1>3, <1>4, <1>10, <1>11, <1>12

(* What the step leaves of the uses that are counted.                      *)
LEMMA NewTimes ==
  ASSUME LimitsTypeOK, SetsFinite, TablesInv, NEW p \in Processes, NEW k \in Keys,
         NEW after, after = TimesAfter(p, k)
  PROVE  /\ after \in [Keys -> SUBSET Uses]
         /\ \A x \in Keys : IsFiniteSet(after[x]) /\ Cardinality(after[x]) <= LimitOf(x)
         /\ \A x \in Keys : x \notin Held(TableAfter(p, k)) => after[x] = {}
         /\ \A x \in Keys : after[x] \subseteq times[p][x] \cup {NewUse(x)}
         /\ \A x \in Keys \ {k} : after[x] \subseteq times[p][x]
         /\ \A x \in Keys \ {k} :
              after[x] = times[p][x] \/ (MustEvict(p, k) /\ x = table[p][1])
         /\ Recent(times[p][k]) \subseteq after[k]
         /\ Fits(p, k) => NewUse(k) \in after[k]
<1> DEFINE old == times[p]
<1>1. /\ \A x \in Keys : old[x] \in SUBSET Uses /\ IsFiniteSet(old[x])
      /\ \A x \in Keys : Cardinality(old[x]) <= LimitOf(x)
      /\ \A x \in Keys : x \notin Counted(p) => old[x] = {}
  BY DEF LimitsTypeOK, SetsFinite, TablesInv, TableBounded
<1>2. NewUse(k) \in Uses
  <2>1. IsFiniteSet(asked[k])
    BY DEF SetsFinite
  <2>2. Cardinality(asked[k]) \in Nat
    BY <2>1, FS_CardinalityType
  <2>3. QED
    BY <2>2 DEF NewUse, Uses, LimitsTypeOK
<1>3. /\ Recent(old[k]) \subseteq old[k]
      /\ \A x \in Keys \ {k} :
           after[x] = IF MustEvict(p, k) /\ x = Head(table[p]) THEN {} ELSE old[x]
      /\ after[k] = IF Fits(p, k) THEN Recent(old[k]) \cup {NewUse(k)}
                    ELSE IF setup.limiter = "auth" THEN Recent(old[k]) ELSE old[k]
      /\ DOMAIN after = Keys
      /\ after = [x \in Keys |-> after[x]]
  BY DEF TimesAfter, Recent
<1>4. MustEvict(p, k) => Head(table[p]) = table[p][1]
  <2>1. table[p] \in Seq(Keys)
    BY TableKnown
  <2>2. QED
    BY <2>1 DEF MustEvict
<1>5. IsFiniteSet(Recent(old[k])) /\ Cardinality(Recent(old[k])) \in Nat
  BY <1>1, <1>3, Fewer
<1> HIDE DEF old
<1>6. /\ after[k] \in SUBSET Uses /\ IsFiniteSet(after[k])
      /\ Cardinality(after[k]) <= LimitOf(k)
  <2>1. CASE Fits(p, k)
    <3>1. after[k] = Recent(old[k]) \cup {NewUse(k)}
      BY <1>3, <2>1
    <3>2. Cardinality(Recent(old[k])) < LimitOf(k)
      BY <2>1 DEF Fits, old
    <3>3. /\ IsFiniteSet(after[k]) /\ Cardinality(after[k]) \in Nat
          /\ Cardinality(after[k]) <= Cardinality(Recent(old[k])) + 1
      BY <1>5, <3>1, AddOne
    <3>4. QED
      BY <1>1, <1>2, <1>3, <1>5, <3>1, <3>2, <3>3, Constants
  <2>2. CASE ~Fits(p, k)
    <3>1. after[k] \subseteq old[k]
      BY <1>3, <2>2
    <3>2. IsFiniteSet(after[k]) /\ Cardinality(after[k]) <= Cardinality(old[k])
          /\ Cardinality(after[k]) \in Nat /\ Cardinality(old[k]) \in Nat
      BY <1>1, <3>1, Fewer
    <3>3. QED
      BY <1>1, <3>1, <3>2, Constants
  <2>3. QED
    BY <2>1, <2>2
<1>7. ASSUME NEW x \in Keys \ {k}
      PROVE  /\ after[x] \in SUBSET Uses /\ IsFiniteSet(after[x])
             /\ Cardinality(after[x]) <= LimitOf(x)
             /\ after[x] \subseteq old[x]
             /\ after[x] = old[x] \/ (MustEvict(p, k) /\ x = table[p][1])
  <2>1. CASE MustEvict(p, k) /\ x = Head(table[p])
    <3>1. after[x] = {} /\ Cardinality({}) = 0 /\ IsFiniteSet({})
      BY <1>3, <2>1, FS_EmptySet
    <3>2. QED
      BY <1>4, <2>1, <3>1, Constants
  <2>2. CASE ~(MustEvict(p, k) /\ x = Head(table[p]))
    BY <1>1, <1>3, <2>2
  <2>3. QED
    BY <2>1, <2>2
<1>8. ASSUME NEW x \in Keys, x \notin Held(TableAfter(p, k)) PROVE after[x] = {}
  <2>1. /\ k \in Held(TableAfter(p, k))
        /\ \A other \in Counted(p) \ Held(TableAfter(p, k)) :
             MustEvict(p, k) /\ other = table[p][1]
    BY NewTable
  <2>2. CASE x \in Counted(p)
    BY <1>3, <1>4, <1>8, <2>1, <2>2
  <2>3. CASE x \notin Counted(p)
    BY <1>1, <1>3, <1>8, <2>1, <2>3
  <2>4. QED
    BY <2>2, <2>3
<1>9. after[k] \subseteq old[k] \cup {NewUse(k)}
  BY <1>3
<1>10. Recent(old[k]) \subseteq after[k] /\ (Fits(p, k) => NewUse(k) \in after[k])
  BY <1>3
<1>11. after \in [Keys -> SUBSET Uses]
  BY <1>3, <1>6, <1>7
<1>12. \A x \in Keys : x = k \/ x \in Keys \ {k}
  OBVIOUS
<1>13. QED
  BY <1>6, <1>7, <1>8, <1>9, <1>10, <1>11, <1>12 DEF old

LEMMA TableStep ==
  ASSUME LimitsTypeOK, SetsFinite, TablesInv, NEW p \in Processes, NEW k \in Keys, NEW yes,
         UseTable(p, k, yes), UNCHANGED setup
  PROVE  /\ table' \in [Processes -> Seq(Keys)]
         /\ times' \in [Processes -> [Keys -> SUBSET Uses]]
         /\ since' \in [Processes -> [Keys -> SUBSET Keys]]
         /\ evicted' \in [Processes -> SUBSET Keys]
         /\ \A q \in Processes, x \in Keys : IsFiniteSet(times'[q][x]) /\ IsFiniteSet(since'[q][x])
         /\ TablesInv'
<1> DEFINE T == TableAfter(p, k)
           U == TimesAfter(p, k)
           W == [x \in Keys |-> IF x = k THEN {} ELSE since[p][x] \cup {k}]
           E == evicted[p] \cup (Counted(p) \ Held(T))
<1>1. /\ table' = [table EXCEPT ![p] = T] /\ times' = [times EXCEPT ![p] = U]
      /\ since' = [since EXCEPT ![p] = W] /\ evicted' = [evicted EXCEPT ![p] = E]
  BY DEF UseTable, Held
<1>2. /\ table \in [Processes -> Seq(Keys)] /\ times \in [Processes -> [Keys -> SUBSET Uses]]
      /\ since \in [Processes -> [Keys -> SUBSET Keys]]
      /\ evicted \in [Processes -> SUBSET Keys]
  BY DEF LimitsTypeOK
<1>3. /\ T \in Seq(Keys) /\ Len(T) <= Room
      /\ \A i, j \in DOMAIN T : T[i] = T[j] => i = j
      /\ \A i, j \in DOMAIN T : i < j => T[i] # k /\ T[j] \in since[p][T[i]] \cup {k}
      /\ k \in Held(T) /\ Held(T) \subseteq Counted(p) \cup {k}
      /\ \A other \in Counted(p) \ Held(T) : MustEvict(p, k) /\ other = table[p][1]
  BY NewTable
<1>4. /\ U \in [Keys -> SUBSET Uses]
      /\ \A x \in Keys : IsFiniteSet(U[x]) /\ Cardinality(U[x]) <= LimitOf(x)
      /\ \A x \in Keys : x \notin Held(T) => U[x] = {}
  BY NewTimes
<1>5. W \in [Keys -> SUBSET Keys]
  BY <1>2
<1>6. Counted(p) \subseteq Keys
  BY <1>2, TableKnown DEF Counted
<1>7. E \in SUBSET Keys
  BY <1>2, <1>6
<1>8. \A x \in Keys : IsFiniteSet(since[p][x])
  BY DEF SetsFinite
<1>9. \A x \in Keys : IsFiniteSet(W[x])
  <2>1. \A x \in Keys : IsFiniteSet(since[p][x] \cup {k})
    BY <1>8, AddOne
  <2>2. QED
    BY <2>1, FS_EmptySet
<1>10. \A q \in Processes \ {p} :
         /\ table'[q] = table[q] /\ times'[q] = times[q]
         /\ since'[q] = since[q] /\ evicted'[q] = evicted[q]
  BY <1>1, <1>2
<1>11. /\ table'[p] = T /\ times'[p] = U /\ since'[p] = W /\ evicted'[p] = E
  BY <1>1, <1>2
<1>12. /\ Counted(p)' = Held(T) /\ \A q \in Processes \ {p} : Counted(q)' = Counted(q)
       /\ Room' = Room
  BY <1>10, <1>11 DEF Counted, Held, Room
<1>13. \A x \in Counted(p) \ Held(T) :
         Room <= Cardinality(since[p][x] \cup {k}) /\ x # k
  <2>1. ASSUME NEW x \in Counted(p) \ Held(T)
        PROVE  Room <= Cardinality(since[p][x] \cup {k}) /\ x # k
    <3>1. MustEvict(p, k) /\ x = table[p][1]
      BY <1>3
    <3>2. QED
      BY <1>3, <3>1, FirstIsStale
  <2>2. QED
    BY <2>1
<1>14. \A x \in evicted[p] \ Counted(p) : Room <= Cardinality(since[p][x])
  BY <1>2, TableKnown DEF TablesInv, BusyKeysStay
<1>15. ASSUME NEW x \in E \ Held(T) PROVE Cardinality(W[x]) >= Room
  <2>1. x \in Keys /\ x # k /\ W[x] = since[p][x] \cup {k}
    BY <1>3, <1>7
  <2>2. CASE x \in Counted(p)
    <3>1. Room <= Cardinality(W[x])
      BY <1>13, <1>15, <2>1, <2>2
    <3>2. QED
      BY <3>1
  <2>3. CASE x \notin Counted(p)
    <3>1. x \in evicted[p]
      BY <1>15, <2>3
    <3>2. Room <= Cardinality(since[p][x])
      BY <1>14, <2>3, <3>1
    <3>3. /\ Cardinality(since[p][x]) \in Nat /\ Cardinality(since[p][x] \cup {k}) \in Nat
          /\ Cardinality(since[p][x]) <= Cardinality(since[p][x] \cup {k})
      BY <1>8, <2>1, AddOne
    <3>4. Room \in Nat
      BY TableKnown
    <3>5. QED
      BY <2>1, <3>2, <3>3, <3>4
  <2>4. QED
    BY <2>2, <2>3
<1>16. \A i, j \in DOMAIN T : i < j => T[j] \in W[T[i]]
  <2>1. \A i \in DOMAIN T : T[i] \in Keys
    BY <1>3, ElementOfSeq, LenProperties
  <2>2. QED
    BY <1>3, <2>1
<1> HIDE DEF T, U, W, E
<1>17. /\ table' \in [Processes -> Seq(Keys)]
       /\ times' \in [Processes -> [Keys -> SUBSET Uses]]
       /\ since' \in [Processes -> [Keys -> SUBSET Keys]]
       /\ evicted' \in [Processes -> SUBSET Keys]
  BY <1>1, <1>2, <1>3, <1>4, <1>5, <1>7
<1>18. ASSUME NEW q \in Processes
       PROVE  \A x \in Keys : IsFiniteSet(times'[q][x]) /\ IsFiniteSet(since'[q][x])
  BY <1>4, <1>9, <1>10, <1>11 DEF SetsFinite
<1>19. TableBounded'
  <2>1. ASSUME NEW q \in Processes
        PROVE  /\ Len(table'[q]) <= Room'
               /\ \A i, j \in DOMAIN table'[q] : table'[q][i] = table'[q][j] => i = j
               /\ \A x \in Keys :
                    /\ Cardinality(times'[q][x]) <= LimitOf(x)
                    /\ x \notin Counted(q)' => times'[q][x] = {}
    <3>1. CASE q = p
      BY <1>3, <1>4, <1>11, <1>12, <3>1
    <3>2. CASE q # p
      BY <1>10, <1>12, <3>2 DEF TablesInv, TableBounded
    <3>3. QED
      BY <3>1, <3>2
  <2>2. QED
    BY <2>1 DEF TableBounded
<1>20. OrderKept'
  <2>1. ASSUME NEW q \in Processes
        PROVE  \A i, j \in DOMAIN table'[q] :
                 i < j => table'[q][j] \in since'[q][table'[q][i]]
    <3>1. CASE q = p
      BY <1>11, <1>16, <3>1
    <3>2. CASE q # p
      BY <1>10, <3>2 DEF TablesInv, OrderKept
    <3>3. QED
      BY <3>1, <3>2
  <2>2. QED
    BY <2>1 DEF OrderKept
<1>21. BusyKeysStay'
  <2>1. ASSUME NEW q \in Processes
        PROVE  \A x \in evicted'[q] \ Counted(q)' : Cardinality(since'[q][x]) >= Room'
    <3>1. CASE q = p
      BY <1>11, <1>12, <1>15, <3>1
    <3>2. CASE q # p
      BY <1>10, <1>12, <3>2 DEF TablesInv, BusyKeysStay
    <3>3. QED
      BY <3>1, <3>2
  <2>2. QED
    BY <2>1 DEF BusyKeysStay
<1>22. QED
  BY <1>17, <1>18, <1>19, <1>20, <1>21 DEF TablesInv

LEMMA FirstFalls ==
  ASSUME LimitsTypeOK, TablesInv, NEW p \in Processes, NEW k \in Keys, MustEvict(p, k)
  PROVE  table[p][1] \in Counted(p) \ Held(TableAfter(p, k))
<1> DEFINE s == table[p]
           n == Len(table[p])
           T == TableAfter(p, k)
<1>1. /\ s \in Seq(Keys) /\ n \in Nat /\ n >= 1 /\ DOMAIN s = 1..n /\ s # <<>>
      /\ \A i \in 1..n : s[i] \in Counted(p)
      /\ k \notin Counted(p)
  BY TableKnown DEF MustEvict
<1>2. \A i, j \in 1..n : s[i] = s[j] => i = j
  BY <1>1 DEF TablesInv, TableBounded
<1>3. T = Append(Tail(s), k)
  BY DEF TableAfter
<1>4. Tail(s) \in Seq(Keys) /\ Len(Tail(s)) = n - 1 /\ \A i \in 1..(n - 1) : Tail(s)[i] = s[i + 1]
  BY <1>1, HeadTailProperties
<1> HIDE DEF s, T
<1>5. /\ T \in Seq(Keys) /\ Len(T) = n - 1 + 1
      /\ \A i \in 1..(n - 1) : T[i] = Tail(s)[i]
      /\ T[n - 1 + 1] = k
  BY <1>3, <1>4, AppendProperties
<1> HIDE DEF n
<1>6. DOMAIN T = 1..n /\ T[n] = k /\ \A i \in 1..(n - 1) : T[i] = s[i + 1]
  <2>1. n - 1 + 1 = n
    BY <1>1
  <2>2. QED
    BY <1>4, <1>5, <2>1, LenProperties
<1>7. ASSUME NEW i \in 1..n PROVE T[i] # s[1]
  <2>1. CASE i = n
    BY <1>1, <1>6, <2>1
  <2>2. CASE i # n
    <3>1. i \in 1..(n - 1) /\ i + 1 \in 1..n /\ i + 1 # 1 /\ 1 \in 1..n
      BY <1>1, <2>2
    <3>2. QED
      BY <1>2, <1>6, <3>1
  <2>3. QED
    BY <2>1, <2>2
<1>8. s[1] \in Counted(p)
  BY <1>1
<1>9. QED
  BY <1>6, <1>7, <1>8 DEF Held, s, T

-----------------------------------------------------------------------------
(* What is let through, and what Redis counts.                             *)

Grants(k, by, yes) == IF yes THEN NoteGranted(k, by) ELSE UNCHANGED granted

GrantedTo(k, by, yes) ==
  \A x \in Keys, b \in Judges :
    granted'[x][b] = IF x = k /\ b = by /\ yes THEN granted[x][b] \cup {NewUse(k)}
                     ELSE granted[x][b]

LEMMA NewUseKnown ==
  ASSUME LimitsTypeOK, SetsFinite, AskedKept, NEW k \in Keys
  PROVE  /\ NewUse(k) \in Uses /\ NewUse(k) \notin asked[k]
         /\ NewUse(k).at = tick /\ NewUse(k).nth = Cardinality(asked[k])
         /\ Cardinality(asked[k]) \in Nat /\ tick \in Nat /\ tick - Window < tick
<1>1. Cardinality(asked[k]) \in Nat
  BY FS_CardinalityType DEF SetsFinite
<1>2. tick \in 0..LastTick /\ tick \in Nat /\ tick - Window < tick
  BY Constants DEF LimitsTypeOK
<1>3. NewUse(k).at = tick /\ NewUse(k).nth = Cardinality(asked[k])
  BY DEF NewUse
<1>4. NewUse(k) \in Uses
  BY <1>1, <1>2 DEF NewUse, Uses
<1>5. NewUse(k) \notin asked[k]
  <2>1. SUFFICES ASSUME NewUse(k) \in asked[k] PROVE FALSE
    OBVIOUS
  <2>2. Cardinality(asked[k]) < Cardinality(asked[k])
    BY <1>3, <2>1 DEF AskedKept
  <2>3. QED
    BY <1>1, <2>2
<1>6. QED
  BY <1>1, <1>2, <1>3, <1>4, <1>5

LEMMA UseKnown ==
  ASSUME NEW u \in Uses
  PROVE  u.at \in Nat /\ u.nth \in Nat /\ u.at \in 0..LastTick
BY Constants DEF Uses

LEMMA GrantsTo ==
  ASSUME LimitsTypeOK, SetsFinite, AskedKept, NEW k \in Keys, NEW by \in Judges,
         NEW yes \in BOOLEAN, Grants(k, by, yes)
  PROVE  /\ granted' \in [Keys -> [Judges -> SUBSET Uses]]
         /\ GrantedTo(k, by, yes)
         /\ \A x \in Keys, b \in Judges : IsFiniteSet(granted'[x][b])
<1>1. granted \in [Keys -> [Judges -> SUBSET Uses]]
  BY DEF LimitsTypeOK
<1>2. NewUse(k) \in Uses
  BY NewUseKnown
<1>3. \A x \in Keys, b \in Judges :
        IsFiniteSet(granted[x][b]) /\ IsFiniteSet(granted[x][b] \cup {NewUse(k)})
  <2>1. \A x \in Keys, b \in Judges : IsFiniteSet(granted[x][b])
    BY DEF SetsFinite
  <2>2. QED
    BY <2>1, AddOne
<1>4. CASE yes
  <2>1. granted' = [granted EXCEPT ![k] = [granted[k] EXCEPT ![by] = granted[k][by] \cup {NewUse(k)}]]
    BY <1>4 DEF Grants, NoteGranted
  <2> DEFINE new == [granted[k] EXCEPT ![by] = granted[k][by] \cup {NewUse(k)}]
  <2>2. granted[k] \in [Judges -> SUBSET Uses] /\ granted[k][by] \cup {NewUse(k)} \in SUBSET Uses
    BY <1>1, <1>2
  <2>3. /\ new \in [Judges -> SUBSET Uses]
        /\ \A b \in Judges :
             new[b] = IF b = by THEN granted[k][b] \cup {NewUse(k)} ELSE granted[k][b]
    BY <2>2
  <2> HIDE DEF new
  <2>4. granted' = [granted EXCEPT ![k] = new]
    BY <2>1 DEF new
  <2>5. granted' \in [Keys -> [Judges -> SUBSET Uses]]
    BY <1>1, <2>3, <2>4
  <2>6. \A x \in Keys : granted'[x] = IF x = k THEN new ELSE granted[x]
    BY <1>1, <2>4
  <2>7. \A x \in Keys, b \in Judges :
          granted'[x][b] = IF x = k /\ b = by /\ yes THEN granted[x][b] \cup {NewUse(k)}
                           ELSE granted[x][b]
    BY <1>4, <2>3, <2>6
  <2>8. QED
    BY <1>3, <2>5, <2>7 DEF GrantedTo
<1>5. CASE ~yes
  BY <1>1, <1>3, <1>5 DEF Grants, GrantedTo
<1>6. QED
  BY <1>4, <1>5

LEMMA SlotKnown ==
  ASSUME LimitsTypeOK
  PROVE  /\ tick \in Nat /\ Slot \in Slots /\ Slot \in Nat
         /\ \A k \in Keys : <<k, Slot>> \in Keys \X Slots
<1>1. tick \in 0..LastTick /\ tick \in Nat
  BY Constants DEF LimitsTypeOK
<1>2. Slot \in Slots /\ Slot \in Nat
  BY <1>1, SlotsKnown, Quotient DEF Slot
<1>3. QED
  BY <1>1, <1>2

LEMMA CountsMove ==
  ASSUME LimitsTypeOK, NEW k \in Keys, counts' \in {counts, Incremented(k)}
  PROVE  /\ counts' \in [Keys \X Slots -> Nat]
         /\ \A x \in Keys, n \in Slots :
              x # k \/ n # Slot => counts'[<<x, n>>] = counts[<<x, n>>]
         /\ counts'[<<k, Slot>>] <= counts[<<k, Slot>>] + 1
         /\ counts[<<k, Slot>>] <= counts'[<<k, Slot>>]
         /\ counts' = Incremented(k) /\ counts'[<<k, Slot>>] <= LimitOf(k)
              => counts'[<<k, Slot>>] = counts[<<k, Slot>>] + 1
<1> DEFINE c == counts[<<k, Slot>>]
           d == IF c > LimitOf(k) THEN c ELSE c + 1
<1>1. counts \in [Keys \X Slots -> Nat] /\ <<k, Slot>> \in Keys \X Slots
  BY SlotKnown DEF LimitsTypeOK
<1>2. c \in Nat /\ LimitOf(k) \in Nat
  BY <1>1, Constants
<1>3. Incremented(k) = [counts EXCEPT ![<<k, Slot>>] = d]
  BY DEF Incremented
<1> HIDE DEF c
<1>4. d \in Nat /\ c <= d /\ d <= c + 1 /\ c <= c + 1 /\ (d <= LimitOf(k) => d = c + 1)
  BY <1>2
<1> HIDE DEF d
<1>5. \A x \in Keys, n \in Slots : <<x, n>> = <<k, Slot>> => x = k /\ n = Slot
  OBVIOUS
<1>6. CASE counts' = Incremented(k)
  <2>1. counts'[<<k, Slot>>] = d
    BY <1>1, <1>3, <1>6
  <2>2. \A x \in Keys, n \in Slots :
          x # k \/ n # Slot => counts'[<<x, n>>] = counts[<<x, n>>]
    BY <1>1, <1>3, <1>5, <1>6
  <2>3. counts' \in [Keys \X Slots -> Nat]
    BY <1>1, <1>3, <1>4, <1>6
  <2>4. QED
    BY <1>4, <2>1, <2>2, <2>3 DEF c
<1>7. CASE counts' = counts /\ counts' # Incremented(k)
  BY <1>1, <1>2, <1>4, <1>7 DEF c
<1>8. QED
  BY <1>6, <1>7

(* One call of consume, whoever answers it.                                *)
LEMMA Consumed ==
  ASSUME LimitsTypeOK, SetsFinite, TablesInv, AskedKept, NEW p \in Processes, NEW k \in Keys,
         NEW yes \in BOOLEAN, Consume(p, k, yes), UNCHANGED <<setup, tick>>
  PROVE  /\ asked' = [asked EXCEPT ![k] = asked[k] \cup {NewUse(k)}]
         /\ counts' \in {counts, Incremented(k)}
         /\ \/ /\ Grants(k, "redis", yes) /\ counts' = Incremented(k)
               /\ yes = (counts'[<<k, Slot>>] <= LimitOf(k))
               /\ UNCHANGED <<table, times, since, evicted>>
            \/ Grants(k, p, yes) /\ yes = Fits(p, k) /\ UseTable(p, k, yes)
<1>1. asked' = [asked EXCEPT ![k] = asked[k] \cup {NewUse(k)}]
  BY DEF Consume
<1>2. CASE RedisSays(k, yes)
  BY <1>1, <1>2 DEF RedisSays, Grants
<1>3. CASE UseTable(p, k, yes) /\ counts' \in {counts, Incremented(k)}
  BY <1>1, <1>3 DEF UseTable, Grants
<1>4. QED
  BY <1>2, <1>3, ConsumeMoves

(* The types, the tables and the finite sets after such a call.            *)
LEMMA ConsumeSets ==
  ASSUME LimitsTypeOK, SetsFinite, TablesInv, AskedKept, NEW p \in Processes, NEW k \in Keys,
         NEW yes \in BOOLEAN, Consume(p, k, yes), UNCHANGED <<setup, tick>>
  PROVE  /\ table' \in [Processes -> Seq(Keys)]
         /\ times' \in [Processes -> [Keys -> SUBSET Uses]]
         /\ since' \in [Processes -> [Keys -> SUBSET Keys]]
         /\ evicted' \in [Processes -> SUBSET Keys]
         /\ asked' \in [Keys -> SUBSET Uses]
         /\ granted' \in [Keys -> [Judges -> SUBSET Uses]]
         /\ counts' \in [Keys \X Slots -> Nat]
         /\ TablesInv' /\ SetsFinite'
         /\ \A x \in Keys : asked'[x] = IF x = k THEN asked[x] \cup {NewUse(k)} ELSE asked[x]
<1>1. NewUse(k) \in Uses /\ asked \in [Keys -> SUBSET Uses]
  BY NewUseKnown DEF LimitsTypeOK
<1>2. asked' = [asked EXCEPT ![k] = asked[k] \cup {NewUse(k)}]
  BY Consumed
<1>3. /\ asked' \in [Keys -> SUBSET Uses]
      /\ \A x \in Keys : asked'[x] = IF x = k THEN asked[x] \cup {NewUse(k)} ELSE asked[x]
  BY <1>1, <1>2
<1>4. \A x \in Keys : IsFiniteSet(asked'[x])
  <2>1. \A x \in Keys : IsFiniteSet(asked[x]) /\ IsFiniteSet(asked[x] \cup {NewUse(k)})
    BY AddOne DEF SetsFinite
  <2>2. QED
    BY <1>3, <2>1
<1>5. /\ granted' \in [Keys -> [Judges -> SUBSET Uses]]
      /\ \A x \in Keys, b \in Judges : IsFiniteSet(granted'[x][b])
  <2>1. \E by \in Judges : Grants(k, by, yes)
    BY Consumed, Constants
  <2>2. QED
    BY <2>1, GrantsTo
<1>6. counts' \in [Keys \X Slots -> Nat]
  <2>1. counts' \in {counts, Incremented(k)}
    BY Consumed
  <2>2. QED
    BY <2>1, CountsMove
<1>7. /\ table' \in [Processes -> Seq(Keys)]
      /\ times' \in [Processes -> [Keys -> SUBSET Uses]]
      /\ since' \in [Processes -> [Keys -> SUBSET Keys]]
      /\ evicted' \in [Processes -> SUBSET Keys]
      /\ \A q \in Processes, x \in Keys : IsFiniteSet(times'[q][x]) /\ IsFiniteSet(since'[q][x])
      /\ TablesInv'
  <2>1. CASE UseTable(p, k, yes)
    BY <2>1, TableStep
  <2>2. CASE UNCHANGED <<table, times, since, evicted>>
    <3>1. /\ table' = table /\ times' = times /\ since' = since /\ evicted' = evicted
          /\ setup' = setup
      BY <2>2
    <3>2. \A q : Counted(q)' = Counted(q)
      BY <3>1 DEF Counted
    <3>3. TableBounded' /\ OrderKept' /\ BusyKeysStay'
      BY <3>1, <3>2 DEF TablesInv, TableBounded, OrderKept, BusyKeysStay, Room
    <3>4. QED
      BY <3>1, <3>3 DEF LimitsTypeOK, SetsFinite, TablesInv
  <2>3. QED
    BY <2>1, <2>2, Consumed
<1>8. SetsFinite'
  BY <1>4, <1>5, <1>7 DEF SetsFinite
<1>9. QED
  BY <1>3, <1>5, <1>6, <1>7, <1>8

LEMMA ConsumeAsked ==
  ASSUME LimitsTypeOK, SetsFinite, TablesInv, AskedKept, NEW p \in Processes, NEW k \in Keys,
         NEW yes \in BOOLEAN, Consume(p, k, yes), UNCHANGED <<setup, tick>>
  PROVE  AskedKept'
<1>1. /\ NewUse(k) \in Uses /\ NewUse(k) \notin asked[k]
      /\ NewUse(k).at = tick /\ NewUse(k).nth = Cardinality(asked[k])
      /\ Cardinality(asked[k]) \in Nat /\ tick \in Nat /\ tick - Window < tick
  BY NewUseKnown
<1>2. \A x \in Keys : asked'[x] = IF x = k THEN asked[x] \cup {NewUse(k)} ELSE asked[x]
  BY ConsumeSets
<1>3. tick' = tick
  OBVIOUS
<1>4. Cardinality(asked[k] \cup {NewUse(k)}) = Cardinality(asked[k]) + 1
  BY <1>1, AddOne DEF SetsFinite
<1>5. \A x \in Keys : \A u \in asked[x] :
        /\ tick - Window < u.at /\ u.at <= tick /\ u.nth \in Nat
        /\ u.at = tick => u.nth < Cardinality(asked[x])
  BY UseKnown DEF AskedKept, LimitsTypeOK
<1>6. ASSUME NEW x \in Keys, NEW u \in asked'[x]
      PROVE  /\ tick - Window < u.at /\ u.at <= tick
             /\ u.at = tick => u.nth < Cardinality(asked'[x])
  <2>1. CASE x # k
    BY <1>2, <1>5, <2>1
  <2>2. CASE x = k /\ u = NewUse(k)
    BY <1>1, <1>2, <1>4, <2>2
  <2>3. CASE x = k /\ u # NewUse(k)
    <3>1. u \in asked[k] /\ asked'[x] = asked[k] \cup {NewUse(k)}
      BY <1>2, <2>3
    <3>2. /\ tick - Window < u.at /\ u.at <= tick /\ u.nth \in Nat
          /\ u.at = tick => u.nth < Cardinality(asked[k])
      BY <1>5, <3>1
    <3>3. QED
      BY <1>1, <1>4, <3>1, <3>2
  <2>4. QED
    BY <2>1, <2>2, <2>3
<1>7. \A q \in Processes, x \in Keys : \A u \in times[q][x] : u.at > tick - Window => u \in asked'[x]
  BY <1>2 DEF AskedKept
<1>8. ASSUME NEW q \in Processes, NEW x \in Keys, NEW u \in times'[q][x], u.at > tick - Window
      PROVE  u \in asked'[x]
  <2>1. CASE UseTable(p, k, yes)
    <3>1. times' = [times EXCEPT ![p] = TimesAfter(p, k)]
      BY <2>1 DEF UseTable
    <3>2. /\ TimesAfter(p, k)[k] \subseteq times[p][k] \cup {NewUse(k)}
          /\ \A y \in Keys \ {k} : TimesAfter(p, k)[y] \subseteq times[p][y]
      BY NewTimes
    <3>3. u \in times[q][x] \/ (x = k /\ u = NewUse(k))
      BY <1>8, <3>1, <3>2 DEF LimitsTypeOK
    <3>4. QED
      BY <1>2, <1>7, <1>8, <3>3
  <2>2. CASE UNCHANGED times
    BY <1>7, <1>8, <2>2
  <2>3. QED
    BY <2>1, <2>2, Consumed
<1>9. ASSUME NEW x \in Keys, NEW b \in Judges PROVE granted'[x][b] \subseteq asked'[x]
  <2>1. PICK by \in Judges : GrantedTo(k, by, yes)
    <3>1. PICK by \in Judges : Grants(k, by, yes)
      BY Consumed, Constants
    <3>2. GrantedTo(k, by, yes)
      BY <3>1, GrantsTo
    <3>3. QED
      BY <3>2
  <2>2. granted'[x][b] \subseteq granted[x][b] \cup (IF x = k THEN {NewUse(k)} ELSE {})
    BY <2>1 DEF GrantedTo
  <2>3. granted[x][b] \subseteq asked[x]
    BY DEF AskedKept
  <2>4. QED
    BY <1>2, <2>2, <2>3
<1>10. QED
  BY <1>3, <1>6, <1>8, <1>9 DEF AskedKept

LEMMA ConsumeCounts ==
  ASSUME LimitsTypeOK, SetsFinite, TablesInv, AskedKept, CountsKept,
         NEW p \in Processes, NEW k \in Keys,
         NEW yes \in BOOLEAN, Consume(p, k, yes), UNCHANGED <<setup, tick>>
  PROVE  CountsKept'
<1>1. /\ NewUse(k) \notin asked[k] /\ NewUse(k).at = tick
  BY NewUseKnown
<1>2. \A x \in Keys : asked'[x] = IF x = k THEN asked[x] \cup {NewUse(k)} ELSE asked[x]
  BY ConsumeSets
<1>3. tick' = tick /\ Slot' = Slot
  BY DEF Slot
<1>4. /\ counts' \in [Keys \X Slots -> Nat] /\ counts \in [Keys \X Slots -> Nat]
      /\ \A x \in Keys, n \in Slots :
           x # k \/ n # Slot => counts'[<<x, n>>] = counts[<<x, n>>]
      /\ counts'[<<k, Slot>>] <= counts[<<k, Slot>>] + 1
      /\ counts[<<k, Slot>>] <= counts'[<<k, Slot>>]
      /\ counts' = Incremented(k) /\ counts'[<<k, Slot>>] <= LimitOf(k)
           => counts'[<<k, Slot>>] = counts[<<k, Slot>>] + 1
  <2>1. counts' \in {counts, Incremented(k)}
    BY Consumed
  <2>2. QED
    BY <2>1, CountsMove DEF LimitsTypeOK
<1>5. Slot \in Slots /\ Slot \in Nat /\ Slots \subseteq Int
  BY SlotKnown DEF Slots
<1>6. \A x \in Keys, n \in Slots : counts[<<x, n>>] \in Nat /\ counts'[<<x, n>>] \in Nat
  BY <1>4
<1>7. ASSUME NEW x \in Keys, NEW n \in Slots, n > Slot PROVE counts'[<<x, n>>] = 0
  <2>1. counts[<<x, n>>] = 0
    BY <1>7 DEF CountsKept
  <2>2. n # Slot
    BY <1>5, <1>7
  <2>3. QED
    BY <1>4, <2>1, <2>2
<1>8. ASSUME NEW x \in Keys
      PROVE  counts'[<<x, Slot>>] <= Cardinality(InSlot(asked'[x], Slot))
  <2>1. counts[<<x, Slot>>] <= Cardinality(InSlot(asked[x], Slot))
    BY DEF CountsKept
  <2>2. CASE x # k
    BY <1>2, <1>4, <1>5, <2>1, <2>2
  <2>3. CASE x = k
    <3>1. InSlot(asked'[k], Slot) = InSlot(asked[k], Slot) \cup {NewUse(k)}
      BY <1>1, <1>2 DEF InSlot, Slot
    <3>2. NewUse(k) \notin InSlot(asked[k], Slot) /\ InSlot(asked[k], Slot) \subseteq asked[k]
      BY <1>1 DEF InSlot
    <3>3. IsFiniteSet(InSlot(asked[k], Slot))
      BY <3>2, Fewer DEF SetsFinite
    <3>4. /\ Cardinality(InSlot(asked[k], Slot)) \in Nat
          /\ Cardinality(InSlot(asked'[k], Slot)) = Cardinality(InSlot(asked[k], Slot)) + 1
      BY <3>1, <3>2, <3>3, AddOne
    <3>5. QED
      BY <1>4, <1>5, <1>6, <2>1, <2>3, <3>4
  <2>4. QED
    BY <2>2, <2>3
<1>9. ASSUME NEW x \in Keys, NEW n \in Slots
      PROVE  /\ Cardinality(InSlot(granted'[x]["redis"], n)) <= counts'[<<x, n>>]
             /\ Cardinality(InSlot(granted'[x]["redis"], n)) <= LimitOf(x)
  <2>1. /\ Cardinality(InSlot(granted[x]["redis"], n)) <= counts[<<x, n>>]
        /\ Cardinality(InSlot(granted[x]["redis"], n)) <= LimitOf(x)
    BY DEF CountsKept
  <2>2. InSlot(granted[x]["redis"], n) \subseteq granted[x]["redis"] /\ IsFiniteSet(granted[x]["redis"])
    BY Constants DEF InSlot, SetsFinite
  <2>3. IsFiniteSet(InSlot(granted[x]["redis"], n)) /\ Cardinality(InSlot(granted[x]["redis"], n)) \in Nat
    BY <2>2, Fewer
  <2>4. counts[<<x, n>>] <= counts'[<<x, n>>]
    BY <1>4, <1>6
  <2>5. CASE InSlot(granted'[x]["redis"], n) = InSlot(granted[x]["redis"], n)
    BY <1>6, <2>1, <2>3, <2>4, <2>5
  <2>6. CASE InSlot(granted'[x]["redis"], n) # InSlot(granted[x]["redis"], n)
    <3>1. /\ Grants(k, "redis", yes) /\ counts' = Incremented(k)
          /\ yes = (counts'[<<k, Slot>>] <= LimitOf(k))
      <4>1. SUFFICES ASSUME Grants(k, p, yes) PROVE FALSE
        BY Consumed
      <4>2. p \in Judges /\ "redis" # p /\ "redis" \in Judges
        BY LimitsAssumption DEF Judges
      <4>3. GrantedTo(k, p, yes)
        BY <4>1, <4>2, GrantsTo
      <4>5. granted'[x]["redis"] = granted[x]["redis"]
        BY <4>2, <4>3 DEF GrantedTo
      <4>4. QED
        BY <2>6, <4>5
    <3>2. granted'[x]["redis"] = IF x = k /\ yes THEN granted[x]["redis"] \cup {NewUse(k)}
                                 ELSE granted[x]["redis"]
      <4>1. GrantedTo(k, "redis", yes)
        BY <3>1, GrantsTo, Constants
      <4>2. QED
        BY <4>1, Constants DEF GrantedTo
    <3>3. x = k /\ yes /\ granted'[x]["redis"] = granted[x]["redis"] \cup {NewUse(k)}
      BY <2>6, <3>2
    <3>4. n = Slot /\ InSlot(granted'[x]["redis"], n) = InSlot(granted[x]["redis"], n) \cup {NewUse(k)}
      BY <1>1, <2>6, <3>3 DEF InSlot, Slot
    <3>5. /\ Cardinality(InSlot(granted'[x]["redis"], n)) \in Nat
          /\ Cardinality(InSlot(granted'[x]["redis"], n))
               <= Cardinality(InSlot(granted[x]["redis"], n)) + 1
      BY <2>3, <3>4, AddOne
    <3>6. counts'[<<x, n>>] <= LimitOf(x) /\ counts'[<<x, n>>] = counts[<<x, n>>] + 1
      BY <1>4, <3>1, <3>3, <3>4
    <3>7. QED
      BY <1>6, <2>1, <2>3, <3>5, <3>6, Constants
  <2>7. QED
    BY <2>5, <2>6
<1>10. QED
  BY <1>3, <1>7, <1>8, <1>9 DEF CountsKept

LEMMA ConsumeGrants ==
  ASSUME LimitsTypeOK, SetsFinite, TablesInv, AskedKept, GrantsKept,
         NEW p \in Processes, NEW k \in Keys,
         NEW yes \in BOOLEAN, Consume(p, k, yes), UNCHANGED <<setup, tick>>
  PROVE  GrantsKept'
<1>1. NewUse(k).at = tick /\ tick \in Nat /\ tick - Window < tick
  BY NewUseKnown
<1>2. \E by \in Judges : Grants(k, by, yes)
  BY Consumed, Constants
<1>3. \A x \in Keys, b \in Judges : granted'[x][b] \subseteq granted[x][b] \cup {NewUse(k)}
  <2>1. \E by \in Judges : GrantedTo(k, by, yes)
    BY <1>2, GrantsTo
  <2>2. QED
    BY <2>1 DEF GrantedTo
<1>4. ASSUME NEW x \in Keys, NEW b \in Judges, NEW u \in granted'[x][b]
      PROVE  tick' - Window < u.at /\ u.at <= tick'
  <2>1. u \in granted[x][b] \/ u = NewUse(k)
    BY <1>3
  <2>2. QED
    BY <1>1, <2>1 DEF GrantsKept
<1>5. ASSUME NEW q \in Processes, NEW x \in Keys, x \notin evicted'[q]
      PROVE  granted'[x][q] \subseteq times'[q][x]
  <2>1. q \in Judges /\ "redis" # q
    BY LimitsAssumption DEF Judges
  <2>2. CASE Grants(k, "redis", yes) /\ UNCHANGED <<times, evicted>>
    <3>1. granted'[x][q] = granted[x][q]
      <4>1. GrantedTo(k, "redis", yes)
        BY <2>2, GrantsTo, Constants
      <4>2. QED
        BY <2>1, <4>1 DEF GrantedTo
    <3>2. QED
      BY <1>5, <2>2, <3>1 DEF GrantsKept
  <2>3. CASE Grants(k, p, yes) /\ yes = Fits(p, k) /\ UseTable(p, k, yes)
    <3>1. granted'[x][q] = IF x = k /\ q = p /\ yes THEN granted[x][q] \cup {NewUse(k)}
                           ELSE granted[x][q]
      <4>1. GrantedTo(k, p, yes)
        BY <2>3, GrantsTo, Constants
      <4>2. QED
        BY <2>1, <4>1 DEF GrantedTo
    <3>2. /\ times' = [times EXCEPT ![p] = TimesAfter(p, k)]
          /\ evicted' = [evicted EXCEPT ![p] =
                           evicted[p] \cup (Counted(p) \ Held(TableAfter(p, k)))]
      BY <2>3 DEF UseTable, Held
    <3>3. CASE q # p
      <4>1. times'[q] = times[q] /\ evicted'[q] = evicted[q]
        BY <3>2, <3>3 DEF LimitsTypeOK
      <4>2. QED
        BY <1>5, <3>1, <3>3, <4>1 DEF GrantsKept
    <3>4. CASE q = p
      <4>1. /\ times'[p] = TimesAfter(p, k)
            /\ evicted'[p] = evicted[p] \cup (Counted(p) \ Held(TableAfter(p, k)))
        BY <3>2 DEF LimitsTypeOK
      <4>2. granted[x][p] \subseteq times[p][x]
        BY <1>5, <3>4, <4>1 DEF GrantsKept
      <4>3. granted[x][p] \subseteq Recent(times[p][x])
        BY <2>1, <3>4, <4>2, UseKnown, Constants DEF GrantsKept, Recent, LimitsTypeOK
      <4>4. /\ \A y \in Keys \ {k} :
                 TimesAfter(p, k)[y] = times[p][y] \/ (MustEvict(p, k) /\ y = table[p][1])
            /\ Recent(times[p][k]) \subseteq TimesAfter(p, k)[k]
            /\ Fits(p, k) => NewUse(k) \in TimesAfter(p, k)[k]
        BY NewTimes
      <4>5. CASE x = k
        BY <2>3, <3>1, <3>4, <4>1, <4>3, <4>4, <4>5
      <4>6. CASE x # k
        <5>1. ~(MustEvict(p, k) /\ x = table[p][1])
          BY <1>5, <3>4, <4>1, FirstFalls
        <5>2. QED
          BY <3>1, <3>4, <4>1, <4>2, <4>4, <4>6, <5>1
      <4>7. QED
        BY <4>5, <4>6
    <3>5. QED
      BY <3>3, <3>4
  <2>4. QED
    BY <2>2, <2>3, Consumed
<1>6. QED
  BY <1>4, <1>5 DEF GrantsKept

-----------------------------------------------------------------------------
(* The clock moves on.                                                     *)

LEMMA PassStep ==
  ASSUME LimitsIInv, Pass
  PROVE  LimitsIInv'
<1>1. /\ LimitsTypeOK /\ SetsFinite /\ TablesInv /\ AskedKept /\ CountsKept /\ GrantsKept
      /\ tick < LastTick /\ tick' = tick + 1
      /\ asked' = [k \in Keys |-> InWindow(asked[k], tick')]
      /\ granted' = [k \in Keys |-> [by \in Judges |-> InWindow(granted[k][by], tick')]]
      /\ UNCHANGED <<setup, requests, outages, table, times, counts, halfway, since, evicted>>
  BY DEF LimitsIInv, Pass
<1>2. /\ tick \in Nat /\ tick' \in Nat /\ tick' \in 0..LastTick /\ tick' - 1 = tick
      /\ tick - Window < tick' - Window
  BY <1>1, Constants DEF LimitsTypeOK
<1>3. /\ \A k \in Keys : asked'[k] = {u \in asked[k] : u.at > tick' - Window}
      /\ \A k \in Keys, by \in Judges :
           granted'[k][by] = {u \in granted[k][by] : u.at > tick' - Window}
  BY <1>1 DEF InWindow
<1>4. /\ asked \in [Keys -> SUBSET Uses] /\ granted \in [Keys -> [Judges -> SUBSET Uses]]
      /\ times \in [Processes -> [Keys -> SUBSET Uses]]
  BY <1>1 DEF LimitsTypeOK
<1>5. /\ asked' \in [Keys -> SUBSET Uses] /\ granted' \in [Keys -> [Judges -> SUBSET Uses]]
  BY <1>1, <1>4 DEF InWindow
<1>6. LimitsTypeOK'
  BY <1>1, <1>2, <1>5 DEF LimitsTypeOK
<1>7. SetsFinite'
  <2>1. ASSUME NEW k \in Keys
        PROVE  IsFiniteSet(asked'[k]) /\ \A by \in Judges : IsFiniteSet(granted'[k][by])
    BY <1>1, <1>3, Fewer DEF SetsFinite
  <2>2. QED
    BY <1>1, <2>1 DEF SetsFinite
<1>8. TablesInv'
  <2>1. \A q : Counted(q)' = Counted(q)
    BY <1>1 DEF Counted
  <2>2. QED
    BY <1>1, <2>1 DEF TablesInv, TableBounded, OrderKept, BusyKeysStay, Room
<1>9. AskedKept'
  <2>1. ASSUME NEW k \in Keys, NEW u \in asked'[k]
        PROVE  /\ tick' - Window < u.at /\ u.at <= tick'
               /\ u.at = tick' => u.nth < Cardinality(asked'[k])
    <3>1. u \in asked[k] /\ u.at > tick' - Window
      BY <1>3
    <3>2. u.at <= tick /\ u.at \in Nat
      BY <1>1, <1>4, <3>1, UseKnown DEF AskedKept
    <3>3. u.at <= tick' /\ u.at # tick' /\ tick' - Window < u.at
      BY <1>1, <1>2, <3>1, <3>2, Constants
    <3>4. QED
      BY <3>3
  <2>2. ASSUME NEW k \in Keys, NEW p \in Processes, NEW u \in times'[p][k], u.at > tick' - Window
        PROVE  u \in asked'[k]
    <3>1. u \in times[p][k] /\ u.at \in Nat
      BY <1>1, <1>4, UseKnown
    <3>2. u.at > tick - Window
      <4>1. tick - Window \in Int /\ tick' - Window \in Int /\ tick' - Window < u.at
        BY <1>2, <2>2, Constants
      <4>2. QED
        BY <1>2, <3>1, <4>1
    <3>3. u \in asked[k]
      BY <1>1, <3>1, <3>2 DEF AskedKept
    <3>4. QED
      BY <1>3, <2>2, <3>3
  <2>3. \A k \in Keys, by \in Judges : granted'[k][by] \subseteq asked'[k]
    <3>1. ASSUME NEW k \in Keys, NEW by \in Judges, NEW u \in granted'[k][by]
          PROVE  u \in asked'[k]
      <4>1. u \in granted[k][by] /\ u.at > tick' - Window
        BY <1>3
      <4>2. u \in asked[k]
        BY <1>1, <4>1 DEF AskedKept
      <4>3. QED
        BY <1>3, <4>1, <4>2
    <3>2. QED
      BY <3>1
  <2>4. QED
    BY <2>1, <2>2, <2>3 DEF AskedKept
<1>10. GrantsKept'
  <2>1. ASSUME NEW k \in Keys, NEW by \in Judges, NEW u \in granted'[k][by]
        PROVE  tick' - Window < u.at /\ u.at <= tick'
    <3>1. u \in granted[k][by] /\ u.at > tick' - Window
      BY <1>3
    <3>2. u.at <= tick /\ u.at \in Nat
      BY <1>1, <1>4, <3>1, UseKnown DEF GrantsKept
    <3>3. QED
      BY <1>1, <1>2, <3>1, <3>2, Constants
  <2>2. ASSUME NEW k \in Keys, NEW p \in Processes, k \notin evicted'[p]
        PROVE  granted'[k][p] \subseteq times'[p][k]
    BY <1>1, <1>3, <2>2, Constants DEF GrantsKept
  <2>3. QED
    BY <2>1, <2>2 DEF GrantsKept
<1>11. CountsKept'
  <2>1. /\ Slot \in Slots /\ Slot' \in Slots /\ Slot \in Nat /\ Slot' \in Nat /\ Slot <= Slot'
        /\ Slots \subseteq Int
    <3>1. Slot \in Slots /\ Slot \in Nat
      BY <1>1, SlotKnown
    <3>2. tick' \div Window \in Slots /\ tick' \div Window \in Nat
      BY <1>2, SlotsKnown, Quotient
    <3>3. tick \div Window <= tick' \div Window
      BY <1>1, <1>2, SlotsInOrder
    <3>4. QED
      BY <3>1, <3>2, <3>3 DEF Slot, Slots
  <2>2. /\ counts' = counts
        /\ \A k \in Keys, n \in Slots : counts[<<k, n>>] \in Nat
    BY <1>1 DEF LimitsTypeOK
  <2>3. ASSUME NEW k \in Keys, NEW n \in Slots, n > Slot' PROVE counts'[<<k, n>>] = 0
    <3>1. n > Slot
      BY <2>1, <2>3
    <3>2. QED
      BY <1>1, <2>2, <3>1 DEF CountsKept
  <2>4. ASSUME NEW k \in Keys
        PROVE  counts'[<<k, Slot'>>] <= Cardinality(InSlot(asked'[k], Slot'))
    <3>1. IsFiniteSet(InSlot(asked'[k], Slot')) /\ Cardinality(InSlot(asked'[k], Slot')) \in Nat
      <4>1. InSlot(asked'[k], Slot') \subseteq asked'[k] /\ IsFiniteSet(asked'[k])
        BY <1>7 DEF InSlot, SetsFinite
      <4>2. QED
        BY <4>1, Fewer
    <3>2. CASE Slot' = Slot
      <4>1. ASSUME NEW u \in asked[k], u.at \div Window = Slot' PROVE u.at > tick' - Window
        <5>1. u.at \in Nat /\ u.at \div Window = tick' \div Window
          BY <1>4, <4>1, UseKnown DEF Slot
        <5>2. QED
          BY <1>2, <5>1, SlotWithinWindow
      <4>2. InSlot(asked'[k], Slot') = InSlot(asked[k], Slot)
        BY <1>3, <3>2, <4>1 DEF InSlot
      <4>3. counts[<<k, Slot>>] <= Cardinality(InSlot(asked[k], Slot))
        BY <1>1 DEF CountsKept
      <4>4. QED
        BY <2>2, <3>2, <4>2, <4>3
    <3>3. CASE Slot' # Slot
      <4>1. Slot' > Slot
        BY <2>1, <3>3
      <4>2. counts[<<k, Slot'>>] = 0
        BY <1>1, <2>1, <4>1 DEF CountsKept
      <4>3. QED
        BY <2>2, <3>1, <4>2
    <3>4. QED
      BY <3>2, <3>3
  <2>5. ASSUME NEW k \in Keys, NEW n \in Slots
        PROVE  /\ Cardinality(InSlot(granted'[k]["redis"], n)) <= counts'[<<k, n>>]
               /\ Cardinality(InSlot(granted'[k]["redis"], n)) <= LimitOf(k)
    <3>1. InSlot(granted[k]["redis"], n) \subseteq granted[k]["redis"]
          /\ IsFiniteSet(granted[k]["redis"])
      BY <1>1, Constants DEF InSlot, SetsFinite
    <3>2. InSlot(granted'[k]["redis"], n) \subseteq InSlot(granted[k]["redis"], n)
      BY <1>3, Constants DEF InSlot
    <3>3. IsFiniteSet(InSlot(granted[k]["redis"], n))
      BY <3>1, Fewer
    <3>4. /\ Cardinality(InSlot(granted'[k]["redis"], n)) \in Nat
          /\ Cardinality(InSlot(granted[k]["redis"], n)) \in Nat
          /\ Cardinality(InSlot(granted'[k]["redis"], n)) <= Cardinality(InSlot(granted[k]["redis"], n))
      BY <3>2, <3>3, Fewer
    <3>5. /\ Cardinality(InSlot(granted[k]["redis"], n)) <= counts[<<k, n>>]
          /\ Cardinality(InSlot(granted[k]["redis"], n)) <= LimitOf(k)
      BY <1>1 DEF CountsKept
    <3>6. QED
      BY <2>2, <3>4, <3>5, Constants
  <2>6. QED
    BY <2>3, <2>4, <2>5 DEF CountsKept
<1>12. QED
  BY <1>6, <1>7, <1>8, <1>9, <1>10, <1>11 DEF LimitsIInv

-----------------------------------------------------------------------------
(* The counters of a step that asks.                                       *)

LEMMA OutagesMove ==
  ASSUME LimitsTypeOK, NEW p, NEW k, NEW yes, Consume(p, k, yes)
  PROVE  outages' \in 0..MaxOutages
BY LimitsAssumption DEF LimitsTypeOK, Consume, RedisSays, FallbackSays, TableSays

LEMMA AsksType ==
  ASSUME LimitsTypeOK, LimitsNext, ~Pass
  PROVE  /\ requests' \in 0..MaxRequests /\ outages' \in 0..MaxOutages
         /\ halfway' \in [Processes -> Visitors \cup {NoVisitor}]
<1>1. requests \in 0..MaxRequests /\ halfway \in [Processes -> Visitors \cup {NoVisitor}]
  BY DEF LimitsTypeOK
<1>2. ASSUME NEW p \in Processes, AskForAddress(p)
      PROVE  /\ requests' \in 0..MaxRequests /\ outages' \in 0..MaxOutages
             /\ halfway' \in [Processes -> Visitors \cup {NoVisitor}]
  <2>1. outages' \in 0..MaxOutages
    BY <1>2, OutagesMove DEF AskForAddress
  <2>2. requests' = requests /\ halfway' = [halfway EXCEPT ![p] = NoVisitor]
    BY <1>2 DEF AskForAddress
  <2>3. QED
    BY <1>1, <2>1, <2>2
<1>3. ASSUME NEW p \in Processes, NEW o \in Owners, Ask(p, o)
      PROVE  /\ requests' \in 0..MaxRequests /\ outages' \in 0..MaxOutages
             /\ halfway' \in [Processes -> Visitors \cup {NoVisitor}]
  <2>1. PICK yes \in BOOLEAN :
          /\ Consume(p, o, yes)
          /\ halfway' = [halfway EXCEPT ![p] = IF yes /\ Guarded(o) THEN o ELSE NoVisitor]
    BY <1>3 DEF Ask
  <2>2. outages' \in 0..MaxOutages
    BY <2>1, OutagesMove
  <2>3. requests' \in 0..MaxRequests
    BY <1>1, <1>3, LimitsAssumption DEF Ask
  <2>4. (IF yes /\ Guarded(o) THEN o ELSE NoVisitor) \in Visitors \cup {NoVisitor}
    BY DEF Guarded
  <2>5. halfway' \in [Processes -> Visitors \cup {NoVisitor}]
    BY <1>1, <2>1, <2>4
  <2>6. QED
    BY <2>2, <2>3, <2>5
<1>4. QED
  BY <1>2, <1>3 DEF LimitsNext

LEMMA ConsumeStep ==
  ASSUME LimitsIInv, LimitsNext, ~Pass
  PROVE  LimitsIInv'
<1>1. /\ LimitsTypeOK /\ SetsFinite /\ TablesInv /\ AskedKept /\ CountsKept /\ GrantsKept
  BY DEF LimitsIInv
<1>2. PICK p \in Processes, k \in Keys, yes \in BOOLEAN :
        Consume(p, k, yes) /\ UNCHANGED <<setup, tick>>
  BY NextMoves
<1>3. /\ table' \in [Processes -> Seq(Keys)]
      /\ times' \in [Processes -> [Keys -> SUBSET Uses]]
      /\ since' \in [Processes -> [Keys -> SUBSET Keys]]
      /\ evicted' \in [Processes -> SUBSET Keys]
      /\ asked' \in [Keys -> SUBSET Uses]
      /\ granted' \in [Keys -> [Judges -> SUBSET Uses]]
      /\ counts' \in [Keys \X Slots -> Nat]
      /\ TablesInv' /\ SetsFinite'
  BY <1>1, <1>2, ConsumeSets
<1>4. LimitsTypeOK'
  BY <1>1, <1>2, <1>3, AsksType DEF LimitsTypeOK
<1>5. AskedKept' /\ CountsKept' /\ GrantsKept'
  BY <1>1, <1>2, ConsumeAsked, ConsumeCounts, ConsumeGrants
<1>6. QED
  BY <1>3, <1>4, <1>5 DEF LimitsIInv

LEMMA LimitsIInvInit == LimitsInit => LimitsIInv
<1> SUFFICES ASSUME LimitsInit PROVE LimitsIInv
  OBVIOUS
<1>1. /\ setup \in [limiter : {"llm", "auth"}, shared : BOOLEAN, capacity : Capacities]
      /\ tick = 0 /\ requests = 0 /\ outages = 0
      /\ table = [p \in Processes |-> <<>>]
      /\ times = [p \in Processes |-> [k \in Keys |-> {}]]
      /\ counts = [c \in Keys \X Slots |-> 0]
      /\ halfway = [p \in Processes |-> NoVisitor]
      /\ asked = [k \in Keys |-> {}]
      /\ granted = [k \in Keys |-> [by \in Judges |-> {}]]
      /\ since = [p \in Processes |-> [k \in Keys |-> {}]]
      /\ evicted = [p \in Processes |-> {}]
  BY DEF LimitsInit
<1>2. LimitsTypeOK
  <2>1. tick \in 0..LastTick /\ requests \in 0..MaxRequests /\ outages \in 0..MaxOutages
    BY <1>1, LimitsAssumption
  <2>2. table \in [Processes -> Seq(Keys)]
    BY <1>1, EmptySeq
  <2>3. QED
    BY <1>1, <2>1, <2>2 DEF LimitsTypeOK
<1>3. IsFiniteSet({}) /\ Cardinality({}) = 0
  BY FS_EmptySet
<1>4. SetsFinite
  BY <1>1, <1>3 DEF SetsFinite
<1>5. TablesInv
  <2>1. \A p \in Processes : table[p] = <<>> /\ Len(table[p]) = 0 /\ DOMAIN table[p] = {}
    BY <1>1
  <2>2. setup.capacity \in Int
    BY <1>1, LimitsAssumption
  <2>3. 0 <= Room
    BY <2>2 DEF Room
  <2>4. TableBounded
    BY <1>1, <1>3, <2>1, <2>3, Constants DEF TableBounded
  <2>5. OrderKept
    BY <2>1 DEF OrderKept
  <2>6. BusyKeysStay
    BY <1>1 DEF BusyKeysStay
  <2>7. QED
    BY <2>4, <2>5, <2>6 DEF TablesInv
<1>6. AskedKept
  BY <1>1 DEF AskedKept
<1>7. GrantsKept
  BY <1>1, Constants DEF GrantsKept
<1>8. CountsKept
  <2>1. \A k \in Keys, n \in Slots : counts[<<k, n>>] = 0
    BY <1>1
  <2>2. \A n : InSlot({}, n) = {}
    BY DEF InSlot
  <2>3. \A k \in Keys : asked[k] = {} /\ granted[k]["redis"] = {}
    BY <1>1, Constants
  <2>4. Slot \in Slots
    BY <1>2, SlotKnown
  <2>5. QED
    <3>1. ASSUME NEW k \in Keys
          PROVE  /\ \A n \in Slots : n > Slot => counts[<<k, n>>] = 0
                 /\ counts[<<k, Slot>>] <= Cardinality(InSlot(asked[k], Slot))
                 /\ \A n \in Slots :
                      /\ Cardinality(InSlot(granted[k]["redis"], n)) <= counts[<<k, n>>]
                      /\ Cardinality(InSlot(granted[k]["redis"], n)) <= LimitOf(k)
      <4>1. \A n : InSlot(asked[k], n) = {} /\ InSlot(granted[k]["redis"], n) = {}
        BY <2>2, <2>3
      <4>2. \A n : /\ Cardinality(InSlot(asked[k], n)) = 0
                   /\ Cardinality(InSlot(granted[k]["redis"], n)) = 0
        BY <1>3, <4>1
      <4>3. counts[<<k, Slot>>] = 0 /\ \A n \in Slots : counts[<<k, n>>] = 0
        BY <2>1, <2>4
      <4>4. QED
        BY <4>2, <4>3, Constants
    <3>2. QED
      BY <3>1 DEF CountsKept
<1>9. QED
  BY <1>2, <1>4, <1>5, <1>6, <1>7, <1>8 DEF LimitsIInv

LEMMA LimitsIInvStep == LimitsIInv /\ [LimitsNext]_limitVars => LimitsIInv'
<1> SUFFICES ASSUME LimitsIInv, [LimitsNext]_limitVars PROVE LimitsIInv'
  OBVIOUS
<1>1. CASE Pass
  BY <1>1, PassStep
<1>2. CASE LimitsNext /\ ~Pass
  BY <1>2, ConsumeStep
<1>3. CASE UNCHANGED limitVars
  <2>1. /\ UNCHANGED <<setup, tick, requests, outages, table, times>>
        /\ UNCHANGED <<counts, halfway, asked, granted, since, evicted>>
    BY <1>3 DEF limitVars
  <2>2. Slot' = Slot /\ Room' = Room /\ \A q : Counted(q)' = Counted(q)
    BY <2>1 DEF Slot, Room, Counted
  <2>3. LimitsTypeOK' /\ SetsFinite'
    BY <2>1 DEF LimitsIInv, LimitsTypeOK, SetsFinite
  <2>4. TablesInv'
    BY <2>1, <2>2 DEF LimitsIInv, TablesInv, TableBounded, OrderKept, BusyKeysStay
  <2>5. AskedKept' /\ CountsKept' /\ GrantsKept'
    BY <2>1, <2>2 DEF LimitsIInv, AskedKept, CountsKept, GrantsKept
  <2>6. QED
    BY <2>3, <2>4, <2>5 DEF LimitsIInv
<1>4. QED
  BY <1>1, <1>2, <1>3

(* What Redis lets through in a window falls into two of its slots.        *)
LEMMA QuotaFollows == LimitsIInv => QuotaKept
<1> SUFFICES ASSUME LimitsIInv, NEW k \in Keys
             PROVE  /\ \A p \in Processes :
                         k \notin evicted[p] => Cardinality(granted[k][p]) <= LimitOf(k)
                    /\ Cardinality(granted[k]["redis"]) <= 2 * LimitOf(k)
  BY DEF QuotaKept
<1>1. LimitsTypeOK /\ SetsFinite /\ TableBounded /\ CountsKept /\ GrantsKept
  BY DEF LimitsIInv, TablesInv
<1>2. LimitOf(k) \in Nat
  BY Constants
<1>3. ASSUME NEW p \in Processes, k \notin evicted[p]
      PROVE  Cardinality(granted[k][p]) <= LimitOf(k)
  <2>1. granted[k][p] \subseteq times[p][k] /\ IsFiniteSet(times[p][k])
    BY <1>1, <1>3 DEF GrantsKept, SetsFinite
  <2>2. /\ Cardinality(granted[k][p]) \in Nat /\ Cardinality(times[p][k]) \in Nat
        /\ Cardinality(granted[k][p]) <= Cardinality(times[p][k])
    BY <2>1, Fewer
  <2>3. Cardinality(times[p][k]) <= LimitOf(k)
    BY <1>1 DEF TableBounded
  <2>4. QED
    BY <1>2, <2>2, <2>3
<1>4. Cardinality(granted[k]["redis"]) <= 2 * LimitOf(k)
  <2> DEFINE G == granted[k]["redis"]
             A == InSlot(G, Slot)
             B == InSlot(G, Slot - 1)
  <2>1. IsFiniteSet(G) /\ G \subseteq Uses
    BY <1>1, Constants DEF SetsFinite, LimitsTypeOK
  <2>2. A \subseteq G /\ B \subseteq G
    BY DEF InSlot
  <2>3. G \subseteq A \cup B
    <3>1. ASSUME NEW u \in G PROVE u \in A \/ u \in B
      <4>1. u.at \in Nat /\ tick \in Nat
        BY <1>1, <2>1, UseKnown, SlotKnown
      <4>2. tick - Window < u.at /\ u.at <= tick
        BY <1>1, Constants DEF GrantsKept
      <4>3. u.at \div Window = tick \div Window \/ u.at \div Window = tick \div Window - 1
        BY <4>1, <4>2, WindowTwoSlots
      <4>4. QED
        BY <4>3 DEF InSlot, Slot
    <3>2. QED
      BY <3>1
  <2>4. Cardinality(A) <= LimitOf(k)
    BY <1>1, SlotKnown DEF CountsKept
  <2>5. Cardinality(B) <= LimitOf(k)
    <3>1. Slot \in Nat /\ Slot \in 0..(LastTick \div Window) /\ LastTick \div Window \in Nat
      BY <1>1, SlotKnown, Constants, Quotient DEF Slots
    <3>2. CASE Slot = 0
      <4>1. \A u \in G : u.at \div Window # Slot - 1
        <5>1. \A u \in G : u.at \div Window \in Nat
          BY <2>1, UseKnown, Quotient
        <5>2. QED
          BY <3>2, <5>1
      <4>2. B = {}
        BY <4>1 DEF InSlot
      <4>3. QED
        BY <1>2, <4>2, FS_EmptySet
    <3>3. CASE Slot # 0
      <4>1. Slot - 1 \in Slots
        BY <3>1, <3>3 DEF Slots
      <4>2. QED
        BY <1>1, <4>1 DEF CountsKept
    <3>4. QED
      BY <3>2, <3>3
  <2> HIDE DEF A, B
  <2>6. IsFiniteSet(A) /\ IsFiniteSet(B) /\ Cardinality(A) \in Nat /\ Cardinality(B) \in Nat
    BY <2>1, <2>2, Fewer
  <2>7. IsFiniteSet(A \cap B) /\ Cardinality(A \cap B) \in Nat
    <3>1. A \cap B \subseteq A
      OBVIOUS
    <3>2. QED
      BY <2>6, <3>1, Fewer
  <2>8. /\ IsFiniteSet(A \cup B)
        /\ Cardinality(A \cup B) = Cardinality(A) + Cardinality(B) - Cardinality(A \cap B)
    BY <2>6, FS_Union
  <2>9. Cardinality(G) <= Cardinality(A \cup B) /\ Cardinality(G) \in Nat
    BY <2>3, <2>8, Fewer
  <2> HIDE DEF G
  <2>10. Cardinality(G) <= LimitOf(k) + LimitOf(k)
    BY <1>2, <2>4, <2>5, <2>6, <2>7, <2>8, <2>9
  <2>11. QED
    BY <1>2, <2>10 DEF G
<1>5. QED
  BY <1>3, <1>4

(* Every process, table and counter keeps to its limits, however calls,    *)
(* lost answers of Redis and the clock interleave (consume of both         *)
(* limiters, RedisLLMRateLimiter and RedisAuthRateLimiter).                *)
THEOREM LimitsKept == LimitsSpec => []LimitsInv
<1>1. LimitsIInv => LimitsInv
  BY QuotaFollows DEF LimitsIInv, LimitsInv, TablesInv
<1>2. QED
  BY LimitsIInvInit, LimitsIInvStep, <1>1, PTL DEF LimitsSpec

-----------------------------------------------------------------------------
LEMMA RefusedStep ==
  ASSUME LimitsIInv, LimitsNext, ~Pass, NEW x \in Keys,
         ~ (asked'[x] \subseteq asked[x]), granted'[x] = granted[x]
  PROVE  Cardinality(InWindow(asked[x], tick)) >= LimitOf(x)
<1>1. /\ LimitsTypeOK /\ SetsFinite /\ TablesInv /\ AskedKept /\ CountsKept /\ GrantsKept
  BY DEF LimitsIInv
<1>2. PICK p \in Processes, k \in Keys, yes \in BOOLEAN :
        Consume(p, k, yes) /\ UNCHANGED <<setup, tick>>
  BY NextMoves
<1>3. x = k
  <2>1. \A y \in Keys : asked'[y] = IF y = k THEN asked[y] \cup {NewUse(k)} ELSE asked[y]
    BY <1>1, <1>2, ConsumeSets
  <2>2. QED
    BY <2>1
<1>4. /\ IsFiniteSet(asked[k]) /\ asked[k] \subseteq Uses
      /\ InWindow(asked[k], tick) = asked[k]
      /\ IsFiniteSet(InWindow(asked[k], tick))
  <2>1. IsFiniteSet(asked[k]) /\ asked[k] \subseteq Uses /\ tick \in Nat
    BY <1>1, SlotKnown DEF SetsFinite, LimitsTypeOK
  <2>2. \A u \in asked[k] : tick - Window < u.at /\ u.at \in Nat
    BY <1>1, <2>1, UseKnown DEF AskedKept
  <2>3. \A u \in asked[k] : u.at > tick - Window
    BY <2>1, <2>2, Constants
  <2>4. InWindow(asked[k], tick) = asked[k]
    BY <2>3 DEF InWindow
  <2>5. QED
    BY <2>1, <2>4
<1>5. ASSUME NEW by \in Judges, Grants(k, by, yes) PROVE ~yes
  <2>1. GrantedTo(k, by, yes)
    BY <1>1, <1>5, GrantsTo
  <2>2. yes => NewUse(k) \in granted'[k][by]
    BY <2>1 DEF GrantedTo
  <2>3. NewUse(k) \notin granted[k][by]
    BY <1>1, NewUseKnown DEF AskedKept
  <2>4. granted'[k][by] = granted[k][by]
    BY <1>3
  <2>5. QED
    BY <2>2, <2>3, <2>4
<1>6. CASE /\ Grants(k, "redis", yes) /\ counts' = Incremented(k)
           /\ yes = (counts'[<<k, Slot>>] <= LimitOf(k))
  <2>1. ~(counts'[<<k, Slot>>] <= LimitOf(k))
    BY <1>5, <1>6, Constants
  <2>2. /\ counts' \in [Keys \X Slots -> Nat] /\ counts'[<<k, Slot>>] <= counts[<<k, Slot>>] + 1
    BY <1>1, <1>6, CountsMove
  <2>3. /\ counts'[<<k, Slot>>] \in Nat /\ counts[<<k, Slot>>] \in Nat
    BY <1>1, <2>2, SlotKnown DEF LimitsTypeOK
  <2>4. counts[<<k, Slot>>] <= Cardinality(InSlot(asked[k], Slot))
    BY <1>1 DEF CountsKept
  <2>5. InSlot(asked[k], Slot) \subseteq asked[k]
    BY DEF InSlot
  <2>6. /\ Cardinality(InSlot(asked[k], Slot)) \in Nat /\ Cardinality(asked[k]) \in Nat
        /\ Cardinality(InSlot(asked[k], Slot)) <= Cardinality(asked[k])
    BY <1>4, <2>5, Fewer
  <2>7. LimitOf(k) <= Cardinality(asked[k])
    BY <2>1, <2>2, <2>3, <2>4, <2>6, Constants
  <2>8. QED
    BY <1>3, <1>4, <2>6, <2>7, Constants
<1>7. CASE Grants(k, p, yes) /\ yes = Fits(p, k)
  <2>1. ~Fits(p, k)
    BY <1>5, <1>7, Constants
  <2>2. Recent(times[p][k]) \subseteq asked[k]
    BY <1>1 DEF Recent, AskedKept
  <2>3. /\ Cardinality(Recent(times[p][k])) \in Nat /\ Cardinality(asked[k]) \in Nat
        /\ Cardinality(Recent(times[p][k])) <= Cardinality(asked[k])
    BY <1>4, <2>2, Fewer
  <2>4. LimitOf(k) <= Cardinality(asked[k])
    BY <2>1, <2>3, Constants DEF Fits
  <2>5. QED
    BY <1>3, <1>4, <2>3, <2>4, Constants
<1>8. QED
  BY <1>1, <1>2, <1>6, <1>7, Consumed

(* Nobody is refused who has not used up the window: not by what was       *)
(* counted in an earlier one, and not because Redis counted a request      *)
(* whose answer was lost (consume of both limiters and their fallbacks).   *)
THEOREM RefusalsEarned == LimitsSpec => RefusedOnlyWhenFull
<1>1. LimitsIInv /\ [LimitsNext]_limitVars =>
        [\A k \in Keys :
           ~ (asked'[k] \subseteq asked[k]) /\ granted'[k] = granted[k]
             => Cardinality(InWindow(asked[k], tick)) >= LimitOf(k)]_limitVars
  <2> SUFFICES ASSUME LimitsIInv, LimitsNext, NEW k \in Keys,
                      ~ (asked'[k] \subseteq asked[k]), granted'[k] = granted[k]
               PROVE  Cardinality(InWindow(asked[k], tick)) >= LimitOf(k)
    OBVIOUS
  <2>1. ~Pass
    BY DEF Pass, InWindow
  <2>2. QED
    BY <2>1, RefusedStep
<1>2. QED
  BY LimitsIInvInit, LimitsIInvStep, <1>1, PTL DEF LimitsSpec, RefusedOnlyWhenFull
=============================================================================
