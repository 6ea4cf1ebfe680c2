--------------------------- MODULE SceneAnalysis ---------------------------
(***************************************************************************)
(* Starting a session from one uploaded image.  The result of the scene    *)
(* analysis is cached in a row, and may be computed by a queued job:       *)
(*                                                                         *)
(*   start                  src/api/modules/session_engine/agent.py        *)
(*   the row                src/api/db/scene_analysis_db.py                *)
(*   the queue and the job  src/api/tasks/image_analysis.py,               *)
(*                          src/api/integrations/queue/redis.py            *)
(*   the polling client     src/frontend/src/services/practiceApi.ts,      *)
(*                          src/frontend/src/services/mediaApi.ts          *)
(*                                                                         *)
(* Several clients (tabs of one learner) may start from the same image.    *)
(***************************************************************************)
EXTENDS Naturals

CONSTANTS
  Clients,        \* browsers that open a session from the image
  Columns,        \* the columns of a result
  Required,       \* those without which a row is no hit
  Words,          \* what a column may hold
  NoWord,         \* what it holds without a result: NULL, or an empty list
  Results,        \* what an analysis may find, column by column
  OldResult,      \* found under an earlier prompt version
  CacheEnabled,   \* scene_analysis_cache_enabled
  AsyncEnabled,   \* scene_analysis_async_enabled, in live mode
  MayFail,        \* may analyses fail and queues be away?
  MayBreak,       \* may processes end and databases fail?
  Restarts,       \* Restarts[c]: how often browser c may still start again, at
                  \* most MAX_START_ATTEMPTS_AFTER_PENDING
  Retries         \* Retries[c]: the retries of the jobs it queues

VARIABLES
  row,      \* the cache row of the image
  overwritten, \* history: a transaction has committed over a row that had
            \* changed since it loaded it
  client,   \* client[c]: the browser, and the start request it waits for
  job,      \* job[<<c, n>>]: what the n-th start of client c has queued
  tx        \* tx[w]: what writer w has loaded of the row

rowVars == <<row, overwritten>>
vars == <<rowVars, client, job, tx>>

Jobs == UNION {{c} \X (0..Restarts[c]) : c \in Clients}
Writers == Clients \cup Jobs

ASSUME SceneAssumption ==
  /\ {CacheEnabled, AsyncEnabled, MayFail, MayBreak} \subseteq BOOLEAN
  /\ {Restarts, Retries} \subseteq [Clients -> Nat]
  /\ Clients \cap Jobs = {}

Value == Words \cup {NoWord}
Result == [Columns -> Value]
NoResult == [k \in Columns |-> NoWord]

(* A result has all that a hit requires; of the rest it may have nothing.  *)
ASSUME ResultsAssumption ==
  /\ Required \subseteq Columns /\ NoWord \notin Words
  /\ Results \subseteq Result /\ OldResult \in Result
  /\ \A found \in Results, k \in Required : found[k] # NoWord

(* The error code of a failed row is what the browser shows, no more.      *)
Row == [status : {"none", "pending", "ready", "failed"}, version : {"none", "old", "now"},
        result : Result]

NoRow == [status |-> "none", version |-> "none", result |-> NoResult]
Pending == [status |-> "pending", version |-> "now", result |-> NoResult]
Failed == [status |-> "failed", version |-> "now", result |-> NoResult]
Ready(found) == [status |-> "ready", version |-> "now", result |-> found]
OldRow == [status |-> "ready", version |-> "old", result |-> OldResult]

(***************************************************************************)
(* client: check, pending, queueing, recording, inline, storing are the    *)
(* steps of start; waiting is the polling of the browser.  In the end it   *)
(* has a session or an error message, whichever, or its start was cut off. *)
(***************************************************************************)
Inside == {"pending", "queueing", "recording", "inline", "storing"}
ClientEnds == {"created", "told", "broken"}
ClientPc == {"check", "waiting"} \cup Inside \cup ClientEnds

ClientState == [pc : ClientPc, restarts : Nat, found : Result]

(* A job that is done leaves no trace; a dead one has run out of retries.  *)
JobPc == {"none", "queued", "running", "saving", "dead"}
JobState == [pc : JobPc, left : Nat, want : Row]
NoJob(c) == [pc |-> "none", left |-> Retries[c], want |-> NoRow]

NoTx == [open |-> FALSE, loaded |-> NoRow]

Init ==
  /\ row \in {NoRow, OldRow}
  /\ overwritten = FALSE
  /\ client = [c \in Clients |-> [pc |-> "check", restarts |-> 0, found |-> NoResult]]
  /\ job = [j \in Jobs |-> NoJob(j[1])]
  /\ tx = [w \in Writers |-> NoTx]

-----------------------------------------------------------------------------
(* _upsert: the row is loaded, changed and written back in a transaction.  *)

Load(w) ==
  /\ ~tx[w].open
  /\ tx' = [tx EXCEPT ![w] = [open |-> TRUE, loaded |-> row]]
  /\ UNCHANGED rowVars

(* Another transaction has inserted the row since this one looked for it.  *)
InsertRefused(w) == tx[w].open /\ tx[w].loaded = NoRow /\ row # NoRow

(* An UPDATE names the columns that differ from what was loaded.           *)
Updated(current, loaded, want) == IF want = loaded THEN current ELSE want

UpdatedRow(loaded, want) ==
  [status  |-> Updated(row.status, loaded.status, want.status),
   version |-> Updated(row.version, loaded.version, want.version),
   result  |-> [k \in Columns |->
                  Updated(row.result[k], loaded.result[k], want.result[k])]]

Commit(w, want) ==
  /\ tx[w].open /\ ~InsertRefused(w)
  /\ row' = IF tx[w].loaded = NoRow THEN want ELSE UpdatedRow(tx[w].loaded, want)
  /\ overwritten' = (overwritten \/ row # tx[w].loaded)
  /\ tx' = [tx EXCEPT ![w] = NoTx]

Abort(w) == tx' = [tx EXCEPT ![w] = NoTx] /\ UNCHANGED rowVars

-----------------------------------------------------------------------------
ClientGoes(c, from, to) ==
  /\ client[c].pc = from
  /\ client' = [client EXCEPT ![c].pc = to]

(* A slip: a row is trusted whatever it holds.                             *)
TrustReady == CacheEnabled /\ row.status = "ready" /\ row.version = "now"

(* A row that lost a column which a result must have counts as a miss.     *)
CacheHit ==
  /\ CacheEnabled /\ row.status = "ready" /\ row.version = "now"
  /\ \A k \in Required : row.result[k] # NoWord

StartHits(c) ==
  /\ client[c].pc = "check"
  /\ CacheHit
  /\ client' = [client EXCEPT ![c].pc = "created", ![c].found = row.result]
  /\ UNCHANGED <<rowVars, job, tx>>

StartMisses(c) ==
  /\ ClientGoes(c, "check", IF AsyncEnabled THEN "pending" ELSE "inline")
  /\ ~CacheHit
  /\ UNCHANGED <<rowVars, job, tx>>

(* The rows that a start writes, by the step it is at.                     *)
StartLoads(c) ==
  /\ client[c].pc \in {"pending", "recording", "storing"}
  /\ Load(c)
  /\ UNCHANGED <<client, job>>

SavePending(c) ==
  /\ ClientGoes(c, "pending", "queueing")
  /\ Commit(c, Pending)
  /\ UNCHANGED job

(* The job is queued: 202, and the client polls unless it is tired of it.  *)
Enqueue(c) ==
  /\ ClientGoes(c, "queueing", IF client[c].restarts = Restarts[c] THEN "told" ELSE "waiting")
  /\ job' = [job EXCEPT ![<<c, client[c].restarts>>].pc = "queued"]
  /\ UNCHANGED <<rowVars, tx>>

(* A slip: the analysis is done at once and the row left pending.          *)
SkipQueueFailure(c) ==
  /\ MayFail
  /\ ClientGoes(c, "queueing", "inline")
  /\ UNCHANGED <<rowVars, job, tx>>

(* The queue is away.  The job may have reached it all the same.           *)
EnqueueFails(c) ==
  /\ MayFail
  /\ ClientGoes(c, "queueing", "recording")
  /\ \E lost \in BOOLEAN :
       job' = IF lost THEN job ELSE [job EXCEPT ![<<c, client[c].restarts>>].pc = "queued"]
  /\ UNCHANGED <<rowVars, tx>>

SaveQueueFailure(c) ==
  /\ ClientGoes(c, "recording", "inline")
  /\ Commit(c, Failed)
  /\ UNCHANGED job

AnalyzeInline(c) ==
  /\ client[c].pc = "inline"
  /\ \E found \in Results :
       client' = [client EXCEPT ![c].pc = IF CacheEnabled THEN "storing" ELSE "created",
                                ![c].found = found]
  /\ UNCHANGED <<rowVars, job, tx>>

InlineFails(c) ==
  /\ MayFail
  /\ ClientGoes(c, "inline", "told")
  /\ UNCHANGED <<rowVars, job, tx>>

StoreInline(c) ==
  /\ ClientGoes(c, "storing", "created")
  /\ Commit(c, Ready(client[c].found))
  /\ UNCHANGED job

(* The insert is refused and nobody catches the IntegrityError.            *)
StartConflicts(c) ==
  /\ client[c].pc \in {"pending", "recording", "storing"}
  /\ InsertRefused(c)
  /\ client' = [client EXCEPT ![c].pc = "told", ![c].found = NoResult]
  /\ Abort(c)
  /\ UNCHANGED job

StartBreaks(c) ==
  /\ MayBreak
  /\ client[c].pc \in Inside
  /\ client' = [client EXCEPT ![c].pc = "broken", ![c].found = NoResult]
  /\ Abort(c)
  /\ UNCHANGED job

(* The browser asks for the status: ready, and it starts once more; failed, *)
(* and it is told why.                                                     *)
PollReady(c) ==
  /\ client[c].pc = "waiting"
  /\ row.status = "ready"
  /\ client' = [client EXCEPT ![c].pc = "check", ![c].restarts = @ + 1]
  /\ UNCHANGED <<rowVars, job, tx>>

PollFailed(c) ==
  /\ ClientGoes(c, "waiting", "told")
  /\ row.status = "failed"
  /\ UNCHANGED <<rowVars, job, tx>>

PollTimesOut(c) ==
  /\ ClientGoes(c, "waiting", "told")
  /\ UNCHANGED <<rowVars, job, tx>>

-----------------------------------------------------------------------------
JobGoes(j, from, to) ==
  /\ job[j].pc = from
  /\ job' = [job EXCEPT ![j].pc = to]

WorkerTakes(j) ==
  /\ JobGoes(j, "queued", "running")
  /\ UNCHANGED <<rowVars, client, tx>>

(* RQ puts a job that raised back into the queue while it has retries.     *)
Retried(state) ==
  IF state.left > 0
    THEN [state EXCEPT !.pc = "queued", !.left = @ - 1, !.want = NoRow]
    ELSE [state EXCEPT !.pc = "dead", !.want = NoRow]

(* The media row or its signed address cannot be had: nothing is recorded. *)
JobUnreadable(j) ==
  /\ MayFail
  /\ job[j].pc = "running"
  /\ job' = [job EXCEPT ![j] = Retried(@)]
  /\ UNCHANGED <<rowVars, client, tx>>

JobAnalyses(j) ==
  /\ job[j].pc = "running"
  /\ \E want \in {Ready(found) : found \in Results} \cup (IF MayFail THEN {Failed} ELSE {}) :
       job' = [job EXCEPT ![j].pc = "saving", ![j].want = want]
  /\ UNCHANGED <<rowVars, client, tx>>

JobLoads(j) ==
  /\ job[j].pc = "saving"
  /\ Load(j)
  /\ UNCHANGED <<client, job>>

(* A job that has failed is tried again if the image was not unsupported.  *)
Again(j) == IF job[j].want = Failed /\ job[j].left > 0 THEN BOOLEAN ELSE {FALSE}

(* A slip: a failure is raised for the retry and not recorded.             *)
JobSavesResultOnly(j) ==
  /\ job[j].pc = "saving"
  /\ IF job[j].want.status = "ready" THEN Commit(j, job[j].want) ELSE Abort(j)
  /\ \E again \in Again(j) : job' = [job EXCEPT ![j] = IF again THEN Retried(@) ELSE NoJob(j[1])]
  /\ UNCHANGED client

(* A failure is recorded, and raised again for the queue to see.           *)
JobSaves(j) ==
  /\ job[j].pc = "saving"
  /\ Commit(j, job[j].want)
  /\ \E again \in Again(j) : job' = [job EXCEPT ![j] = IF again THEN Retried(@) ELSE NoJob(j[1])]
  /\ UNCHANGED client

JobBreaks(j) ==
  /\ MayBreak
  /\ job[j].pc \in {"running", "saving"}
  /\ job' = [job EXCEPT ![j] = Retried(@)]
  /\ Abort(j)
  /\ UNCHANGED client

-----------------------------------------------------------------------------
StartProgress(c) ==
  \/ StartHits(c) \/ StartMisses(c) \/ StartLoads(c) \/ SavePending(c)
  \/ Enqueue(c) \/ EnqueueFails(c) \/ SaveQueueFailure(c)
  \/ AnalyzeInline(c) \/ InlineFails(c) \/ StoreInline(c) \/ StartConflicts(c)

Poll(c) == PollReady(c) \/ PollFailed(c)

JobProgress(j) ==
  WorkerTakes(j) \/ JobUnreadable(j) \/ JobAnalyses(j) \/ JobLoads(j) \/ JobSaves(j)

Quiet ==
  /\ \A c \in Clients : client[c].pc \in ClientEnds
  /\ \A j \in Jobs : job[j].pc \in {"none", "dead"}

Finished == Quiet /\ UNCHANGED vars

Next ==
  \/ \E c \in Clients : StartProgress(c) \/ Poll(c) \/ PollTimesOut(c) \/ StartBreaks(c)
  \/ \E j \in Jobs : JobProgress(j) \/ JobBreaks(j)
  \/ Finished

Spec == Init /\ [][Next]_vars

Fairness ==
  /\ \A c \in Clients : WF_vars(StartProgress(c) \/ Poll(c))
  /\ \A j \in Jobs : WF_vars(JobProgress(j))

FairSpec == Spec /\ Fairness

-----------------------------------------------------------------------------
SceneTypeOK ==
  /\ row \in Row /\ overwritten \in BOOLEAN
  /\ client \in [Clients -> ClientState]
  /\ \A c \in Clients : client[c].restarts <= Restarts[c]
  /\ job \in [Jobs -> JobState]
  /\ tx \in [Writers -> [open : BOOLEAN, loaded : Row]]

(* Where a pending row is on its way to another status.                    *)
StartAtWork == \E c \in Clients : client[c].pc \in {"queueing", "recording"}
JobAtWork == \E j \in Jobs : job[j].pc \in {"queued", "running", "saving"}
Interrupted ==
  \/ \E c \in Clients : client[c].pc = "broken"
  \/ \E j \in Jobs : job[j].pc = "dead"

(* A row that says pending has someone who will change it: a start between *)
(* the save of that row and the queue, or a job.  All others that wrote    *)
(* columns of it meanwhile make no difference.  Only what was interrupted  *)
(* leaves a row pending.                                                   *)
PendingHasOwner == row.status = "pending" => StartAtWork \/ JobAtWork \/ Interrupted

(* Each column of a row of this version holds what some analysis found, or *)
(* nothing.  The row as a whole is what one writer meant it to be, unless  *)
(* one has committed over a change that it had not seen.                   *)
FoundIn(k) == {found[k] : found \in Results}

WholeRows == {NoRow, OldRow, Pending, Failed} \cup {Ready(found) : found \in Results}

WholeUnlessOverwritten == row \in WholeRows \/ overwritten

(* Why a pending row has an owner: a job has a slot of its own,            *)
(* transactions are open only where rows are written, a row that is there  *)
(* stays and has nothing of the old result under the new version, and      *)
(* whoever is to settle a pending row has not loaded the very status that  *)
(* it is going to write.                                                   *)
SlotsFree ==
  \A c \in Clients :
    /\ client[c].pc = "waiting" => client[c].restarts < Restarts[c]
    /\ \A n \in 0..Restarts[c] :
         \/ n > client[c].restarts
         \/ n = client[c].restarts /\ client[c].pc \in {"check", "pending", "queueing"}
         => job[<<c, n>>].pc = "none"

TxWhereWritten ==
  /\ \A c \in Clients : tx[c].open => client[c].pc \in {"pending", "recording", "storing"}
  /\ \A j \in Jobs : tx[j].open => job[j].pc = "saving"

Sound(r) ==
  \/ r \in {NoRow, OldRow}
  \/ /\ r.version = "now" /\ r.status # "none"
     /\ \A k \in Columns : r.result[k] \in FoundIn(k) \cup {NoWord}

RowsSound ==
  /\ Sound(row)
  /\ \A w \in Writers : tx[w].open =>
       /\ Sound(tx[w].loaded)
       /\ tx[w].loaded # NoRow => row # NoRow
       /\ tx[w].loaded.version = "now" => row.version = "now"
  /\ \A c \in Clients : client[c].pc \in {"queueing", "recording"} =>
       row # NoRow /\ (tx[c].open => tx[c].loaded # NoRow)
  /\ \A j \in Jobs : job[j].pc \in {"queued", "running", "saving"} =>
       row # NoRow /\ (tx[j].open => tx[j].loaded # NoRow)

ResultsFound ==
  /\ \A c \in Clients : client[c].pc = "storing" => client[c].found \in Results
  /\ \A j \in Jobs : job[j].pc = "saving" =>
       job[j].want \in {Ready(found) : found \in Results} \cup {Failed}

Settles(w, status) == tx[w].open => tx[w].loaded.status # status

PendingSettled ==
  row.status = "pending" =>
    \/ \E c \in Clients : client[c].pc = "queueing"
    \/ \E c \in Clients : client[c].pc = "recording" /\ Settles(c, "failed")
    \/ \E j \in Jobs : job[j].pc \in {"queued", "running"}
    \/ \E j \in Jobs : job[j].pc = "saving" /\ Settles(j, job[j].want.status)
    \/ Interrupted

(* What the runs check of the row and of who works at it.                  *)
SceneInv ==
  /\ SceneTypeOK /\ PendingHasOwner /\ WholeUnlessOverwritten
  /\ SlotsFree /\ TxWhereWritten /\ RowsSound /\ ResultsFound /\ PendingSettled

(* What a session is created from was found under the present version of   *)
(* the prompts, column by column, and has all that a result must have; and *)
(* it is the one result of one analysis unless a writer of the row has     *)
(* committed over a change that it had not seen: then a column may be      *)
(* another result's, and one that a hit does not require may be empty      *)
(* (_load_cached_scene_analysis, _upsert).                                 *)
CreatedFromResult ==
  \A c \in Clients : client[c].pc = "created" =>
    /\ \A k \in Columns :
         \/ client[c].found[k] \in FoundIn(k)
         \/ client[c].found[k] = NoWord /\ k \notin Required
    /\ client[c].found \in Results \/ overwritten

(* A row does not stay pending: a client that polls sees an end.           *)
PendingResolved == (row.status = "pending") ~> (row.status # "pending" \/ Interrupted)

-----------------------------------------------------------------------------
(* What the documents say and the code does not keep.                      *)

(* A row that says ready carries the whole result (docstring of            *)
(* src/api/db/scene_analysis_db.py).                                       *)
ReadyIsComplete ==
  row.status = "ready" => \A k \in Required : row.result[k] # NoWord

(* A job that has run out of retries has recorded its failure             *)
(* (docs/features/scene_analysis_caching/feature.md).                      *)
FailuresRecorded == \A j \in Jobs : job[j].pc = "dead" => row.status = "failed"
=============================================================================
