# EchoWhale: a verification project

EchoWhale lets a learner practise spoken English against a picture: a session is started from
an analysed image, the learner writes or speaks, a coach answers, a second model gives
feedback, and a review card sums the turn up. The back end is an asyncio FastAPI service over
PostgreSQL and Redis with a worker for image analysis; the front end is a React application
that speaks to Deepgram for voice.

The modules in this directory model the service's own logic, that is, what several requests in
progress at once do to the rows of one session, and check and prove what the code promises
about them. Line numbers refer to files under `src/`.

## 1. Inventory

Each part with its state (S), its operations (O), how it meets the others (I), what is hard
about it (H) and what makes it correct (C).

**Session store**, `api/db/session_db.py`.
S: rows of `sessions`, `session_messages`, `session_reviews`, `voice_session_facts`,
`session_events`. O: `save_session`, `save_reply_turn`, `finalize_voice_session`,
`save_voice_session_fact`, reads. I: called by every request; each call opens transactions of
its own. H: READ COMMITTED; `max(position)` is read and used later; an early flush holds the
row lock; SQLAlchemy writes only columns that changed since they were loaded, so that a row can
become a mixture no turn has written; a retry after an `IntegrityError`. C: the history grows by
whole turns without gaps; session, review and fact rows come from turns that committed, a review
from one of them.

**Text reply**, `api/modules/orchestration/reply_flow.py`, `review_branch.py`,
`failure_policy.py`.
S: none beyond the coroutine. O: `run_reply_turn`, `stream_reply_turn`. I: coach and feedback
models run together, then the review, then the save, then the profile. H: which failure gives
the turn up and which only degrades it; errors after the commit; a streaming client that
leaves. C: what the client is told agrees with what is stored; a turn without a review copy
leaves the display names alone.

**Voice conversation**, `api/modules/orchestration/voice_flow.py`,
`api/modules/session_engine/agent.py`, `api/routes/v1/deepgram.py`.
S: the voice fact (status, token generation). O: bootstrap, closeout, the token check of the
think proxy. I: Deepgram calls back into the proxy with the token. H: two bootstraps at once; a
closeout that straddles a bootstrap; a transcript sent twice. C: a replaced token is refused;
the transcript is stored once.

**Learner profile**, `api/modules/orchestration/profile_branch.py`,
`api/modules/session_engine/learner_profile.py`, `api/db/learner_profile_db.py`.
S: one row per signed-in user. O: read, apply a turn, replace. H: read and write are separate
transactions, and the write names only the columns that changed. C: only stored turns count; the
counters stay within their caps and are exact while turns do not overlap.

**Session start and scene analysis**, `agent.py` (`start`), `api/tasks/image_analysis.py`,
`api/db/scene_analysis_db.py`, `api/integrations/queue/redis.py`.
S: one cache row per image; the queue. O: start (hit, dispatch, inline), the worker task and
its retries. I: the browser (`practiceApi.ts`, `mediaApi.ts`) starts, polls the status and
starts again. H: every writer loads the row and writes the columns that changed; a late failure
after a result; a queue that is away. C: a pending row has someone who will change it; a session
is created from a result.

**Account sessions**, `api/services/auth_service.py`, `api/db/auth_db.py`.
S: users, password hashes, refresh tokens, one-time tokens. O: register, login, refresh,
logout, verify, forgot, reset. I: many requests of one account at once; cookies and mailed links
bring back what was issued. H: an operation is several transactions; rows are looked up, then
claimed by an UPDATE that names the state it expects and may wait for a lock. C: a refresh token
and a reset link are redeemed once, while they are good; a login has one good refresh token until
it is revoked; a concurrent login does not undo a reset. Which sessions outlive a reset that they
overlap is a question of policy the code does not answer, and no property asks it.

**E-mail codes**, `api/services/email_verification_store.py`, `auth_mailer.py`,
`api/tasks/auth_mail_tasks.py`.
S: code, remaining attempts, cooldowns, daily counts, in memory or on Redis. O: issue, consume;
register, resend and verify on top of them. I: the mail is queued after the row and the code, and
nothing is given back when it fails. H: on Redis every command is a step; a refusal gives back the
cooldowns it took; a guess writes the payload back that it has read. C: attempts and daily limits
hold; a code that opens an account is the last one saved; a refusal leaves nothing behind.

**Rate limiters**, `api/services/llm_rate_limit.py`, `auth_rate_limit.py`,
`rate_limit_window.py`. S: a bounded table of sliding windows, or Redis keys of fixed ones. O:
consume. I: in front of every model call, upload and account route; an anonymous visitor counts
twice, under its cookie and under its address. H: eviction, loss of Redis or of its answer, the
edge of a window. C: the bound on requests per window; nobody is refused who has not asked.

**Model calls**, `api/integrations/llm/`. S: none between calls; usage rows. O: attempts over two
providers with backoff and a deadline; a stream that may not change provider once it is open.
I: every engine. H: which errors are tried again, which error is told in the end; the deadline is
looked at between attempts only; an answer may turn out useless before its usage is recorded or
after. C: bounded attempts and time; no text twice; nobody gives up early; what was paid for is
recorded, unless it came without choices.

**Readers of event streams**, `api/integrations/llm/streaming.py`,
`frontend/src/services/sessionApi.ts`. S: a buffer. O: read a chunk, take a frame, end. H: chunks
end inside frames and inside characters; connections end early. C: events as they were sent; an
answer counts only when it is whole.

**Media upload**, `api/services/media_service.py`, `api/common/middleware.py`,
`api/common/deps.py`. S: the object, its row, the visitor's cookie. O: upload; the gate on the
body's size. H: the object first, then the row; a body without a length is counted while it is
parsed; a first upload has no owner yet. C: a row always has its object; nothing too large is
kept; what a browser was told of it can read.

**Voice agent in the browser**, `frontend/src/hooks/useDeepgramVoiceAgent.ts`,
`pages/PracticeSessionPage.tsx`. S: refs shared by all connections of a page. O: start, the
socket's events, capture, playback, timers, end, cleanup. H: callbacks of a connection that is
already closed; cleanups that overlap; the page left at any await. C: one conversation per
transcript; what was interrupted stays silent; nothing runs on behind a page that was left.

**Account client**, `frontend/src/services/authApi.ts`, `apiClient.ts`, `auth/AuthProvider.tsx`.
S: an access token per tab, one cookie for all. O: the refresh of the mount, a refused call with
the refresh it shares, login, logout. H: refreshes of several tabs overlap, answers get lost. C:
the login is kept; a waiting call has somebody to wait for.

**Think proxy**, `api/routes/v1/deepgram.py`. S: the limiter's count per session. O: one request:
token, body, quota, session, fact, the model, its answer or stream. H: the two queries straddle
bootstraps and closeouts; every way out must release the upstream. C: a replaced token never
reaches the model; a flood stops before the database.

**Practice history**, `frontend/src/pages/HistoryPage.tsx`, `api/routes/v1/history.py`,
`session_db.py`. S: the list and the replay on the page. O: keyset pages of sessions, pages of
messages, selection. H: sessions move while they are paged through; pages arrive late. C: nothing
that stood still is skipped or repeated; a replay is one unbroken stretch of one session.

**Evaluation benches**, `evaluation.py` of the coach, feedback, review and scene engines.
S: the output file with a row per sample. O: hard rules, a judge, the rewriting of the file after
every sample, or side by side and once at the end. I: the engines' model calls. H: one sample of
many fails or its judge does; a batch is killed between two rows or inside a rewrite. C: no failed
sample passes; a row is its sample's; the file keeps the rows of the samples that are done.

Prompts, parsers, telemetry, migrations, contracts and pages keep no state between calls that the
rest depends on. They are not modelled, or appear as choices of their
caller (a model call succeeds or fails).

## 2. Modules

| Module | Models |
|---|---|
| `TurnLog` | the promise: a history that grows by whole blocks, one per request |
| `TranscriptMerge` | `build_voice_messages`, `find_tail_overlap`, as operators |
| `SessionStore` | the rows and the transactions of `session_db.py` |
| `ProfileRow` | the profile row and the two halves of its update |
| `ReplyTurns` | `run_reply_turn` and the retry loop of `save_reply_turn` |
| `VoiceSessions` | bootstrap, closeout, the token check |
| `SessionService` | all of them together on one session; the properties |
| `ReplyStreams` | `stream_reply_turn` with its tasks, under `_reply_sse_events` |
| `SceneAnalysis` | `start` from an image, the cache row, the queue and its job, the polling browser |
| `AccountSessions` | login, refresh, logout, the reset link and its use, on the rows of one account |
| `EmailCodes` | registration, resending, verification; the code store in memory and on Redis |
| `RateLimits` | the tables of the processes, the counters on Redis, the fallback |
| `ModelCalls` | `run_llm_with_failover`, the engines' chains, the usage rows |
| `StreamFrames` | the two readers of event streams |
| `LearnerProfile` | `apply_turn_to_profile` and the row's two transactions, column by column |
| `HistoryPages` | the history page, its requests, the two page queries |
| `MediaUpload` | the body gate, the visitor's cookie, the object and its row |
| `VoiceAgent` | the hook and the two handlers of the practice page |
| `ThinkProxy` | `proxy_deepgram_think_chat_completions` beside bootstraps and closeouts |
| `AuthClient` | `AuthProvider`, `authApi` and `apiClient` in several tabs |
| `Evaluation` | the four benches, their judges and their files |
| `Enumeration` | sorting, for `HistoryPages` and `LearnerProfile` |
| `SessionServiceMC`, `ReplyStreamsMC`, `SceneAnalysisMC` | the instances TLC checks |
| `CastsMC` | the requests that meet in `closeouts` |
| `AccountsMC`, `StreamsMC`, `SceneMC`, `VoiceMC` | runs that check several modules side by side |
| `SessionServiceProofs` | theorems on `SessionService`, `TranscriptMerge` |
| `AccountProofs` | theorems on `AccountSessions`, `AuthClient`, `EmailCodes` |
| `StreamProofs` | theorems on `ReplyStreams`, `ModelCalls`, `StreamFrames` |
| `LearnerProofs` | theorems on `LearnerProfile` |
| `PracticeProofs` | theorems on `HistoryPages`, `Evaluation` |
| `PictureProofs` | theorems on `SceneAnalysis`, `MediaUpload`, `RateLimits` |
| `VoiceProofs` | theorems on `ThinkProxy`, `VoiceAgent` |
| `Induction` | lemmas the proofs share: first elements, induction, sorted enumerations |

`ProfileRow` extends `SessionStore`; `ReplyTurns` and `VoiceSessions` extend `ProfileRow`;
`SessionService` extends both and relates to `TurnLog` through a refinement mapping.
`ReplyStreams` extends `ReplyTurns`: a streamed turn is generated differently and saved by the
same steps. The modules of the second half of the table stand by themselves.

Four MC modules put several modules into one run: a variable `part` is chosen at the
start, and from then on only that module's variables move. The modules share no state, so the
behaviours of the run are those of the modules one by one, each with the initial values of the
others; TLC checks the sum of their state spaces, not the product. `SceneMC` has two instances of
`SceneAnalysis` among its parts, one for the failures and one for results that differ, and `CastsMC`
chooses in the same way which requests of a session meet (`scenario`). Where one of them stands for
something another has in detail (a bootstrap is one step in `ThinkProxy`, a model call a choice in
`ReplyStreams`, a refresh on the server one step in `AuthClient`) the coarse step is what the
detailed module comes to at its commit.

### State and actions

* `messages` is a function from positions to messages. The function itself expresses
  the unique constraint: a transaction that would write a taken position is not enabled to
  commit (`PositionTaken`), and what happens instead is `RetrySave`, `GiveUpSave` or
  `CloseoutConflicts`. A message is its role, its text and the turn that added it. The turn is
  not in the row; the properties need it.
* `head` is the session row as far as turns change it: the turn its display names come from and
  the turn its `updated_at` comes from. Stamps are abstracted to turns, no property compares
  two stamps.
* A transaction is a `Load...` step that records in `tx` what it read and a `Commit...` step
  that applies its writes to the rows as they are by then. The reads of one `Load` step are
  separate statements in the code and may see different commits. That adds nothing for what is
  checked: a turn that commits between the read of `max(position)` and a later read has taken
  the position, so the transaction fails whatever its later read saw; a turn that commits
  between the read of the session row and that of `max(position)` is a different matter, since
  the closeout compares with the row it loaded, and there the model has separate steps
  (`LoadHead`, `FlushHead`, `LoadFinalize`). A reply never writes back what it read of the
  session row. A closeout with no new line is refused by no position, and its reads of the
  review and the fact are one step with the read of `max(position)`.
* `Unless` is SQLAlchemy's rule that an UPDATE leaves out columns whose new value equals the
  loaded one. It decides what a stale snapshot can overwrite, in the session row, in the voice fact
  and in the review.
* `review` has the columns in which reviews differ (`ReviewRow`; the title is always the same).
  `BuiltReview` is `build_session_review`: with a copy of the model, highlight and next try are the
  turn's own; without one the next try is the scene's fixed text and the highlight quotes the
  learner's latest line, so that both may well equal what was loaded. Feedback is the model's or the
  placeholder. `UpdatedReview` writes the columns that differ. Two turns that append messages exclude
  each other by the position, but a closeout whose transcript is stored already appends nothing, is
  refused by nobody, and can leave a review with the highlight of one turn beside the feedback of
  another: that mixture occurs (a reply and such a closeout, both without a copy), and
  `MixedOnlyBySilence` says there is no other.
* `rowLock` is the lock on the session row that the closeout's flush takes and holds until it
  commits. Commits of replies and of other closeouts wait for it. Locks taken during a commit
  are not visible as states. A deadlock, which PostgreSQL resolves by aborting one of the
  transactions, is covered by `ReplyFails` and `CloseoutFails`, which roll back at any point.
* `GenerateReply` stands for coach, feedback and review together: what reaches the store is whether
  the feedback is a placeholder and whether there is a review copy. A failed feedback means no copy;
  a failed review means none.
* A reply whose transaction has committed may still end in `lost`: the acknowledgement of the
  commit, or `get_session` after it, can fail, and a server can stop.
* `MintToken` reads the fact and computes the generation, `OpenSaveFact` and `SaveFact` store
  it: three moments, as in `bootstrap_voice_session`. `Accepts` is the check of the proxy.
  Expiry only ever refuses more and is left out.
* `revoked`, `crossed` and `stored` are history variables. `crossed` becomes true when a commit
  writes a generation that was worked out from another than the one it replaces: a bootstrap's that
  is not one more, a closeout's that is not the same.
* `stream[r]` is where the coroutine of a stream is, the states of its feedback and review
  tasks and of the coach's response, what has been sent, and whether the client is still there.
  A client that leaves while the coroutine awaits cancels it there and again at every later
  await (the response runs in a task group whose scope stays cancelled); one that leaves while
  the generator is suspended at a yield has it closed by the event loop, in a task nobody
  cancels. The difference decides whether the `finally` clause reaches its last line:
  `CloseInterrupted` stops at the `await` of `aclose()`. It does no harm because a coach stream
  that is being read closes itself when it is cancelled (`HttpxTextStream.aiter_deltas`), so
  that this `await` does not suspend once there is a review task to cancel; the mutant in which
  it does not leaves a task behind.

`SceneAnalysis` stands by itself: a session exists only once `start` has ended.

* `row` is the cache row of one image. Its result is a function on `Columns`; `Required` are those
  a row must have to count as a hit, `NoWord` is what a column holds without a result. `Load` and
  `Commit` are the two halves of `_upsert`; `Commit` writes each column in which the wanted row
  differs from the loaded one over the row as it is by then (`UpdatedRow`). `overwritten` (history)
  says that a commit went over a row which had changed since it was loaded. When two writers found no
  row, the second insert is refused (`InsertRefused`); nobody catches the error and the second tab's
  start ends in a 500 (`StartConflicts`).
* The prompt version is one ("now") while the model runs; at first there is no row, or a ready one
  of an older version. A failed row arises from a start or a job.
* `client[c]` goes through `start` up to `Restarts[c] + 1` times, as `createPracticeSession`
  does; `job[<<c, n>>]` is what its n-th start queued. `EnqueueFails` may leave the job in the
  queue: the call can fail after Redis has taken it. `PollTimesOut` is always possible; a poll
  that fails is a poll that did not happen. Which message the browser shows in the end ("told")
  depends on the error code; no property does, and the column is left out.
* `Retried` is RQ's rule: a job that raised, or whose worker was lost, is queued again while it
  has retries.

What overlapping writers can leave is part of the properties. A row may mix the columns of two
results, or of a result and of nothing, and a session may be created from such a row:
`CreatedFromResult` says that each of its columns was found by some analysis under the present
version, that none a hit requires is missing, and that it is one result as a whole unless a writer
has overwritten what it had not seen. A ready row that lacks a required column counts as a miss
(`CacheHit`), is told to the browser as ready, and is resolved by the browser's next start while it
has one left (`ReadyIsComplete`, section 5).

Two consequences a reader may not expect. Two tabs can use up each other's restarts although
nothing fails: each start that finds the row pending saves pending again and queues one more
job, and the row may be pending again when the other tab comes back. And with the queue switched
on and the cache switched off every start is a miss, so that a client that polls never gets its
session; `SceneAnalysis` is parameterised by both switches, the runs have both on.

`AccountSessions` stands by itself too, and TLC checks it as it is.

* Refresh tokens and reset links have the same life, so they are rows of one kind: `item[q]` is
  what request q has issued, absent, good or spent (`revoked_at`, `consumed_at`). Nobody presents
  an item its issuer has not been answered with (`Known`). The table of requests has the local
  state of each: how far it is, what it presents, the rows its bulk UPDATE has found and the
  password its login has loaded.
* `Claim` is the UPDATE with the expected state in its WHERE clause, which under READ COMMITTED
  waits for the row's lock and then looks again; `lock` is held until the transaction commits
  (`Rotate`, `ConsumeLink`) or rolls back (`Fail`). A bulk UPDATE (`OpenBulk`, then `SaveLink` or
  `RevokeAll`) takes the rows that are good when it starts, waits for their locks and looks at
  each again; a row that becomes good later escapes it. Hence two requests for a link at once may
  leave two good links.
* `RevokeToken` and the bulk updates are a step each, with the commit: they hold their locks only
  while they run, and nothing they would make wait can be told apart from waiting a moment longer.
* Expiry is a choice of the look-up: a row may be refused for its age whenever it is presented.
* The account exists and is active. No operation takes that from it, so the checks that come after
  a row was redeemed always pass. `update_last_login` loads the credential row and writes the
  columns it has changed: `hash` is what it has loaded, and only the mutant writes it back.
* `chain`, `closed` and `redeemed` are history variables.

The modules that stand by themselves:

* `EmailCodes`. `code[e]` is the code of an address with the guesses it has left, `cooling` and
  `daily` the keys beside it. With the store in memory an operation is one step (a lock); on
  Redis each command is one (`TakeEmailKey`, `TakeIpKey`, `CheckCounts`, `SaveCode`;
  `GetCode`, `DeleteUsed`, `ReadTtl`, `WriteBack`). `crossed` marks codes whose payload one
  command has written after another had changed it: guesses then share an attempt and a deleted
  code can come back, which `CodeIsGood` leaves out and nothing else does. A request may end
  between any two steps (`Interrupt`), and what it has taken then stays taken. A cooldown does not
  run out while its holder is between two commands (`CooldownEnds`): a request that stalls for
  longer than the cooldown lasts is left out.
* `RateLimits`. `table[p]` is the `OrderedDict` of a process in its order and `times[p][k]` the
  list it holds for key `k`, as a set: uses of one tick differ by a number of their own, and the
  clock of a process does not run back. `counts` are the counters of the fixed windows. `UseTable`
  is `consume` of either limiter, which differ in what they leave of the times of a key that they
  refuse (`TimesAfter`). `FallbackSays` may have counted on Redis (the answer was lost). `Pass` is
  the clock. A visitor counts under its own key and then, in another step, under its address.
  `asked`, by which a refusal is judged, counts every request, also one that was refused, as the
  counters on Redis do.
* `ModelCalls`. Time passes in calls and sleeps. `ProviderCount` is how many
  `resolve_engine_providers` gives; `Exhaust` chooses the error that is told, the scene engine's
  by `_compose_scene_failures`. An answer of status 200 has its usage recorded once a content was
  taken out of it (`IsRecorded`), which fails for one without choices ("choiceless") and not for an
  empty, a garbled or an unfit one; `billed` counts what was paid for, and `BilledIsRecorded` that
  the ledger lacks those without choices and no other.
* `StreamFrames`. An event is a sequence of characters: its kind, its text, `end`, two newlines. A
  character has one byte or two (`Wide`) and a chunk is any prefix of the bytes that are unread,
  so that `split` says whether the first byte of the next character has come. `Decoded` is what a
  decoder makes of a chunk: the server's knows one chunk only and puts a replacement for half a
  character, the browser's keeps it (`stream: true`), and `Leftover` is its last flush.
* `LearnerProfile`. `GetProfile`, `LoadRecord` and `SaveRecord` are the two transactions, the
  second in its halves; `UpdatedRecord` writes the columns that differ from what was loaded. Two
  dictionaries that differ in their order are equal, so that a change of order alone is lost.
  The reference is `Tells`, which says what the row should say from the signals alone. The median
  takes the middle of the levels as `Enumerated` sorts them.
* `HistoryPages`. Keys are pairs of `updated_at` and id. `list` and `replay` are the page's state
  with the request of each effect; `more` holds requests for earlier messages, which no effect
  takes back. `Practise` is a turn in another tab. `Enumerated` (module `Enumeration`) is
  `ORDER BY` and `Without` is `filter`: each member at the place that the number of those before
  it gives.
* `MediaUpload`. Blocks of a body pass the gate one by one; `starts` counts answers begun.
* `VoiceAgent`. One record `voice` holds the refs; what runs between two awaits is an operator on
  it. Promises (`capture`, `cleaning`, `starting`, `ending`) say where each coroutine waits. Once the
  microphone is granted the capture succeeds: a rejection of `context.resume()` or of the creation of
  the processor (`useDeepgramVoiceAgent.ts:286-291`, `411-414`) is left out.
* `ThinkProxy`. A request goes through the checks in the order of the route, with the two queries
  as separate steps. The limiter is a plain count per session and fixed window, without the fallback
  that `RateLimits` models.
* `Evaluation`. A sample is what the rules read of it: which rules its answer breaks, what the judge
  says. `write_text` is two steps, one that empties the file and one that fills it; `Killed` may come
  between the two. The scene bench runs its samples side by side (`Concurrency`) and writes once;
  the others go one by one and rewrite the file each time. A judge that fails ends the scene bench
  and is noted in the row by the others.
* `AuthClient`. `inFlight` has at most one request of each kind per tab; what the server sets in
  the cookie takes effect when the answer reaches the browser, also in a tab closed meanwhile.
  A call may start in any tab that is open, also a visitor's, or while the refresh of the mount is
  under way: a 401 makes each of them ask for the shared refresh.
* `AccountSessions` again: a bulk UPDATE takes its locks in one step, so that two of them blocking
  each other, which PostgreSQL ends by aborting one, is seen only as a request that fails (`Fail`).

`OneAtATime` is an assumption about the client, not a guard of the server; `voice_retry` and
`lines_twice` set it for the property that a transcript is stored once. All other runs, and all
theorems but `RetriesAddNothing`, do without it.

## 3. Runs

| Run | Instance | Shows |
|---|---|---|
| `service` | 2 replies, 1 closeout | history properties, what turns carry between their transactions, what the retry absorbs, the profile, and the refinement of `TurnLog`, 736 280 states |
| `closeouts` | 1 reply and 2 closeouts, or 1 closeout and 2 bootstraps, of a visitor | session and review rows agree, a review is of one turn unless a silent closeout was stored; every request ends; a token that was replaced or closed stays refused, 491 289 states |
| `voice_retry` | 3 closeouts (one without a learner's line), 2 bootstraps, sequential client; or a page with 2 starts and 2 messages; or 2 calls through the proxy, 2 generations, 2 windows; or 2 visitors and an account before the limiters | no line twice; one conversation per transcript, silence after an interruption, a button that comes back; stale tokens never forwarded, the quota before the database, upstreams released; quotas, bounded tables and no undeserved refusal, 1 107 522 states |
| `streams` | 2 streamed replies, one piece of text each; or one call of each of 5 engines; or 4 scripts of events; or 3 turns of one learner; or 3 sessions paged; or 3 samples on a bench | no task left, events agree with rows, every stream ends; budgets, errors and usage records of a chain; events as sent; a profile exact unless turns overlap; no session overlooked, a replay unbroken; no failed sample passes, rows in order, the file kept, 663 549 states |
| `scene` | 2 tabs: one starts again once, the jobs of the other have one retry; anything may fail or break; or two results that differ in one column, and only the queue and the inline analysis fail; or 2 uploads | a pending row has an owner and does not stay pending; sessions come from one result, or from columns of results that overlapped; rows have objects, large bodies leave nothing, 598 053 states |
| `accounts` | 1 login, refresh, link and reset, with two of a second refresh, a logout, a second link; or registrations, resends and guesses for 2 addresses; or a browser with 2 calls | redeemed once and while good, one good token per login, a reset's password stays, row locks come free; codes, cooldowns, daily counts; the login is kept, 617 429 states |
| `names_lost`, `lines_twice`, `error_stored`, `mic_left_on`, `replay_mixed`, `estimate_torn` | smallest instance | the code departs from its comment (section 5) |

Bounds. Two appends race, and the third is what makes a retried save fail again: three turns
are the smallest number at which every branch of the retry loop is reached, and `service` has
three. Two bootstraps and one closeout give every order of the reads and writes
of the fact, and a write that crosses another (`crossed`) is among them. A silent closeout needs
another that has stored the transcript before, hence two closeouts beside the reply. Transcripts are the three lines of one conversation that starts with the
session's opening line: opener, question, answer, so that the opener rule and the overlap rule
both apply; `RetryAppendsNothing` covers the other lengths. `MaxDeltas` bounds the pieces of
text of a stream: one is enough to be suspended at a delta and to come back from it. In
the `failures` part of `scene` one of two tabs starts again once (the code: three times) and a job of the other has one
retry (the code: three). Three jobs and three starts give every pair of overlapping writers, a
failure recorded between two attempts, and a start that follows a ready row. The tabs are not
alike because both allowances for both would only repeat these at ten times the states. Where
results differ, `CafeAndBar` has two that share one column, so that a writer leaves out the column
they share: a session that is created from the scene of one result with the empty anchors of a
pending row occurs, and is what `overwritten` excuses in `CreatedFromResult`. It takes a queue that
fails, an inline analysis beside a job, and a start that comes back for the row. Breaks, retries and failing
jobs are switched off there and left to the other part.
In `accounts` two refreshes are a race for one token or a chain of two, and the logout or the
reset can come between any of their steps. A second refresh, the logout and a second link come
two at a time, since all three would only put more of the same races side by side; two uses of
one link go the same way (`Claim` is the same action) and are left to the theorem.

The modules beside them. `RateLimits`: limits of one and two with capacities of zero (read as one)
and two, one window and its edge; that fills a table, evicts from it, and lets two fixed windows
meet. `EmailCodes`: one code a day and two guesses, so that the last attempt and the last of the
day are raced for; `Casts` names the requests that are tried together. `ModelCalls`: one retry, a
backoff of one, calls of up to two against a deadline of three, so that the deadline falls inside
a call, inside a backoff and between. `StreamFrames`: scripts of two or three events, with a
two-byte character in text and at an end. `LearnerProfile`: three turns, four signals, a cap of
two scenes and a window of three, behind an empty past and one that has filled both.
`HistoryPages`: three sessions in pages of one, replays in pages of two, two turns meanwhile and
four requests; a session moves across the cursor in both directions of time, and a page of another
session, or of an earlier showing of the same one, arrives. `MediaUpload`: bodies of up to one
block over the limit. `VoiceAgent`: two starts give overlapping connections; two messages an
interruption between chunks. `ThinkProxy`: a quota of one, two windows and two generations.
`AuthClient`: one tab in use and one that is loaded beside it, two tokens, one lost answer.
`Evaluation`: three samples for two places, the rules' numbers at their bounds, so that one sample
waits for a place and the first may be the last to end.

Fairness. `closeouts` assumes weak fairness of the steps a reply or a closeout takes by itself, one
formula per request: the event loop runs every coroutine that is ready, queries return or raise,
model calls have timeouts. It is assumed in a scenario of its own (`ends`), with the same three
requests whose feedback does not degrade, since what a review says stops nobody. `streams` assumes the same of the coroutine of a stream and of its feedback
and review tasks; `scene` of the steps of each start, of the polling of each browser and of each
job, whom a worker takes in the end (in the `failures` part, where `PendingEnds` asks that a row
does not stay pending); `accounts` of the steps of a request that has started, each
request by itself, and of no request's start. The modules checked beside
them have no liveness property in these runs and no fairness. Failures are not fair, they only may
happen. The row lock makes this more
than a count of steps: a commit waits until the closeout that holds the lock commits or is
rolled back, and the mutant that forgets the rollback breaks the property.

Every property of a passing run has a mutant, a plausible slip defined next to the operator it
replaces (the comments begin "A slip"; for `FramesInv` it is the server's decoder in the place of
the browser's), under which TLC finds the property violated.

## 4. Proofs

Every theorem is one of `Spec` (or the module's own specification) for all values of the
constants that its module's named assumption allows: any numbers of requests, tabs, jobs, calls
or samples, any transcripts and limits. The assumptions say what kind of thing a constant is:
that kinds of requests are disjoint (`StoreAssumption`, `AccountAssumption`, `CodesAssumption`,
`SceneAssumption`), that limits, quotas and timeouts are numbers, positive where the code's
settings demand it (`ProxyAssumption`, `UploadAssumption`, `CallsAssumption`, `BenchAssumption`,
`StreamAssumption`, `AgentAssumption`, `AuthClientAssumption`, `LimitsAssumption`,
`PagesAssumption`), that there are two kinds of
owners (`MemberAssumption`), that newlines and the ends of events are no letters of a text
(`FramesAssumption`), that the feedback of a turn names finitely many errors and that something is
kept (`ProfileAssumption`), and that transcripts are sequences of lines whose words are no
reply's text, since a message is known by its turn (`ConversationAssumption`). TLC evaluates each
in the runs that extend the module.

Most properties are not inductive as they stand. What they need beside them is part of the
property wherever it says something a reader would want to know, so that a run checks it as well;
the parts that only help the argument stand in the module of the proofs. A proof has one step per
action, most of them through a lemma that says in a line what the action does to the pieces of
state the invariant speaks of, so that the many actions that move a request and change no row are
settled together.

**The history** (`SessionServiceProofs`): `HistoryInvariant`, and from it `TypeCorrectness`,
`NoGaps`, `NoHalfReplies`, `TruthfulAnswers` and `MessagesStay`. The commit writes from the
position its transaction *read*. It leaves no gap because what was read is at most one past
today's maximum (`ReadPositionsBounded`, since the maximum only grows), and what lies below the
maximum is taken, so the constraint lets through a block that starts exactly one past the
maximum, or an empty one (a lemma on appending a block to `0..MaxPosition`). That a reply is
whole needs that it has not been stored before (`StoredSinceCommit`) and that a closeout adds no
line in a reply's name (`FreshLinesOwn`). `RetryAppendsNothing`, on the operators of
`TranscriptMerge`: for every history and transcript, once a closeout has been stored, a
transcript that says the same adds no message, because the greatest overlap is one and what a
closeout appends is a suffix of its transcript.

**The turns** (`SessionServiceProofs`): `SessionInvariant`, whose invariant is `HistoryInv` with
`TurnInv` and the properties that follow. `RowsOfOneTurn` and `ReviewsStoredTurn`: every commit of
a turn names itself in the time of both rows, and each other column of the review is the one it has
built or the one that was there (`UpdatedColumns`), which a stored turn has built before
(`ReviewsOwn`, `ReviewInv`). `ReviewWholeUnlessSilent`: while only turns that append have been
stored, a transaction that the constraint will let through has read the review there is
(`LatestReads`), so that the columns it leaves out are those it would have written
(`OneTurnInv`); one that appends nothing may have read an older one, and is the exception. `NoUnstoredInProfile`: what a turn reads of the profile consists
of stored turns (`ReadProfilesStored`), and a turn writes when it is stored.
`NoConflictWithOneRival` needs `RetriesMetRivals`: a reply in its second attempt has met a stored
turn, and what it has read since is out of date only if there is a second one. `ImplementsTurnLog`
maps every step to one of `TurnLog` or a stutter: a commit appends the whole block of one open
turn, the end of a request tells the truth about it, all else changes nothing the abstract
specification sees. `RevokedRefused` holds of all behaviours, requests that overlap included. `TokenInvariant` says why:
as long as each commit has written the generation that follows from the one it replaced
(`~crossed`), no request holds a generation above the row's, a token whose bootstrap was followed
by another has a smaller one than the row, and one that was closed has the row's, which is then no
longer active and can only become active together with a greater one. `RetriesAddNothing` is the one
theorem about the client that waits for each voice request: with one conversation that says nothing
twice, the history is the opener or the whole of it, and a closeout under way will add what is
missing (`TalkInv`), as long as no text reply has been stored. Without the client that waits, or
without the last condition, it is false (section 5).

**Accounts** (`AccountProofs`): `AccountInvariant` and from it `RedeemedAtMostOnce`,
`OneTokenPerLogin`, `RedeemedWhileGood` and `PasswordsAreResets`. A lock is held by the request
that has claimed the row, the row is then good, and a request that has claimed holds its lock
(`LockIsClaim`); what was redeemed is spent (`RedeemedIsSpent`), hence nobody redeems it again;
refreshes deal in tokens and resets in links (`OwnKind`); a row is there exactly from its commit
on (`StoredByCommit`), hence a replacement starts as the only good row of its chain. A reset that
goes on to the password has consumed its link (`LinkConsumed`). `LoginSurvives` is about the
browser (`AuthClient`): the login is kept because a token on its way back is known to the server
alone until it arrives (`ReturnedUnused`), so that the answer delivered last leaves a cookie
nobody has exchanged; unless an answer was lost, a good token is in the cookie or on its way
(`LoginOnItsWay`).

**Codes** (`AccountProofs`): `CodesInvariant` and `AcceptedCodeIsGood`. The daily count bounds
the codes because the counts are looked at and raised while both cooldowns are held, which only one
request can do, and nothing lowers them on the same day; a request that is refused gives back the
cooldowns it took and nothing else. A code in the store, or in the
hands of a guess that has missed it, is the last one saved with its guesses counted
(`FreshUnlessCrossed`) as long as the commands of two requests have not crossed over it; and of
two guesses at such a code only one is past the read.

**Pictures** (`PictureProofs`): `PendingIsOwned`. A pending row has someone who will write
another status; since an UPDATE leaves out the columns that equal what was loaded, that someone
must not have loaded the very status it wants to write (`PendingSettled`), and a job must have a
slot nobody has used (`SlotsFree`). `CreatedOnlyFromResult` follows from its parts on rows and
results: column by column a row of this version holds what some analysis found, or nothing
(`RowsSound`, `ResultsFound`), a hit has what it requires, and the row is what one writer wanted
unless a commit went over a change it had not seen (`WholeUnlessOverwritten`). `UploadsKept`: bodies that pass the gate are counted
(`GateKept`), an object and a row are those of an upload that has come so far (`StoredKept`), and
nobody is a visitor by cookie but through an upload that was shown (`VisitorKnown`).

**Limiters** (`PictureProofs`): `LimitsKept` and `RefusalsEarned`, from `LimitsIInv`. The keys
behind another in a table have asked since it did (`OrderKept`), so that the first one falls out
only when as many have asked as there is room for. What a table has let through within the window
is among the times it holds, as long as the key has not fallen out (`GrantsKept`); they are at
most the limit. Redis has let through in each of its windows no more than it has counted, and
counted no more than was asked for (`CountsKept`); a window that slides meets two of them, hence
twice the limit, and a counter that refuses has seen the limit asked for in this very window.
Time is any natural number and so is the window: four lemmas about quotients carry the argument.

**Voice in the browser and its proxy** (`VoiceProofs`): `OneTranscript` and `InterruptedIsSilent`,
from `AgentIInv`, a predicate on the whole record of refs, which every callback preserves on its
own part. Only the socket the hook holds can be open; a connection that has not settled has a
start waiting for its promise; at most one cleanup is run for a start; what was sent begins the
transcript; and every chunk of the chain that is being played arrived after the last
interruption. `ProxyInvariant` and `NoStaleForwarded`: a token that is current when its fact is
read was so when the call came in (`CallOK`), because no token holds a generation above the one
its session has reached, so that a bootstrap makes the tokens that are about stale and none
current; and the look-ups of a window are at most the quota because they are among the calls
this window has counted (`CountsOK`).

**Streams and model calls** (`StreamProofs`): `StreamsEndClean` and `AbandonedStayUnsaved`, from
`StreamsOK`, which says for each place of the coroutine which tasks may run, what the response can
be, what has been sent and whether the client is there: only when both tasks have ended, or were
cancelled and awaited, is the last place reached. `ChainKeepsItsBudget`, from `CallsIInv`: the
failures of the provider whose turn it is are its retries, those before it are given up
(`OthersGivenUp`), starts and failures count each other (`LengthsCounted`), and before the
deadline no more time has passed than a call can begin with (`BudgetKept`). Usage
records on their way, written and lost in writing are together as many as the answers that were
billed and came with choices (`BilledIsRecorded`); those without leave none.

**Readers of events** (`StreamProofs`): `EventsReadWhole`, for any texts, any scripts and any cuts
into chunks. `FramesOK` says that while no text was damaged, what is buffered and what is unread
make up the encoding of exactly the events that have not been dispatched (`Underway`, where
`Rests` names the remainder behind each event). Newlines are escaped in texts, so the first blank
line of a buffer is the end of its first event, or the buffer ends inside that event and has none;
hence a frame is taken whole, and at the end only the last event's blank line can be missing, which
is why the browser parses what is left. `AnswerIsWhole` holds wherever the connection is cut
because what is left is a proper beginning of an event, and only a whole one can be parsed.

**The learner's profile** (`LearnerProofs`): `ProfileIsTrue`, from `LearnerOK`, and `AllApplied`:
for any sequence of turns, `apply_turn_to_profile` makes of it the profile that tells them. Turns
push a scene out by number and a scene can come back, so the count of a scene is that of its turns
since it was let in. The list is known from the turns alone because the scenes that came since the
last turn of `scenes[i]` are those listed behind it (`ScenesSinceListed`): a scene stays exactly
while they are fewer than the cap (`ScenesToldOn`). The estimate is the lower median because a
sorted enumeration has at most `j` levels up to its `j`-th place (`MedianIsLow`). For turns that
overlap: an update that has read the row holds what the row would be with its turn, until another
one writes; afterwards it still makes nothing up, since the signals have only become more
(`Bigger`), and a row with each column from one of two that make nothing up does so neither
(`WithinMixed`). That nobody's write over an unread row gives exactly the profile of the turn needs
that an update always changes the scenes: the count of the scene has risen, or it was not there.

**History pages** (`PracticeProofs`): `PagesComplete`, from `PagesOK`. Practising moves a session to
the top, hence what is said of the keys of those left alone stays true of ever fewer sessions
(`ListOfFewer`, `PageOfFewer`). The list holds all of them that do not come after its cursor, a
page on its way all of those between its two cursors (`PageOK`), and joined they make such a list
again (`ListWithPage`). A page of messages ends where the run on show begins, because the cursor
asked with is still the page's own and nothing else is asked for (`MoreOK`): two runs make one
(`RunsMerge`). That a sorted enumeration exists at all (`EnumeratedInOrder`) is a count: ranks in
a strict order are distinct and there are as many as places.

**Benches** (`PracticeProofs`): `BenchesKeepTheirRows`. What is put to the judge is what the
rules alone have made of it (`DraftsKept`), and a sample is not overtaken on its way to a place,
so that rows are appended in the order of the samples.

Induction over data (what a recursive function has computed at its end, that a function defined
step by step exists) is out of the provers' reach as a theorem about predicates. `Induction` has it
for sets: `UpTo` says that a set which holds 0 and the successor of each of its numbers up to n
holds all of them, `StepByStep` that a function with a given start and a given step at each place
exists. `EventsReadWhole` and `AllApplied` rest on both.

Only model-checked: the liveness properties `EveryRequestEnds`, `EveryStreamEnds`,
`PendingEnds` and `RequestsEnd`, which no prover here can establish. `PendingEnds` asks nothing
about a row whose job was given up without a trace (`Interrupted`). Every safety property of
the passing runs is a theorem.

## 5. Where the code departs from its comments

* `names_lost`. A closeout without a review copy writes back the display names it read before
  its model calls, and a reply that stored new names meanwhile loses them. The comments at
  `voice_flow.py:72-73` and `session_db.py:282-283` say the last valid names are kept.
* `lines_twice`. The overlap of history and transcript is looked for only at the end of the
  history. A transcript sent again after a text reply is stored a second time;
  `voice_flow.py:162` says it is deduplicated. Sent again with nothing in between it is not
  stored twice (`voice_retry`, `RetryAppendsNothing`).
* `error_stored`. `save_reply_turn` reads the session back after its commit. When that fails,
  or the connection is lost after the commit, the stream ends with an error event although the
  turn is stored; `sessions.py:275` says a turn that ended in an error is not stored.
* `mic_left_on`. Leaving the page cleans up once. A start that waits for the bootstrap, for the
  previous cleanup or for the permission goes on afterwards, opens its socket and its microphone,
  and no cleanup comes any more; the comment at `useDeepgramVoiceAgent.ts:184-186` says the
  teardown disconnects and stops the audio pipeline.
* `replay_mixed`. A page of earlier messages is put in front of whatever is shown when it arrives,
  also another session's; `HistoryPage.tsx:51` says a selection replaces the data. The same
  request can come back to its own session after it was shown anew, and leave a gap
  (`crossed` in `HistoryPages`).
* `estimate_torn`. Of two turns that end side by side one can leave its window of levels and the
  other its estimate, since the UPDATE names only columns that differ from what was loaded;
  `profile_branch.py:74-75` says at worst one count is lost and the last write wins. For the same
  reason a turn whose values equal those it loads writes none of them, although another turn
  commits in between.

Further departures that the modules state as definitions, or show when their guards are taken
out, but that have no run of their own:

* Two bootstraps that read the fact before either saves it mint the same generation, and both
  tokens are accepted; `agent.py:368-371` says a later bootstrap invalidates earlier tokens. This is
  what `crossed` stands for in `RevokedStayRevoked`.
* `CloseoutKeepsGeneration` (`SessionService`). A closeout that read the fact before a bootstrap saved
  its generation writes the smaller one back, or 0 where it found no row; `voice_flow.py:88-90`
  says it sets the status and leaves the generation alone, since otherwise old tokens would come
  back to life. Both need voice requests that overlap.
* `ReadyIsComplete` (`SceneAnalysis`). Of two overlapping transactions on the cache row one can leave
  the status ready and the other the empty columns; `scene_analysis_db.py:5` says a row with
  status ready carries the whole result. `start` counts such a row as a miss, the status endpoint
  tells the browser that it is ready.
* `EveryCallRecorded` (`ModelCalls`). `_extract_content` raises on an answer without choices
  (`openai.py:214-218`) before its usage is recorded, although it came with one and was paid for;
  `llm_usage_db.py:1` says the consumption of each call is recorded.
* `FailuresRecorded` (`SceneAnalysis`). A job that cannot read its media row or sign its address
  raises outside the part that records failures, and the row stays pending once its retries are
  used up; `docs/features/scene_analysis_caching/feature.md:33` says every failure is recorded.
* `AnsweredOnce` (`MediaUpload`). The 413 of the gate goes out through the raw `send`, so
  `response_started` stays false, and the exception that follows, raised inside the form parser,
  becomes an error 400 that the handler in `main.py:87` answers too. `middleware.py:119-120` and
  `docs/features/media_upload_stream_guard/feature.md:20` say the request ends with the 413.
* `OldCodesVoid` (`EmailCodes`). A guess that has read the old payload writes it back over the
  code that was issued since; the mail (`auth_mailer.py`) says an old code is void at once.
* `NoLateAttempt` (`ModelCalls`). The deadline is looked at before a backoff, not after it: an
  attempt can begin after the deadline, which `resilience.py:60` excludes.
* The scene bench says it keeps writing intermediate results to its output file
  (`scene_engine/evaluation.py:254`); it writes once, when all samples are done, and a batch that
  ends before leaves the file as it was (`SamplesKept`). The benches in sequence say that an
  interruption loses no finished sample (`feedback_engine/evaluation.py:381-382`, likewise coach
  and review); `write_text` empties the file before it fills it, and a kill in between leaves none.
* `StartSettles` (`VoiceAgent`). The socket of a start that timed out closes while the next start
  waits: its handler stops the timer both share and cleans up, and the next start is never
  settled, its button stays locked; `docs/features/deepgram_voice_agent/feature.md:42` says the
  timeouts keep a session from being stuck.

Things the modules show that no document speaks of: the refresh of the mount is not the one that
refused calls share, so that one of the two loses and its tab turns anonymous until it is
reloaded; the answer to a refresh that arrives after a logout logs the tab in again; a client of
the proxy that leaves before the first byte leaves the upstream response open; tokens without a
session id share the quota of "unknown"; an upload whose address cannot be signed has stored its
row; two first uploads at once make two visitors, of whom the cookie keeps one; a capture that
comes late overwrites the stream the hook holds.

Of `lines_twice`, a second form needs no text reply: two closeouts with the same transcript at
the same time. The second reads the history before the first commits, meets no taken position
if it reads `max(position)` after it, and appends the lines again. `OneAtATime` excludes it from
`voice_retry`.

## 6. Not modelled

Session events (append-only, nobody reads them back into a decision), the index and foreign
keys, message feedback, `reset` and other test helpers, ownership checks in front of every
operation, and the components marked `not_modelled` in `PROJECT.json`. The session row is never
deleted while requests are in progress: there is no operation that deletes one.

Of the parts that are modelled: how a profile is rendered for prompts and pages, and what a
history detail says besides its messages; the signature of history cursors (one that does not
verify is refused); searching, filtering and sorting on the page; keep-alive messages, captions
and audio data of the voice agent; the threads that write usage rows; access tokens, which are
not stored; `delete_object`, which nothing calls. Prompts, parsing of model output and operator
tools are functions of their input.

## 7. Plan

1. The calls of `session_db.py` that no request modelled here makes by itself: `add_message`, which
   nothing calls, and the listing of reviews behind the history page, which only reads.
2. A composition of `LearnerProfile` with the turns of `SessionService`, so that the signals of a
   profile are those of stored turns by name and not only by number (`NoUnstoredInProfile` says it
   of turns, `NothingMadeUp` of what they say).
