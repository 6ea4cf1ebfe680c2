---------------------------- MODULE HistoryPages ----------------------------
(***************************************************************************)
(* The page of past sessions and the reads below it:                       *)
(*                                                                         *)
(*   src/frontend/src/pages/HistoryPage.tsx  the list, one session's       *)
(*                                           detail and the replay of its  *)
(*                                           messages, loaded page by page *)
(*   src/api/routes/v1/history.py            the routes                    *)
(*   src/api/db/session_db.py                the queries                   *)
(*                                                                         *)
(* Meanwhile the learner goes on practising, in another tab: a session     *)
(* that gets a turn moves to the top of the list and its history grows at  *)
(* the end.  Answers arrive late, in any order, or not at all.             *)
(*                                                                         *)
(* Sessions are numbers, which stand for the order of their ids; the line  *)
(* of session s at position p is <<s, p>>.                                 *)
(***************************************************************************)
EXTENDS Integers, Sequences, FiniteSets, SequencesExt, Enumeration

CONSTANTS
  Sessions,      \* the sessions of the learner, naturals from 1
  ListSize,      \* HISTORY_PAGE_SIZE
  ReplaySize,    \* REPLAY_PAGE_SIZE
  MaxTurns,      \* bound: turns practised while the page is open
  MaxRequests    \* bound: requests for a replay, and for more of one

ASSUME PagesAssumption ==
  /\ Sessions \subseteq Nat \ {0} /\ IsFiniteSet(Sessions)
  /\ {ListSize, ReplaySize} \subseteq Nat \ {0}
  /\ {MaxTurns, MaxRequests} \subseteq Nat

VARIABLES
  touched,   \* touched[s]: updated_at of session s; 0, it has no review
  lines,     \* lines[s]: how many messages it has
  list,      \* the list on the page, and its request
  replay,    \* the detail on the page, and the request for it
  more,      \* requests for earlier messages
  asked,     \* how many replay requests there were
  stirred,   \* history: the sessions practised since the list was opened
  crossed    \* history: a request for earlier messages ended at another
             \* showing than it was made at, or another was made before it did

pageVars == <<touched, lines, list, replay, more, asked, stirred, crossed>>

-----------------------------------------------------------------------------
(* Array.filter: what of a sequence is not in another, in order.           *)
Upwards(P) == {pair \in P \X P : pair[1] < pair[2]}
Without(seq, taken) ==
  LET kept   == {i \in DOMAIN seq : seq[i] \notin ToSet(taken)}
      places == Enumerated(kept, Upwards(kept))
  IN  [j \in DOMAIN places |-> seq[places[j]]]

-----------------------------------------------------------------------------
(* The queries.                                                            *)

None == 0         \* no session
NoCursor == <<>>

Key(s) == <<touched[s], s>>

(* Newest first, ties by id.                                               *)
Before(k, l) == k[1] > l[1] \/ (k[1] = l[1] /\ k[2] > l[2])

(* A slip: ties are forgotten.                                             *)
FollowsByTime(cursor, s) == cursor[1] > Key(s)[1]

(* Sessions with a review (the join) that come after the cursor.           *)
Follows(cursor, s) == Before(cursor, Key(s))

Listed(cursor) ==
  {s \in Sessions : touched[s] > 0 /\ (cursor # NoCursor => Follows(cursor, s))}

NewestFirst == {pair \in Sessions \X Sessions : Before(Key(pair[1]), Key(pair[2]))}

(* One more row than the page has is asked for, to know of another page.   *)
SessionsPage(cursor) ==
  LET rows == Enumerated(Listed(cursor), NewestFirst)
      page == SubSeq(rows, 1, IF Len(rows) > ListSize THEN ListSize ELSE Len(rows))
  IN  [items |-> page, hasMore |-> Len(rows) > ListSize,
       cursor |-> IF Len(rows) > ListSize THEN Key(Last(page)) ELSE NoCursor]

Line(s, p) == <<s, p>>

(* The page of the messages of session s that ends before the message to.  *)
Stretch(s, to) ==
  LET from == IF to > ReplaySize THEN to - ReplaySize ELSE 0
  IN  [items |-> [i \in 1..(to - from) |-> Line(s, from + i - 1)], hasMore |-> from > 0,
       cursor |-> IF from > 0 THEN Line(s, from) ELSE NoCursor]

(* The last messages before the cursor, in order.  A cursor that is no     *)
(* message of the session is refused.                                      *)
MessagesPage(s, cursor) == Stretch(s, IF cursor = NoCursor THEN lines[s] ELSE cursor[2])

CursorFits(s, cursor) == cursor = NoCursor \/ cursor[1] = s

-----------------------------------------------------------------------------
Failed == [items |-> <<>>, hasMore |-> FALSE, cursor |-> NoCursor]

PagesInit ==
  /\ touched \in [Sessions -> 0..1]
  /\ lines = [s \in Sessions |-> IF touched[s] = 0 THEN 1 ELSE 1 + 2 * s]
  /\ list = [entries |-> <<>>, hasMore |-> FALSE, cursor |-> NoCursor,
             pc |-> "sent", from |-> NoCursor, answer |-> Failed]
  /\ replay = [active |-> None, shown |-> None, showing |-> 0, messages |-> <<>>,
               hasMore |-> FALSE, cursor |-> NoCursor, loading |-> FALSE, pc |-> "idle",
               answer |-> Failed]
  /\ more = {} /\ asked = 0 /\ stirred = {} /\ crossed = FALSE

(* A turn is stored: two messages, a review, and a new updated_at, later   *)
(* than any other.                                                         *)
Practise(s) ==
  /\ \E now \in 1..(MaxTurns + 1) :
       /\ \A r \in Sessions : touched[r] < now
       /\ touched' = [touched EXCEPT ![s] = now]
  /\ lines' = [lines EXCEPT ![s] = @ + 2]
  /\ stirred' = stirred \cup {s}
  /\ UNCHANGED <<list, replay, more, asked, crossed>>

-----------------------------------------------------------------------------
(* The list.                                                               *)

ListServed ==
  /\ list.pc = "sent"
  /\ list' = [list EXCEPT !.pc = "answered", !.answer = SessionsPage(list.from)]
  /\ stirred' = IF list.from = NoCursor THEN {} ELSE stirred
  /\ UNCHANGED <<touched, lines, replay, more, asked, crossed>>

(* mergeHistoryEntries: what is there already is passed over.              *)
MergedEntries(previous, incoming) == previous \o Without(incoming, previous)

Arrived(page) ==
  [list EXCEPT !.entries = MergedEntries(list.entries, page.items),
               !.hasMore = page.hasMore, !.cursor = page.cursor,
               !.pc = "idle", !.answer = Failed]

(* What selecting session s does: the effect of the one before is over and *)
(* its answer will not be used; what it showed stays until the new one     *)
(* arrives.                                                                *)
Selected(s) ==
  [replay EXCEPT !.active = s, !.loading = TRUE, !.pc = "sent", !.answer = Failed]

(* The first page selects its first session.                               *)
ListArrives ==
  /\ list.pc = "answered"
  /\ list' = Arrived(list.answer)
  /\ IF list.from = NoCursor /\ list.answer.items # <<>>
       THEN replay' = Selected(list.answer.items[1]) /\ asked' = asked + 1
       ELSE UNCHANGED <<replay, asked>>
  /\ UNCHANGED <<touched, lines, more, stirred, crossed>>

ListFails ==
  /\ list.pc # "idle"
  /\ list' = [list EXCEPT !.pc = "idle", !.answer = Failed]
  /\ UNCHANGED <<touched, lines, replay, more, asked, stirred, crossed>>

LoadMoreHistory ==
  /\ list.pc = "idle" /\ list.hasMore /\ list.cursor # NoCursor
  /\ list' = [list EXCEPT !.pc = "sent", !.from = list.cursor]
  /\ UNCHANGED <<touched, lines, replay, more, asked, stirred, crossed>>

-----------------------------------------------------------------------------
(* The replay of one session.                                              *)

Select(s) ==
  /\ s \in ToSet(list.entries) /\ s # replay.active
  /\ asked < MaxRequests
  /\ replay' = Selected(s) /\ asked' = asked + 1
  /\ UNCHANGED <<touched, lines, list, more, stirred, crossed>>

ReplayServed ==
  /\ replay.pc = "sent"
  /\ replay' = [replay EXCEPT !.pc = "answered", !.answer = MessagesPage(replay.active, NoCursor)]
  /\ UNCHANGED <<touched, lines, list, more, asked, stirred, crossed>>

ReplayArrives ==
  /\ replay.pc = "answered"
  /\ replay' = [replay EXCEPT !.shown = replay.active, !.showing = @ + 1,
                  !.messages = replay.answer.items, !.hasMore = replay.answer.hasMore,
                  !.cursor = replay.answer.cursor, !.loading = FALSE, !.pc = "idle", !.answer = Failed]
  /\ crossed' = FALSE
  /\ UNCHANGED <<touched, lines, list, more, asked, stirred>>

ReplayFails ==
  /\ replay.pc # "idle"
  /\ replay' = [replay EXCEPT !.loading = FALSE, !.pc = "idle", !.answer = Failed]
  /\ UNCHANGED <<touched, lines, list, more, asked, stirred, crossed>>

(* Earlier messages are asked for with the selected session and the cursor *)
(* of the one shown.                                                       *)
LoadMoreReplay ==
  /\ replay.active # None /\ replay.hasMore /\ replay.cursor # NoCursor /\ ~replay.loading
  /\ asked < MaxRequests
  /\ asked' = asked + 1
  /\ more' = more \cup {[of |-> replay.active, from |-> replay.cursor, id |-> asked,
                         showing |-> replay.showing, pc |-> "sent", answer |-> Failed]}
  /\ replay' = [replay EXCEPT !.loading = TRUE]
  /\ crossed' = (crossed \/ more # {})
  /\ UNCHANGED <<touched, lines, list, stirred>>

MoreServed(m) ==
  /\ m.pc = "sent" /\ CursorFits(m.of, m.from)
  /\ more' = (more \ {m}) \cup
       {[m EXCEPT !.pc = "answered", !.answer = MessagesPage(m.of, m.from)]}
  /\ UNCHANGED <<touched, lines, list, replay, asked, stirred, crossed>>

(* mergeReplayMessages.                                                    *)
MergedMessages(incoming, previous) == Without(incoming, previous) \o previous

(* Nothing asks whether the session is still the one selected.             *)
MoreArrives(m) ==
  /\ m.pc = "answered"
  /\ more' = more \ {m}
  /\ replay' = [replay EXCEPT !.messages = MergedMessages(m.answer.items, @),
                  !.hasMore = m.answer.hasMore, !.cursor = m.answer.cursor, !.loading = FALSE]
  /\ crossed' = (crossed \/ m.showing # replay.showing)
  /\ UNCHANGED <<touched, lines, list, asked, stirred>>

MoreFails(m) ==
  /\ more' = more \ {m}
  /\ replay' = [replay EXCEPT !.loading = FALSE]
  /\ crossed' = (crossed \/ m.showing # replay.showing)
  /\ UNCHANGED <<touched, lines, list, asked, stirred>>

PagesNext ==
  \/ \E s \in Sessions : Practise(s) \/ Select(s)
  \/ ListServed \/ ListArrives \/ ListFails \/ LoadMoreHistory
  \/ ReplayServed \/ ReplayArrives \/ ReplayFails \/ LoadMoreReplay
  \/ \E m \in more : MoreServed(m) \/ MoreArrives(m) \/ MoreFails(m)

PagesSpec == PagesInit /\ [][PagesNext]_pageVars

-----------------------------------------------------------------------------
(* The sessions with a review that nobody has practised since the list was *)
(* opened.                                                                 *)
Undisturbed == {s \in Sessions : touched[s] > 0} \ stirred

(* However much is practised meanwhile, no session is listed twice, and    *)
(* those that were left alone are listed newest first and without a gap:   *)
(* all of them, once there is no more to load (list_user_sessions_page and *)
(* mergeHistoryEntries).                                                   *)
NothingOverlooked ==
  /\ IsInjective(list.entries)
  /\ \A i, j \in DOMAIN list.entries :
       i < j /\ {list.entries[i], list.entries[j]} \subseteq Undisturbed =>
         Before(Key(list.entries[i]), Key(list.entries[j]))
  /\ list.entries # <<>> =>
       \A s \in Undisturbed \ ToSet(list.entries) : list.hasMore /\ Before(list.cursor, Key(s))

(* The replay is one unbroken stretch of the session's messages, whatever  *)
(* was stored meanwhile, and the offer to load more stands exactly if      *)
(* there are earlier ones; unless a page asked for at an earlier showing   *)
(* has got in between (list_session_messages_page, mergeReplayMessages).   *)
ReplayUnbroken ==
  replay.shown # None /\ ~crossed =>
    /\ replay.messages # <<>>
    /\ \A i \in DOMAIN replay.messages :
         replay.messages[i] = Line(replay.shown, replay.messages[1][2] + i - 1)
    /\ (replay.hasMore <=> replay.messages[1][2] > 0)
    /\ (replay.hasMore => replay.cursor = replay.messages[1])

(* What the runs check of the page, part by part.                          *)
PagesInv == NothingOverlooked /\ ReplayUnbroken

(* src/frontend/src/pages/HistoryPage.tsx:51: when another session is      *)
(* selected its data take the place of the last one's, so the messages     *)
(* shown are those of the session whose detail is shown.                   *)
ReplayOfSelected ==
  replay.shown # None => \A i \in DOMAIN replay.messages : replay.messages[i][1] = replay.shown

=============================================================================
