----------------------------- MODULE RateLimits -----------------------------
(***************************************************************************)
(* How often a caller may ask.                                             *)
(*                                                                         *)
(*   model calls, uploads   src/api/services/llm_rate_limit.py             *)
(*   account routes         src/api/services/auth_rate_limit.py            *)
(*   the shared counter     src/api/services/rate_limit_window.py          *)
(*                                                                         *)
(* A process counts in a bounded table of its own, sliding over a window,  *)
(* or in Redis, by fixed windows, and in the table while Redis is away.    *)
(* An anonymous visitor is counted a second time, under its address.       *)
(***************************************************************************)
EXTENDS Integers, Sequences, FiniteSets, SequencesExt

CONSTANTS
  Processes,                \* server processes, each with a table
  Visitors, Accounts,       \* who asks: anonymous owners and accounts
  Address,                  \* the one network address they all ask from
  OwnerLimit, AddressLimit, \* calls per window
  Window,                   \* in ticks of the clock
  Capacities,               \* the rate_limiter_max_keys tried
  LastTick,                 \* the clock stops there (a bound)
  MaxRequests, MaxOutages   \* requests, calls of Redis that fail (bounds)

ASSUME LimitsAssumption ==
  /\ {OwnerLimit, AddressLimit, Window, LastTick, MaxRequests} \subseteq Nat \ {0}
  /\ MaxOutages \in Nat
  /\ Capacities \subseteq Int
  /\ "redis" \notin Processes

VARIABLES
  setup,     \* which limiter the settings give, and the capacity of a table
  tick,      \* the clock
  table,     \* table[p]: the keys process p counts, least recently used first
  times,     \* times[p][k]: the uses it has counted of key k
  counts,    \* counts[k, n]: what Redis counts for k in the n-th window
  requests,  \* how many requests there have been
  outages,   \* how many calls of Redis have failed
  halfway,   \* halfway[p]: the visitor whose address p has yet to count
  asked,     \* history: asked[k], the uses of k in the window that ends now
  granted,   \* history: granted[k][by], those of them let through, and by whom
  since,     \* history: since[p][k], the keys p has counted since it counted k
  evicted    \* history: evicted[p], what fell out of the table of p

limitVars == <<setup, tick, requests, outages, table, times, counts, halfway,
               asked, granted, since, evicted>>

Owners == Visitors \cup Accounts
Keys == Owners \cup {Address}
NoVisitor == "no visitor"
Judges == Processes \cup {"redis"}

LimitOf(k) == IF k = Address THEN AddressLimit ELSE OwnerLimit

Slots == 0..(LastTick \div Window)
Slot == tick \div Window

(* How many entries a table may hold: at least one, whatever the settings. *)
Room == IF setup.capacity < 1 THEN 1 ELSE setup.capacity

LimitsInit ==
  /\ setup \in [limiter : {"llm", "auth"}, shared : BOOLEAN, capacity : Capacities]
  /\ tick = 0 /\ requests = 0 /\ outages = 0
  /\ table = [p \in Processes |-> <<>>]
  /\ times = [p \in Processes |-> [k \in Keys |-> {}]]
  /\ counts = [c \in Keys \X Slots |-> 0]
  /\ halfway = [p \in Processes |-> NoVisitor]
  /\ asked = [k \in Keys |-> {}]
  /\ granted = [k \in Keys |-> [by \in Judges |-> {}]]
  /\ since = [p \in Processes |-> [k \in Keys |-> {}]]
  /\ evicted = [p \in Processes |-> {}]

-----------------------------------------------------------------------------
(* One call of consume on the table of a process, under its lock.          *)

(* The use of k that is asked for now; those of one tick are told apart.   *)
NewUse(k) == [at |-> tick, nth |-> Cardinality(asked[k])]

Counted(p) == {table[p][i] : i \in DOMAIN table[p]}

Place(p, k) == CHOOSE i \in DOMAIN table[p] : table[p][i] = k

Others(p, k) == IF k \in Counted(p) THEN RemoveAt(table[p], Place(p, k)) ELSE table[p]

(* A slip: a use just as old as the window is still counted.               *)
RecentOrEdge(uses) == {u \in uses : u.at >= tick - Window}

(* Uses before the window no longer count.                                 *)
Recent(uses) == {u \in uses : u.at > tick - Window}

(* A new key needs room; an empty table has room even if its capacity is 0. *)
MustEvict(p, k) ==
  k \notin Counted(p) /\ table[p] # <<>> /\ Len(table[p]) >= setup.capacity

Fits(p, k) == Cardinality(Recent(times[p][k])) < LimitOf(k)

(* A slip: a key that is refused keeps its place.                          *)
UsedIfGranted(p, k) ==
  IF Fits(p, k) THEN Append(IF MustEvict(p, k) THEN Tail(table[p]) ELSE Others(p, k), k)
                ELSE table[p]

(* Used keys go to the end, those refused as well.                         *)
TableAfter(p, k) ==
  Append(IF MustEvict(p, k) THEN Tail(table[p]) ELSE Others(p, k), k)

(* The model calls leave the uses of a refused key as they are, the        *)
(* account routes prune them.                                              *)
TimesAfter(p, k) ==
  LET recent == Recent(times[p][k])
      refused == IF setup.limiter = "auth" THEN recent ELSE times[p][k]
  IN [other \in Keys |->
       IF other = k THEN IF Fits(p, k) THEN recent \cup {NewUse(k)} ELSE refused
       ELSE IF MustEvict(p, k) /\ other = Head(table[p]) THEN {} ELSE times[p][other]]

NoteGranted(k, by) == granted' = [granted EXCEPT ![k][by] = @ \cup {NewUse(k)}]

(* The table of p lets k through, or not.                                  *)
UseTable(p, k, yes) ==
  /\ yes = Fits(p, k)
  /\ table' = [table EXCEPT ![p] = TableAfter(p, k)]
  /\ times' = [times EXCEPT ![p] = TimesAfter(p, k)]
  /\ IF yes THEN NoteGranted(k, p) ELSE UNCHANGED granted
  /\ since' = [since EXCEPT ![p] = [other \in Keys |->
                 IF other = k THEN {} ELSE since[p][other] \cup {k}]]
  /\ evicted' = [evicted EXCEPT ![p] =
                   @ \cup (Counted(p) \ {TableAfter(p, k)[i] : i \in DOMAIN TableAfter(p, k)})]

TableSays(p, k, yes) == UseTable(p, k, yes) /\ UNCHANGED <<counts, outages>>

(* Redis counts what it refuses too.  More than one above the limit is all *)
(* the same to it (a bound).                                               *)
Incremented(k) ==
  [counts EXCEPT ![<<k, Slot>>] = IF @ > LimitOf(k) THEN @ ELSE @ + 1]

RedisSays(k, yes) ==
  /\ counts' = Incremented(k)
  /\ yes = (counts'[<<k, Slot>>] <= LimitOf(k))
  /\ IF yes THEN NoteGranted(k, "redis") ELSE UNCHANGED granted
  /\ UNCHANGED <<outages, table, times, since, evicted>>

(* Redis cannot be reached, or its answer is lost: the table of p decides. *)
FallbackSays(p, k, yes) ==
  /\ outages < MaxOutages /\ outages' = outages + 1
  /\ UseTable(p, k, yes)
  /\ counts' \in {counts, Incremented(k)}

Consume(p, k, yes) ==
  /\ asked' = [asked EXCEPT ![k] = @ \cup {NewUse(k)}]
  /\ IF setup.shared THEN RedisSays(k, yes) \/ FallbackSays(p, k, yes)
                     ELSE TableSays(p, k, yes)

(* consume_with_ip_guard: the owner is counted, then a visitor's address.  *)
Guarded(o) == setup.limiter = "llm" /\ o \in Visitors

Ask(p, o) ==
  /\ halfway[p] = NoVisitor
  /\ requests < MaxRequests /\ requests' = requests + 1
  /\ \E yes \in BOOLEAN :
       /\ Consume(p, o, yes)
       /\ halfway' = [halfway EXCEPT ![p] = IF yes /\ Guarded(o) THEN o ELSE NoVisitor]
  /\ UNCHANGED <<setup, tick>>

AskForAddress(p) ==
  /\ halfway[p] # NoVisitor
  /\ \E yes \in BOOLEAN : Consume(p, Address, yes)
  /\ halfway' = [halfway EXCEPT ![p] = NoVisitor]
  /\ UNCHANGED <<setup, tick, requests>>

(* What of the uses lies in the window that ends now.                      *)
InWindow(uses, now) == {u \in uses : u.at > now - Window}

(* Two calls of one request are not a window apart.                        *)
Pass ==
  /\ tick < LastTick
  /\ \A p \in Processes : halfway[p] = NoVisitor
  /\ tick' = tick + 1
  /\ asked' = [k \in Keys |-> InWindow(asked[k], tick')]
  /\ granted' = [k \in Keys |-> [by \in Judges |-> InWindow(granted[k][by], tick')]]
  /\ UNCHANGED <<setup, requests, outages, table, times, counts, halfway, since, evicted>>

LimitsNext ==
  \/ Pass
  \/ \E p \in Processes : AskForAddress(p) \/ \E o \in Owners : Ask(p, o)

LimitsSpec == LimitsInit /\ [][LimitsNext]_limitVars

-----------------------------------------------------------------------------
Uses == [at : 0..LastTick, nth : Nat]

LimitsTypeOK ==
  /\ setup \in [limiter : {"llm", "auth"}, shared : BOOLEAN, capacity : Capacities]
  /\ tick \in 0..LastTick /\ requests \in 0..MaxRequests /\ outages \in 0..MaxOutages
  /\ table \in [Processes -> Seq(Keys)]
  /\ times \in [Processes -> [Keys -> SUBSET Uses]]
  /\ counts \in [Keys \X Slots -> Nat]
  /\ halfway \in [Processes -> Visitors \cup {NoVisitor}]
  /\ asked \in [Keys -> SUBSET Uses]
  /\ granted \in [Keys -> [Judges -> SUBSET Uses]]
  /\ since \in [Processes -> [Keys -> SUBSET Keys]]
  /\ evicted \in [Processes -> SUBSET Keys]

(* A table never holds more keys than its capacity, or one, and no key     *)
(* twice; nor more uses of a key than its limit, and none of a key that    *)
(* fell out.                                                               *)
TableBounded ==
  \A p \in Processes :
    /\ Len(table[p]) <= Room
    /\ \A i, j \in DOMAIN table[p] : table[p][i] = table[p][j] => i = j
    /\ \A k \in Keys :
         /\ Cardinality(times[p][k]) <= LimitOf(k)
         /\ k \notin Counted(p) => times[p][k] = {}

(* A caller that goes on asking is not forgotten: for a key to fall out of *)
(* a table as many others as the table holds must have asked since, also   *)
(* when the key was only refused ("被打满的活跃键不会被误淘汰").           *)
BusyKeysStay ==
  \A p \in Processes : \A k \in evicted[p] \ Counted(p) : Cardinality(since[p][k]) >= Room

(* What is let through within any one window: by a table that has not      *)
(* dropped the key, the limit; by Redis, whose windows are fixed, at most  *)
(* twice the limit.                                                        *)
QuotaKept ==
  \A k \in Keys :
    /\ \A p \in Processes : k \notin evicted[p] => Cardinality(granted[k][p]) <= LimitOf(k)
    /\ Cardinality(granted[k]["redis"]) <= 2 * LimitOf(k)

(* What the runs check of the limiters, part by part.                      *)
LimitsInv == LimitsTypeOK /\ TableBounded /\ BusyKeysStay /\ QuotaKept

(* Nobody is locked out: a key is refused only if it has asked as often as *)
(* it may within the window before; what was counted in an earlier window, *)
(* or by a process that has since lost Redis, does not refuse it.          *)
RefusedOnlyWhenFull ==
  [][\A k \in Keys :
       ~ (asked'[k] \subseteq asked[k]) /\ granted'[k] = granted[k]
         => Cardinality(InWindow(asked[k], tick)) >= LimitOf(k)]_limitVars
=============================================================================
