---------------------------- MODULE VoiceProofs ----------------------------
(***************************************************************************)
(* What is proved of a voice conversation outside the rows of its session: *)
(* of ThinkProxy, that its invariant holds for any set of calls, also an   *)
(* infinite one, any sessions, quota and bounds; of VoiceAgent, that the   *)
(* page keeps to one conversation and to silence, for any numbers of       *)
(* starts and messages.                                                    *)
(***************************************************************************)
EXTENDS ThinkProxy, VoiceAgent, FiniteSetTheorems, TLAPS

Sids == Talks \cup {NoTalk}

Tokens == [sid : Sids, generation : 0..MaxGeneration, genuine : BOOLEAN]

Pcs ==
  {"none", "arrived", "counted", "known", "invalid", "plain", "stream",
   "offered", "buffering", "relaying", "abandoned", "answered"}

Statuses == {0, 200, 400, 401, 429, 500, 502}

Upstreams == {"none", "open", "closed"}

CallState ==
  [pc : Pcs, token : Tokens, body : Bodies, status : Statuses,
   upstream : Upstreams, current : BOOLEAN,
   counted : 0..MaxWindows, asked : BOOLEAN, forwarded : BOOLEAN]

(* A token says nothing that has not been minted, and it is still the      *)
(* current one only if it was when it came in: a generation never returns. *)
(* An open response belongs to a call that is not answered.                *)
CallOK(c) ==
  /\ c \in CallState
  /\ (c.pc = "answered") = (c.status # 0)
  /\ c.token.sid \in Talks => c.token.generation <= voiceFact[c.token.sid].generation
  /\ c.pc \in {"arrived", "counted", "known"} =>
       c.token.genuine /\ (IsCurrent(c.token) => c.current)
  /\ c.pc = "known" => c.token.sid \in Talks
  /\ c.pc \in {"none", "arrived"} => c.counted = 0 /\ ~c.forwarded
  /\ c.pc \in {"counted", "known"} \/ c.asked => c.counted # 0
  /\ c.counted <= window
  /\ c.forwarded => c.current
  /\ c.upstream = "open" => c.pc \in {"offered", "buffering", "relaying", "abandoned"}

StateOK ==
  /\ configured \in BOOLEAN
  /\ used \in [Sids -> 0..Quota]
  /\ window \in 1..MaxWindows
  /\ voiceFact \in [Talks -> [status : {"none", "active", "completed"},
                              generation : 0..MaxGeneration]]
  /\ DOMAIN proxied = ProxyCalls
  /\ proxied = [r \in ProxyCalls |-> proxied[r]]

CallsOK == \A r \in ProxyCalls : CallOK(proxied[r])

(* The calls that a window has counted for a session.                      *)
CountedFor(s, w) == {r \in ProxyCalls : proxied[r].counted = w /\ proxied[r].token.sid = s}

Asking(s, w) ==
  {r \in ProxyCalls : /\ proxied[r].asked /\ proxied[r].token.sid = s
                      /\ proxied[r].counted = w}

(* The counter of the window that lasts is exact enough, and those of the  *)
(* windows before it never change any more.                                *)
CountsOK ==
  \A s \in Sids :
    /\ \A w \in 1..MaxWindows :
         IsFiniteSet(CountedFor(s, w)) /\ Cardinality(CountedFor(s, w)) <= Quota
    /\ Cardinality(CountedFor(s, window)) <= used[s]

ProxyIInv == StateOK /\ CallsOK /\ CountsOK

----------------------------------------------------------------------------
LEMMA InitProxy == ProxyInit => ProxyIInv
<1> SUFFICES ASSUME ProxyInit PROVE ProxyIInv
  OBVIOUS
<1> USE ProxyAssumption
<1>1. StateOK
  BY DEF ProxyInit, StateOK, Sids
<1>2. CallsOK
  <2>1. CallOK(NotArrived)
    BY DEF ProxyInit, CallOK, CallState, Pcs, Statuses, Upstreams,
           NotArrived, Forged, NoClaim, Tokens, Sids, Bodies
  <2> QED
    BY <2>1 DEF ProxyInit, CallsOK
<1>3. CountsOK
  <2>1. \A s \in Sids, w \in 1..MaxWindows : CountedFor(s, w) = {}
    BY DEF ProxyInit, CountedFor, NotArrived
  <2>2. window \in 1..MaxWindows /\ \A s \in Sids : used[s] = 0
    BY DEF ProxyInit, Sids
  <2> QED
    BY <2>1, <2>2, FS_EmptySet DEF CountsOK
<1> QED
  BY <1>1, <1>2, <1>3 DEF ProxyIInv

(* A call that moves on without being counted keeps the invariant if what  *)
(* it becomes is in order.                                                 *)
LEMMA CallMoves ==
  ASSUME ProxyIInv, NEW r \in ProxyCalls, NEW c, CallOK(c),
         c.counted = proxied[r].counted,
         c.counted # 0 => c.token = proxied[r].token,
         proxied' = [proxied EXCEPT ![r] = c],
         UNCHANGED << configured, voiceFact, window, used >>
  PROVE  ProxyIInv'
<1>1. /\ proxied'[r] = c
      /\ \A q \in ProxyCalls : q # r => proxied'[q] = proxied[q]
  BY DEF ProxyIInv, StateOK
<1>2. StateOK'
  BY DEF ProxyIInv, StateOK
<1>3. CallsOK'
  BY <1>1 DEF ProxyIInv, CallsOK, CallOK, IsCurrent
<1>4. \A s \in Sids, w \in 1..MaxWindows : CountedFor(s, w)' = CountedFor(s, w)
  BY <1>1 DEF CountedFor
<1>5. CountsOK'
  BY <1>4 DEF ProxyIInv, CountsOK, StateOK
<1> QED
  BY <1>2, <1>3, <1>5 DEF ProxyIInv

----------------------------------------------------------------------------
(* The steps beside the proxy.                                             *)

(* The generation after a bootstrap is above every one that was minted, so *)
(* the tokens that are about become stale and none becomes current.        *)
LEMMA FactMoves ==
  ASSUME ProxyIInv, NEW s \in Talks,
         BootstrapTalk(s) \/ CompleteTalk(s)
  PROVE  ProxyIInv'
<1> USE ProxyAssumption
<1>1. StateOK'
  BY DEF ProxyIInv, StateOK, BootstrapTalk, CompleteTalk
<1>2. ASSUME NEW r \in ProxyCalls PROVE CallOK(proxied[r])'
  <2>0. CallOK(proxied[r]) /\ StateOK
    BY DEF ProxyIInv, CallsOK
  <2>1. proxied' = proxied /\ window' = window
    BY DEF BootstrapTalk, CompleteTalk
  <2> DEFINE t == proxied[r].token
  <2>2. t \in Tokens
    BY <2>0 DEF CallOK, CallState
  <2>3. \A q \in Talks : voiceFact[q].generation <= voiceFact'[q].generation
    BY <2>0 DEF StateOK, BootstrapTalk, CompleteTalk
  <2>4. ASSUME t.sid \in Talks
        PROVE  t.generation <= voiceFact'[t.sid].generation
    BY <2>0, <2>2, <2>3, <2>4, <1>1 DEF CallOK, StateOK, Tokens
  <2>5. ASSUME IsCurrent(t)' PROVE IsCurrent(t)
    <3>1. /\ t.genuine /\ t.generation # NoClaim /\ t.sid \in Talks
          /\ voiceFact'[t.sid] = [status |-> "active", generation |-> t.generation]
      BY <2>1, <2>5 DEF IsCurrent
    <3>2. CASE t.sid # s
      BY <2>0, <3>1, <3>2 DEF IsCurrent, StateOK, BootstrapTalk, CompleteTalk
    <3>3. CASE t.sid = s
      <4>1. t.generation <= voiceFact[s].generation /\ voiceFact[s].generation \in Nat
        BY <2>0, <3>1, <3>3 DEF CallOK, StateOK
      <4>2. CASE BootstrapTalk(s)
        <5>1. voiceFact'[s].generation = voiceFact[s].generation + 1
          BY <4>2, <2>0 DEF BootstrapTalk, StateOK
        <5>2. voiceFact'[s].generation = t.generation
          BY <3>1, <3>3
        <5> QED
          BY <4>1, <5>1, <5>2
      <4>3. CASE CompleteTalk(s)
        <5>1. voiceFact'[s].status = "completed"
          BY <4>3, <2>0 DEF CompleteTalk, StateOK
        <5>2. voiceFact'[s].status = "active"
          BY <3>1, <3>3
        <5> QED
          BY <5>1, <5>2
      <4> QED
        BY <4>2, <4>3
    <3> QED
      BY <3>2, <3>3
  <2> QED
    BY <2>0, <2>1, <2>4, <2>5 DEF CallOK
<1>3. CountsOK'
  BY DEF ProxyIInv, CountsOK, CountedFor, BootstrapTalk, CompleteTalk
<1> QED
  BY <1>1, <1>2, <1>3 DEF ProxyIInv, CallsOK

LEMMA WindowMoves == ASSUME ProxyIInv, NextWindow PROVE ProxyIInv'
<1> USE ProxyAssumption
<1>1. StateOK'
  BY DEF ProxyIInv, StateOK, NextWindow
<1>2. CallsOK'
  BY DEF ProxyIInv, StateOK, CallsOK, CallOK, CallState, IsCurrent, NextWindow
<1>3. CountsOK'
  <2>1. \A s \in Sids, w \in 1..MaxWindows : CountedFor(s, w)' = CountedFor(s, w)
    BY DEF CountedFor, NextWindow
  <2>2. \A r \in ProxyCalls : proxied[r].counted # window'
    BY DEF ProxyIInv, StateOK, CallsOK, CallOK, CallState, NextWindow
  <2>3. \A s \in Sids : CountedFor(s, window)' = {}
    BY <2>2 DEF CountedFor, NextWindow
  <2>4. \A s \in Sids : used'[s] \in Nat
    BY <1>1 DEF StateOK
  <2>5. \A s \in Sids : Cardinality(CountedFor(s, window)') <= used'[s]
    <3>1. Cardinality({}) = 0
      BY FS_EmptySet
    <3> QED
      BY <2>3, <2>4, <3>1
  <2> QED
    BY <2>1, <2>5 DEF ProxyIInv, CountsOK
<1> QED
  BY <1>1, <1>2, <1>3 DEF ProxyIInv

----------------------------------------------------------------------------
(* The steps of a call.                                                    *)

(* The counter of a session goes up with the calls that it has counted.    *)
LEMMA CountOneMore ==
  ASSUME StateOK, CountsOK, NEW r \in ProxyCalls, NEW t \in Sids, NEW v \in 1..MaxWindows,
         window = v, window' = v, used[t] < Quota, used' = [used EXCEPT ![t] = @ + 1],
         proxied[r].counted = 0, proxied'[r].counted = v, proxied[r].token.sid = t,
         proxied'[r].token = proxied[r].token,
         \A q \in ProxyCalls : q # r => proxied'[q] = proxied[q]
  PROVE  CountsOK'
<1> USE ProxyAssumption
<1>1. \A s \in Sids, w \in 1..MaxWindows :
        s # t \/ w # v => CountedFor(s, w)' = CountedFor(s, w)
  BY DEF CountedFor
<1>2. CountedFor(t, v)' = CountedFor(t, v) \cup {r} /\ r \notin CountedFor(t, v)
  BY DEF CountedFor
<1>3. IsFiniteSet(CountedFor(t, v)) /\ Cardinality(CountedFor(t, v)) <= used[t]
  BY DEF CountsOK
<1>4. /\ IsFiniteSet(CountedFor(t, v)')
      /\ Cardinality(CountedFor(t, v)') = Cardinality(CountedFor(t, v)) + 1
      /\ Cardinality(CountedFor(t, v)) \in Nat
  BY <1>2, <1>3, FS_AddElement, FS_CardinalityType
<1>5. used'[t] = used[t] + 1 /\ used[t] \in Nat /\ \A s \in Sids : s # t => used'[s] = used[s]
  BY DEF StateOK
<1>6. Cardinality(CountedFor(t, v)') <= used'[t] /\ Cardinality(CountedFor(t, v)') <= Quota
  BY <1>3, <1>4, <1>5
<1>7. ASSUME NEW s \in Sids, NEW w \in 1..MaxWindows
      PROVE  /\ IsFiniteSet(CountedFor(s, w)') /\ Cardinality(CountedFor(s, w)') <= Quota
             /\ w = v => Cardinality(CountedFor(s, w)') <= used'[s]
  <2>1. CASE s = t /\ w = v
    BY <1>4, <1>6, <2>1
  <2>2. CASE s # t \/ w # v
    <3>1. CountedFor(s, w)' = CountedFor(s, w)
      BY <1>1, <2>2
    <3>2. /\ IsFiniteSet(CountedFor(s, w)) /\ Cardinality(CountedFor(s, w)) <= Quota
          /\ w = v => Cardinality(CountedFor(s, w)) <= used[s]
      BY DEF CountsOK
    <3> QED
      BY <1>5, <2>2, <3>1, <3>2
  <2> QED
    BY <2>1, <2>2
<1> QED
  BY <1>7 DEF CountsOK

LEMMA AdmitKeeps == ASSUME ProxyIInv, NEW r \in ProxyCalls, Admit(r) PROVE ProxyIInv'
<1> USE ProxyAssumption
<1> DEFINE p == proxied[r]
           c == [p EXCEPT !.pc = "counted", !.counted = window]
<1>0. /\ CallOK(p) /\ StateOK /\ CountsOK /\ p \in CallState
      /\ p.token.sid \in Sids /\ window \in 1..MaxWindows
  BY DEF ProxyIInv, StateOK, CallsOK, CallOK, CallState, Tokens
<1>1. /\ p.pc = "arrived" /\ used[p.token.sid] < Quota
      /\ used' = [used EXCEPT ![p.token.sid] = @ + 1]
      /\ UNCHANGED << configured, voiceFact, window >>
      /\ proxied' = [proxied EXCEPT ![r] = c]
  BY DEF Admit
<1>2. "counted" \in Pcs /\ window \in 0..MaxWindows
  BY <1>0 DEF Pcs
<1>3. c \in CallState /\ c.pc = "counted" /\ c.counted = window
  BY <1>0, <1>2 DEF CallState
<1>4. /\ c.token = p.token /\ c.status = p.status /\ c.asked = p.asked
      /\ c.current = p.current /\ c.forwarded = p.forwarded /\ c.upstream = p.upstream
  BY <1>0 DEF CallState
<1> HIDE DEF c
<1>5. /\ proxied'[r] = c
      /\ \A q \in ProxyCalls : q # r => proxied'[q] = proxied[q]
  BY <1>0, <1>1 DEF StateOK
<1>6. StateOK'
  <2>1. used' \in [Sids -> 0..Quota]
    BY <1>0, <1>1 DEF StateOK
  <2> QED
    BY <1>0, <1>1, <2>1 DEF StateOK
<1>7. CallOK(c) /\ p.counted = 0
  BY <1>0, <1>1, <1>3, <1>4 DEF CallOK
<1>8. CallsOK'
  BY <1>1, <1>5, <1>7 DEF ProxyIInv, CallsOK, CallOK, IsCurrent
<1>9. CountsOK'
  BY <1>0, <1>1, <1>3, <1>4, <1>5, <1>7, CountOneMore
<1> QED
  BY <1>6, <1>8, <1>9 DEF ProxyIInv

(* An answered call is in order, if no response is left open behind it.    *)
LEMMA AnsweredOK ==
  ASSUME NEW p, CallOK(p), NEW status \in Statuses \ {0}, p.upstream # "open"
  PROVE  LET c == [p EXCEPT !.pc = "answered", !.status = status]
         IN CallOK(c) /\ c.counted = p.counted /\ c.token = p.token
<1> DEFINE c == [p EXCEPT !.pc = "answered", !.status = status]
<1>1. p \in CallState /\ "answered" \in Pcs
  BY DEF CallOK, Pcs
<1>2. c \in CallState /\ c.pc = "answered" /\ c.status = status
  BY <1>1 DEF CallState
<1>3. /\ c.token = p.token /\ c.counted = p.counted /\ c.asked = p.asked
      /\ c.current = p.current /\ c.forwarded = p.forwarded /\ c.upstream = p.upstream
  BY <1>1 DEF CallState
<1> HIDE DEF c
<1>4. CallOK(c)
  BY <1>2, <1>3 DEF CallOK
<1> QED
  BY <1>3, <1>4 DEF c

(* All others leave a call that is in order, and CallMoves applies.        *)
LEMMA ArrivesKeeps == ASSUME ProxyIInv, NEW r \in ProxyCalls, CallArrives(r) PROVE ProxyIInv'
<1> USE ProxyAssumption
<1> DEFINE p == proxied[r]
<1>0. CallOK(p) /\ p \in CallState /\ StateOK
  BY DEF ProxyIInv, CallsOK, CallOK
<1>1. PICK token \in Presented, body \in Bodies :
        proxied' = [proxied EXCEPT ![r] =
          [p EXCEPT !.token = token, !.body = body, !.current = IsCurrent(token),
                    !.pc = IF token.genuine /\ configured THEN "arrived" ELSE "answered",
                    !.status = CASE ~token.genuine -> 401
                                 [] token.genuine /\ ~configured -> 500
                                 [] OTHER -> 0]]
  BY DEF CallArrives
<1>2. p.pc = "none" /\ UNCHANGED << configured, voiceFact, window, used >>
  BY DEF CallArrives
<1> DEFINE pc == IF token.genuine /\ configured THEN "arrived" ELSE "answered"
           status == CASE ~token.genuine -> 401
                       [] token.genuine /\ ~configured -> 500
                       [] OTHER -> 0
           c == [p EXCEPT !.token = token, !.body = body, !.current = IsCurrent(token),
                          !.pc = pc, !.status = status]
<1>3. proxied' = [proxied EXCEPT ![r] = c]
  BY <1>1
<1>4. /\ pc \in {"arrived", "answered"} /\ status \in {0, 401, 500}
      /\ (pc = "answered") = (status # 0)
      /\ pc = "arrived" => token.genuine
  OBVIOUS
<1> HIDE DEF pc, status
<1>5. /\ token \in Tokens /\ body \in Bodies
      /\ token.sid \in Talks => token.generation <= voiceFact[token.sid].generation
  <2>1. CASE token = Forged
    BY <1>1, <2>1 DEF Forged, Tokens, NoClaim, Sids
  <2>2. CASE token # Forged
    BY <1>1, <2>2 DEF Presented, Tokens, Sids
  <2> QED
    BY <2>1, <2>2
<1>6. IsCurrent(token) \in BOOLEAN
  BY <1>5 DEF IsCurrent, Tokens
<1>7. pc \in Pcs /\ status \in Statuses
  BY <1>4 DEF Pcs, Statuses
<1>8. p.counted = 0 /\ ~p.asked /\ p.upstream # "open" /\ (p.forwarded => p.current)
  BY <1>0, <1>2 DEF CallOK
<1>9. /\ c \in CallState /\ c.token = token /\ c.current = IsCurrent(token)
      /\ c.pc = pc /\ c.status = status
  BY <1>0, <1>5, <1>6, <1>7 DEF CallState
<1>10. /\ c.counted = p.counted /\ c.asked = p.asked
       /\ c.forwarded = p.forwarded /\ c.upstream = p.upstream
  BY <1>0 DEF CallState
<1> HIDE DEF c
<1>11. ~p.forwarded
  BY <1>0, <1>2 DEF CallOK
<1>12. CallOK(c)
  BY <1>0, <1>4, <1>5, <1>8, <1>9, <1>10, <1>11 DEF CallOK, StateOK
<1> QED
  BY <1>2, <1>3, <1>8, <1>10, <1>12, CallMoves

LEMMA ReadHeadKeeps == ASSUME ProxyIInv, NEW r \in ProxyCalls, ReadHead(r) PROVE ProxyIInv'
<1> DEFINE p == proxied[r]
           exists == p.token.sid \in Talks
           c == [p EXCEPT !.asked = TRUE,
                          !.pc = IF exists THEN "known" ELSE "answered",
                          !.status = IF exists THEN 0 ELSE 401]
<1>0. CallOK(p) /\ p \in CallState
  BY DEF ProxyIInv, CallsOK, CallOK
<1>1. /\ p.pc = "counted" /\ proxied' = [proxied EXCEPT ![r] = c]
      /\ UNCHANGED << configured, voiceFact, window, used >>
  BY DEF ReadHead
<1>2. "known" \in Pcs /\ "answered" \in Pcs /\ 0 \in Statuses /\ 401 \in Statuses
  BY DEF Pcs, Statuses
<1>3. /\ c \in CallState /\ c.asked
      /\ c.pc = IF exists THEN "known" ELSE "answered"
      /\ c.status = IF exists THEN 0 ELSE 401
  BY <1>0, <1>2 DEF CallState
<1>4. /\ c.token = p.token /\ c.counted = p.counted /\ c.current = p.current
      /\ c.forwarded = p.forwarded /\ c.upstream = p.upstream
  BY <1>0 DEF CallState
<1> HIDE DEF c
<1>5. CallOK(c)
  BY <1>0, <1>1, <1>3, <1>4 DEF CallOK
<1> QED
  BY <1>1, <1>4, <1>5, CallMoves

(* The fact is read when the token may have become stale, and is compared. *)
LEMMA ReadFactKeeps == ASSUME ProxyIInv, NEW r \in ProxyCalls, ReadFact(r) PROVE ProxyIInv'
<1> DEFINE p == proxied[r]
<1>0. CallOK(p) /\ p \in CallState /\ StateOK /\ p.upstream # "open"
  BY DEF ProxyIInv, CallsOK, CallOK, ReadFact
<1>1. p.pc = "known" /\ UNCHANGED << configured, voiceFact, window, used >>
  BY DEF ReadFact
<1>2. CASE Honours(p.token)
  <2> DEFINE c == [p EXCEPT !.pc = p.body, !.forwarded = TRUE]
  <2>1. voiceFact[p.token.sid] = [status |-> "active", generation |-> p.token.generation]
    BY <1>0, <1>1, <1>2 DEF CallOK, StateOK, Honours
  <2>2. p.current
    BY <1>0, <1>1, <1>2, <2>1 DEF CallOK, Honours, IsCurrent
  <2>3. p.body \in Pcs /\ p.body \in {"invalid", "plain", "stream"}
    BY <1>0 DEF CallState, Bodies, Pcs
  <2>4. c \in CallState /\ c.pc = p.body /\ c.forwarded
    BY <1>0, <2>3 DEF CallState
  <2>5. /\ c.token = p.token /\ c.counted = p.counted /\ c.current = p.current
        /\ c.asked = p.asked /\ c.upstream = p.upstream /\ c.status = p.status
    BY <1>0 DEF CallState
  <2>6. proxied' = [proxied EXCEPT ![r] = c]
    BY <1>2 DEF ReadFact
  <2> HIDE DEF c
  <2>7. CallOK(c)
    BY <1>0, <1>1, <2>2, <2>3, <2>4, <2>5 DEF CallOK
  <2> QED
    BY <1>1, <2>5, <2>6, <2>7, CallMoves
<1>3. CASE ~Honours(p.token)
  <2> DEFINE c == [p EXCEPT !.pc = "answered", !.status = 401]
  <2>1. 401 \in Statuses \ {0}
    BY DEF Statuses
  <2>2. CallOK(c) /\ c.counted = p.counted /\ c.token = p.token
    BY <1>0, <2>1, AnsweredOK
  <2>3. proxied' = [proxied EXCEPT ![r] = c]
    BY <1>3 DEF ReadFact, Says
  <2> HIDE DEF c
  <2> QED
    BY <1>1, <2>2, <2>3, CallMoves
<1> QED
  BY <1>2, <1>3

(* A call that is answered without a response left open.                   *)
LEMMA SaysKeeps ==
  ASSUME ProxyIInv, NEW r \in ProxyCalls, NEW status \in Statuses \ {0}, Says(r, status),
         proxied[r].pc \in {"arrived", "plain", "stream"},
         UNCHANGED << configured, voiceFact, window, used >>
  PROVE  ProxyIInv'
<1> DEFINE c == [proxied[r] EXCEPT !.pc = "answered", !.status = status]
<1>1. CallOK(proxied[r]) /\ proxied[r].upstream # "open"
  BY DEF ProxyIInv, CallsOK, CallOK
<1>2. CallOK(c) /\ c.counted = proxied[r].counted /\ c.token = proxied[r].token
  BY <1>1, AnsweredOK
<1>3. proxied' = [proxied EXCEPT ![r] = c]
  BY DEF Says
<1> HIDE DEF c
<1> QED
  BY <1>2, <1>3, CallMoves

(* One whose response is closed with the answer.                           *)
LEMMA ReleasedKeeps ==
  ASSUME ProxyIInv, NEW r \in ProxyCalls, NEW status \in Statuses \ {0},
         Releases(r, status),
         UNCHANGED << configured, voiceFact, window, used >>
  PROVE  ProxyIInv'
<1> DEFINE p == proxied[r]
           c == [p EXCEPT !.pc = "answered", !.status = status, !.upstream = "closed"]
<1>1. CallOK(p) /\ p \in CallState /\ "answered" \in Pcs /\ "closed" \in Upstreams
  BY DEF ProxyIInv, CallsOK, CallOK, Pcs, Upstreams
<1>2. c \in CallState /\ c.pc = "answered" /\ c.status = status /\ c.upstream = "closed"
  BY <1>1 DEF CallState
<1>3. /\ c.token = p.token /\ c.counted = p.counted /\ c.asked = p.asked
      /\ c.current = p.current /\ c.forwarded = p.forwarded
  BY <1>1 DEF CallState
<1>4. proxied' = [proxied EXCEPT ![r] = c]
  BY DEF Releases
<1> HIDE DEF c
<1>5. CallOK(c)
  BY <1>1, <1>2, <1>3 DEF CallOK
<1> QED
  BY <1>3, <1>4, <1>5, CallMoves

(* One that goes on, from a point behind the look-ups.                     *)
LEMMA GoesOnKeeps ==
  ASSUME ProxyIInv, NEW r \in ProxyCalls,
         NEW pc \in {"offered", "buffering", "relaying", "abandoned"},
         NEW upstream \in Upstreams,
         proxied[r].pc \in {"stream", "offered"},
         proxied' = [proxied EXCEPT ![r] = [@ EXCEPT !.pc = pc, !.upstream = upstream]],
         UNCHANGED << configured, voiceFact, window, used >>
  PROVE  ProxyIInv'
<1> DEFINE p == proxied[r]
           c == [p EXCEPT !.pc = pc, !.upstream = upstream]
<1>1. CallOK(p) /\ p \in CallState /\ pc \in Pcs /\ p.status = 0
  BY DEF ProxyIInv, CallsOK, CallOK, Pcs
<1>2. c \in CallState /\ c.pc = pc
  BY <1>1 DEF CallState
<1>3. /\ c.token = p.token /\ c.counted = p.counted /\ c.asked = p.asked
      /\ c.current = p.current /\ c.forwarded = p.forwarded /\ c.status = p.status
  BY <1>1 DEF CallState
<1>4. proxied' = [proxied EXCEPT ![r] = c]
  OBVIOUS
<1> HIDE DEF c
<1>5. CallOK(c)
  BY <1>1, <1>2, <1>3 DEF CallOK
<1> QED
  BY <1>3, <1>4, <1>5, CallMoves

LEMMA CallStepKeeps == ASSUME ProxyIInv, NEW r \in ProxyCalls, ProxyStep(r) PROVE ProxyIInv'
<1> DEFINE p == proxied[r]
<1>0. {200, 400, 429, 500, 502} \subseteq Statuses \ {0} /\ "open" \in Upstreams
  BY DEF Statuses, Upstreams
<1>1. CASE CallArrives(r) \/ Admit(r) \/ ReadHead(r) \/ ReadFact(r)
  BY <1>1, ArrivesKeeps, AdmitKeeps, ReadHeadKeeps, ReadFactKeeps
<1>2. CASE RefuseCall(r)
  <2>1. PICK status \in {400, 429} : Says(r, status)
    BY <1>2 DEF RefuseCall
  <2>2. p.pc = "arrived" /\ UNCHANGED << configured, voiceFact, window, used >>
    BY <1>2 DEF RefuseCall
  <2> QED
    BY <1>0, <2>1, <2>2, SaysKeeps
<1>3. CASE PostUpstream(r)
  <2>1. PICK status \in {200, 429, 502} : Says(r, status)
    BY <1>3 DEF PostUpstream
  <2>2. p.pc = "plain" /\ UNCHANGED << configured, voiceFact, window, used >>
    BY <1>3 DEF PostUpstream
  <2> QED
    BY <1>0, <2>1, <2>2, SaysKeeps
<1>4. CASE OpenUpstream(r)
  <2>1. p.pc = "stream" /\ UNCHANGED << configured, voiceFact, window, used >>
    BY <1>4 DEF OpenUpstream
  <2>2. CASE Says(r, 502)
    BY <1>0, <2>1, <2>2, SaysKeeps
  <2>3. ASSUME NEW pc \in {"offered", "buffering"},
               proxied' = [proxied EXCEPT ![r] = [@ EXCEPT !.pc = pc, !.upstream = "open"]]
        PROVE  ProxyIInv'
    <3>1. /\ pc \in {"offered", "buffering", "relaying", "abandoned"}
          /\ p.pc \in {"stream", "offered"} /\ "open" \in Upstreams
      BY <1>0, <2>1
    <3> QED
      BY <2>1, <2>3, <3>1, GoesOnKeeps, Zenon
  <2> QED
    BY <1>4, <2>2, <2>3 DEF OpenUpstream
<1>5. CASE BufferUpstream(r)
  <2>1. UNCHANGED << configured, voiceFact, window, used >>
    BY <1>5 DEF BufferUpstream
  <2>2. PICK status \in {200, 429, 500, 502} : Releases(r, status)
    BY <1>5 DEF BufferUpstream
  <2> QED
    BY <1>0, <2>1, <2>2, ReleasedKeeps
<1>6. CASE StartRelay(r)
  <2>1. PICK pc \in {"relaying", "abandoned"} : Goes(r, pc)
    BY <1>6 DEF StartRelay
  <2>2. p.pc = "offered" /\ UNCHANGED << configured, voiceFact, window, used >>
    BY <1>6 DEF StartRelay
  <2>3. p \in CallState /\ p.upstream \in Upstreams
    BY DEF ProxyIInv, CallsOK, CallOK, CallState
  <2>4. proxied' = [proxied EXCEPT ![r] = [@ EXCEPT !.pc = pc, !.upstream = p.upstream]]
    <3>1. [p EXCEPT !.pc = pc, !.upstream = p.upstream] = [p EXCEPT !.pc = pc]
      BY <2>3 DEF CallState
    <3> QED
      BY <2>1, <3>1 DEF Goes
  <2> QED
    BY <2>1, <2>2, <2>3, <2>4, GoesOnKeeps
<1>7. CASE EndRelay(r)
  <2>1. UNCHANGED << configured, voiceFact, window, used >> /\ Releases(r, 200)
    BY <1>7 DEF EndRelay
  <2> QED
    BY <1>0, <2>1, ReleasedKeeps
<1> QED
  BY <1>1, <1>2, <1>3, <1>4, <1>5, <1>6, <1>7 DEF ProxyStep

LEMMA StutterKeeps == ASSUME ProxyIInv, UNCHANGED proxyVars PROVE ProxyIInv'
<1>1. StateOK'
  BY DEF proxyVars, ProxyIInv, StateOK
<1>2. CallsOK'
  BY DEF proxyVars, ProxyIInv, CallsOK, CallOK, IsCurrent
<1>3. CountsOK'
  BY DEF proxyVars, ProxyIInv, CountsOK, CountedFor
<1> QED
  BY <1>1, <1>2, <1>3 DEF ProxyIInv

----------------------------------------------------------------------------
(* What the invariant gives.                                               *)

LEMMA ProxyIInvImplies == ProxyIInv => ProxyInv
<1> SUFFICES ASSUME ProxyIInv PROVE ProxyInv
  OBVIOUS
<1> USE ProxyAssumption
<1>1. ProxyTypeOK
  BY DEF ProxyIInv, StateOK, CallsOK, CallOK, ProxyTypeOK, Sids
<1>2. StaleNeverForwarded
  BY DEF ProxyIInv, CallsOK, CallOK, StaleNeverForwarded
<1>3. UpstreamReleased
  BY DEF ProxyIInv, CallsOK, CallOK, CallState, UpstreamReleased
<1>4. FloodStopsAtQuota
  <2> SUFFICES ASSUME NEW s \in Sids, NEW w \in 0..MaxWindows
               PROVE  Cardinality(Asking(s, w)) <= IF w = 0 THEN 0 ELSE Quota
    BY DEF FloodStopsAtQuota, Asking, Sids
  <2>1. CASE w = 0
    <3>1. Asking(s, w) = {}
      BY <2>1 DEF ProxyIInv, CallsOK, CallOK, Asking
    <3> QED
      BY <2>1, <3>1, FS_EmptySet
  <2>2. CASE w # 0
    <3>1. w \in 1..MaxWindows
      BY <2>2
    <3>2. /\ IsFiniteSet(CountedFor(s, w)) /\ Cardinality(CountedFor(s, w)) <= Quota
      BY <3>1 DEF ProxyIInv, CountsOK
    <3>3. Asking(s, w) \subseteq CountedFor(s, w)
      BY DEF CountedFor, Asking
    <3>4. /\ Cardinality(Asking(s, w)) <= Cardinality(CountedFor(s, w))
          /\ Cardinality(Asking(s, w)) \in Nat /\ Cardinality(CountedFor(s, w)) \in Nat
      BY <3>2, <3>3, FS_Subset, FS_CardinalityType
    <3> QED
      BY <2>2, <3>2, <3>4
  <2> QED
    BY <2>1, <2>2
<1> QED
  BY <1>1, <1>2, <1>3, <1>4 DEF ProxyInv

(* For any calls, sessions, quota and bounds: no stale token is forwarded, *)
(* no window asks the database more often than the quota for one session,  *)
(* and the model's response is not left open behind an answer              *)
(* (proxy_deepgram_think_chat_completions).                                *)
THEOREM ProxyInvariant == ProxySpec => []ProxyInv
<1>1. ASSUME ProxyIInv, [ProxyNext]_proxyVars PROVE ProxyIInv'
  BY <1>1, FactMoves, WindowMoves, CallStepKeeps, StutterKeeps DEF ProxyNext
<1> QED
  BY <1>1, InitProxy, ProxyIInvImplies, PTL DEF ProxySpec

(* Whatever is bootstrapped or completed between the two queries of a      *)
(* call: a token that was stale when it came in is never forwarded         *)
(* (lines 146-177).                                                        *)
THEOREM NoStaleForwarded == ProxySpec => []StaleNeverForwarded
<1>1. ProxyInv => StaleNeverForwarded
  BY DEF ProxyInv
<1> QED
  BY <1>1, ProxyInvariant, PTL

-----------------------------------------------------------------------------
(* The page.  What its record holds, field by field; a step changes few of *)
(* them, so that the sets can stay closed in most proofs.                  *)
Callers == {"start", "end", "page", "failure"}
Contexts == {"input", "output"}
Waits == {"no", "bootstrap", "cleanup", "output", "promise"}
EndWaits == {"no", "cleanup", "posting"}
Lights == {"connected", "listening", "thinking", "speaking"}
Socks == {"none", "connecting", "open", "closing", "closed"}
Captures == {"none", "asking", "resuming", "failed", "done"}
Audio == {"none", "live", "closing"}
Line == [conn : Conns, text : Texts]
Chunk == [chunk : Nat, fresh : BOOLEAN]
ConnOrNone == Conns \cup {0}
Cleanings == SUBSET (Callers \X Contexts)
Clicks == 0..MaxStarts
LitSets == SUBSET Lights
Lines == Seq(Line)
Micsets == SUBSET Conns
SockTable == [Conns -> Socks]
CaptureTable == [Conns -> Captures]
SettledTable == [Conns -> BOOLEAN]
Queues == SUBSET Chunk
Played == Seq(Nat)

VoiceState ==
  [mounted : BOOLEAN, clicks : Clicks, starting : Waits, ending : EndWaits,
   started : BOOLEAN, sent : Lines, lit : LitSets, sock : SockTable,
   capture : CaptureTable, settled : SettledTable, mics : Micsets,
   cleaning : Cleanings, ws : ConnOrNone, initTimer : ConnOrNone,
   thinkTimer : BOOLEAN, stream : ConnOrNone, input : Audio, output : Audio,
   ready : BOOLEAN, manual : BOOLEAN, transcript : Lines, messages : Nat,
   queue : Queues, chainOk : BOOLEAN, playing : Played, heard : Nat, cut : Nat]

(* The stream that the hook holds is that of a capture which is done, so   *)
(* that a capture under way still has its tracks when it gets to them.     *)
Streams(v) ==
  /\ v.stream # 0 => v.stream \in v.mics /\ v.capture[v.stream] = "done"
  /\ \A c \in Conns : v.capture[c] = "resuming" => c \in v.mics

(* Only the socket that the hook holds can be open, and callbacks and      *)
(* timers belong to a connection that has come as far as a socket.         *)
Sockets(v) ==
  /\ \A c \in Conns : v.sock[c] \in {"connecting", "open"} => c = v.ws
  /\ \A c \in Conns : v.capture[c] # "none" => v.sock[c] # "none"
  /\ v.initTimer # 0 => v.sock[v.initTimer] # "none"

(* All lines are of one connection: of that one, if there is one.          *)
OneTalk(v) ==
  /\ \A i, j \in DOMAIN v.transcript : v.transcript[i].conn = v.transcript[j].conn
  /\ v.ws # 0 => \A i \in DOMAIN v.transcript : v.transcript[i].conn = v.ws

(* What was sent is forgotten before a start clears the transcript.        *)
Kept(v) ==
  /\ Len(v.sent) <= Len(v.transcript)
  /\ \A i \in 1..Len(v.sent) : v.sent[i] = v.transcript[i]
  /\ v.starting # "no" => v.sent = << >>

(* A start waits for at most one thing.  While it waits for its cleanup    *)
(* every earlier start has been settled, so that no late callback can free *)
(* the button; when it makes its socket there is neither an old one nor a  *)
(* line.  `caller' is the coroutine whose cleanup is being run right now.  *)
Starts(v, caller) ==
  /\ v.starting # "no" => v.clicks # 0
  /\ v.starting = "output" => v.ws = 0 /\ v.transcript = << >>
  /\ caller = "start" => v.starting = "cleanup"
  /\ \A x \in Contexts : <<"start", x>> \in v.cleaning =>
       v.starting = "cleanup" /\ caller # "start"
  /\ <<"start", "input">> \notin v.cleaning \/ <<"start", "output">> \notin v.cleaning
  /\ \A c \in Conns : v.sock[c] # "none" /\ ~v.settled[c] =>
       v.starting = "promise" /\ c = v.clicks

(* An end that is waited for has a cleanup that will tell it.              *)
Ends(v, caller) ==
  v.ending = "cleanup" =>
    caller = "end" \/ \E x \in Contexts : <<"end", x>> \in v.cleaning

(* The chunks of the current chain had not arrived at the last stop, and   *)
(* come after everything that plays.                                       *)
Sound(v) ==
  /\ v.cut <= v.heard
  /\ \A e \in v.queue : e.chunk <= v.heard /\ (e.fresh => e.chunk > v.cut)
  /\ \A i \in DOMAIN v.playing :
       /\ v.playing[i] > v.cut /\ v.playing[i] <= v.heard
       /\ \A j \in 1..(i - 1) : v.playing[j] < v.playing[i]
       /\ \A e \in v.queue : e.fresh => v.playing[i] < e.chunk

Agrees(v, caller) ==
  /\ v \in VoiceState
  /\ Streams(v) /\ Sockets(v) /\ OneTalk(v) /\ Kept(v)
  /\ Starts(v, caller) /\ Ends(v, caller) /\ Sound(v)

(* Between two steps no cleanup is being run.                              *)
AgentIInv == Agrees(voice, "nobody")

LEMMA StopTyped ==
  ASSUME NEW v \in VoiceState
  PROVE  StopPlayback(v) \in VoiceState
<1>0. v.queue \in Queues  BY DEF VoiceState
<1>a. \A e \in v.queue : [chunk |-> e.chunk, fresh |-> FALSE] \in Chunk
  BY <1>0 DEF Queues, Chunk
<1>1. {[chunk |-> e.chunk, fresh |-> FALSE] : e \in v.queue} \in Queues
  BY <1>a DEF Queues
<1>2. << >> \in Played /\ v.lit \ {"speaking"} \in LitSets
  BY DEF VoiceState, Played, LitSets
<1>3. QED  BY <1>1, <1>2 DEF StopPlayback, VoiceState

LEMMA TeardownTyped ==
  ASSUME NEW v \in VoiceState
  PROVE  Teardown(v) \in VoiceState
<1> DEFINE w == StopPlayback(v)
<1>1. w \in VoiceState  BY StopTyped
<1> HIDE DEF w
<1>2. w.mics \ {v.stream} \in Micsets /\ 0 \in ConnOrNone
  BY <1>1 DEF VoiceState, Micsets, ConnOrNone
<1>3. [w EXCEPT !.manual = TRUE, !.ready = FALSE, !.initTimer = 0, !.thinkTimer = FALSE,
                !.mics = @ \ {v.stream}, !.stream = 0] \in VoiceState
  BY <1>1, <1>2 DEF VoiceState
<1>4. QED  BY <1>3 DEF Teardown, w

LEMMA TeardownSays ==
  ASSUME NEW v \in VoiceState
  PROVE  LET w == Teardown(v)
         IN /\ w.starting = v.starting /\ w.ending = v.ending /\ w.sock = v.sock
            /\ w.capture = v.capture /\ w.settled = v.settled /\ w.cleaning = v.cleaning
            /\ w.ws = v.ws /\ w.transcript = v.transcript /\ w.sent = v.sent
            /\ w.clicks = v.clicks /\ w.heard = v.heard /\ w.cut = v.heard
            /\ w.queue = {[chunk |-> e.chunk, fresh |-> FALSE] : e \in v.queue}
            /\ w.playing = << >> /\ w.initTimer = 0 /\ w.stream = 0
            /\ w.mics = v.mics \ {v.stream} /\ w.input = v.input /\ w.output = v.output
  BY DEF Teardown, StopPlayback, VoiceState

LEMMA TeardownKeeps ==
  ASSUME NEW v, NEW caller, Agrees(v, caller)
  PROVE  Agrees(Teardown(v), caller)
<1> DEFINE w == Teardown(v)
<1>v. v \in VoiceState  BY DEF Agrees
<1>w. w \in VoiceState  BY <1>v, TeardownTyped
<1>1. /\ w.starting = v.starting /\ w.ending = v.ending /\ w.sock = v.sock
      /\ w.capture = v.capture /\ w.settled = v.settled /\ w.cleaning = v.cleaning
      /\ w.ws = v.ws /\ w.transcript = v.transcript /\ w.sent = v.sent
      /\ w.clicks = v.clicks /\ w.heard = v.heard /\ w.cut = v.heard
      /\ w.queue = {[chunk |-> e.chunk, fresh |-> FALSE] : e \in v.queue}
      /\ w.playing = << >> /\ w.initTimer = 0 /\ w.stream = 0
      /\ w.mics = v.mics \ {v.stream} /\ w.input = v.input /\ w.output = v.output
  BY <1>v, TeardownSays
<1> HIDE DEF w
<1>2. Streams(w)
  <2>1. \A c \in Conns : v.capture[c] = "resuming" => c # v.stream
    BY AgentAssumption DEF Agrees, Streams, Conns
  <2>2. QED  BY <2>1, <1>1 DEF Agrees, Streams
<1>3. Sockets(w)  BY <1>1 DEF Agrees, Sockets
<1>4. OneTalk(w)  BY <1>1 DEF Agrees, OneTalk
<1>5. Kept(w)  BY <1>1 DEF Agrees, Kept
<1>6. Starts(w, caller)  BY <1>1 DEF Agrees, Starts
<1>7. Ends(w, caller)  BY <1>1 DEF Agrees, Ends
<1>8. Sound(w)  BY <1>v, <1>1 DEF Agrees, Sound, VoiceState, Queues, Chunk
<1>9. QED  BY <1>w, <1>2, <1>3, <1>4, <1>5, <1>6, <1>7, <1>8 DEF Agrees, w

(* The button is free again.                                               *)
LEMMA StartFailedKeeps ==
  ASSUME NEW v, NEW caller, Agrees(v, caller),
         caller = "start" \/ (v.starting # "cleanup" /\ caller = "nobody"),
         \A c \in Conns : v.sock[c] # "none" => v.settled[c]
  PROVE  Agrees(StartFailed(v), "nobody")
<1> DEFINE w == StartFailed(v)
<1>v. v \in VoiceState  BY DEF Agrees
<1>w. w \in VoiceState  BY <1>v DEF StartFailed, VoiceState, Waits
<1>1. /\ w.starting = "no" /\ w.ending = v.ending /\ w.sock = v.sock
      /\ w.capture = v.capture /\ w.settled = v.settled /\ w.cleaning = v.cleaning
      /\ w.ws = v.ws /\ w.transcript = v.transcript /\ w.sent = v.sent
      /\ w.clicks = v.clicks /\ w.heard = v.heard /\ w.cut = v.cut /\ w.queue = v.queue
      /\ w.playing = v.playing /\ w.initTimer = v.initTimer /\ w.stream = v.stream
      /\ w.mics = v.mics /\ w.input = v.input /\ w.output = v.output
  BY <1>v DEF StartFailed, VoiceState
<1> HIDE DEF w
<1>2. Streams(w)  BY <1>1 DEF Agrees, Streams
<1>3. Sockets(w)  BY <1>1 DEF Agrees, Sockets
<1>4. OneTalk(w)  BY <1>1 DEF Agrees, OneTalk
<1>5. Kept(w)  BY <1>1 DEF Agrees, Kept
<1>6. Starts(w, "nobody")  BY <1>1 DEF Agrees, Starts, Contexts
<1>7. Ends(w, "nobody")  BY <1>1 DEF Agrees, Ends
<1>8. Sound(w)  BY <1>1 DEF Agrees, Sound
<1>9. QED  BY <1>w, <1>2, <1>3, <1>4, <1>5, <1>6, <1>7, <1>8 DEF Agrees, w

(* onEndConversation goes on.                                              *)
LEMMA EndedKeeps ==
  ASSUME NEW v, NEW caller \in {"end", "nobody"}, Agrees(v, caller),
         NEW end \in {"no", "posting"}
  PROVE  Agrees([v EXCEPT !.ending = end], "nobody")
<1> DEFINE w == [v EXCEPT !.ending = end]
<1>v. v \in VoiceState  BY DEF Agrees
<1>w. w \in VoiceState  BY <1>v DEF VoiceState, EndWaits
<1>1. /\ w.starting = v.starting /\ w.ending = end /\ w.sock = v.sock
      /\ w.capture = v.capture /\ w.settled = v.settled /\ w.cleaning = v.cleaning
      /\ w.ws = v.ws /\ w.transcript = v.transcript /\ w.sent = v.sent
      /\ w.clicks = v.clicks /\ w.heard = v.heard /\ w.cut = v.cut /\ w.queue = v.queue
      /\ w.playing = v.playing /\ w.initTimer = v.initTimer /\ w.stream = v.stream
      /\ w.mics = v.mics /\ w.input = v.input /\ w.output = v.output
  BY <1>v DEF VoiceState
<1> HIDE DEF w
<1>2. Streams(w)  BY <1>1 DEF Agrees, Streams
<1>3. Sockets(w)  BY <1>1 DEF Agrees, Sockets
<1>4. OneTalk(w)  BY <1>1 DEF Agrees, OneTalk
<1>5. Kept(w)  BY <1>1 DEF Agrees, Kept
<1>6. Starts(w, "nobody")  BY <1>1 DEF Agrees, Starts
<1>7. Ends(w, "nobody")  BY <1>1 DEF Ends
<1>8. Sound(w)  BY <1>1 DEF Agrees, Sound
<1>9. QED  BY <1>w, <1>2, <1>3, <1>4, <1>5, <1>6, <1>7, <1>8 DEF Agrees, w

LEMMA BrokenKeeps ==
  ASSUME NEW v, NEW caller \in Callers, Agrees(v, caller)
  PROVE  Agrees(Broken(v, caller), "nobody")
<1>1. CASE caller = "start"
  <2>1. \A c \in Conns : v.sock[c] # "none" => v.settled[c]
    BY <1>1 DEF Agrees, Starts
  <2>2. QED  BY <1>1, <2>1, StartFailedKeeps DEF Broken
<1>2. CASE caller = "end"
  <2>1. Broken(v, caller) = [v EXCEPT !.ending = "no"]  BY <1>2 DEF Broken
  <2>2. QED  BY <1>2, <2>1, EndedKeeps
<1>3. CASE caller \notin {"start", "end"}
  <2>1. Broken(v, caller) = v  BY <1>3 DEF Broken
  <2>2. Starts(v, "nobody") /\ Ends(v, "nobody")
    BY <1>3 DEF Agrees, Starts, Ends
  <2>3. QED  BY <2>1, <2>2 DEF Agrees
<1>4. QED  BY <1>1, <1>2, <1>3

LEMMA ClosingKeeps ==
  ASSUME NEW v, NEW caller, Agrees(v, caller)
  PROVE  LET w == [Closing(v, v.ws) EXCEPT !.ws = 0, !.lit = {}]
         IN Agrees(w, caller) /\ w.ws = 0 /\ w.starting = v.starting
<1> DEFINE w == [Closing(v, v.ws) EXCEPT !.ws = 0, !.lit = {}]
<1>v. v \in VoiceState /\ v.sock \in SockTable  BY DEF Agrees, VoiceState
<1>a. 0 \in ConnOrNone /\ {} \in LitSets /\ v.ws \in Conns \cup {0}
  BY <1>v DEF ConnOrNone, LitSets, VoiceState
<1>b. Closing(v, v.ws) \in VoiceState
  <2>1. v.ws # 0 => [v.sock EXCEPT ![v.ws] = "closing"] \in SockTable
    BY <1>v, <1>a DEF SockTable, Socks
  <2>2. QED  BY <1>v, <2>1 DEF Closing, VoiceState
<1>w. w \in VoiceState  BY <1>a, <1>b DEF VoiceState
<1>1. /\ w.starting = v.starting /\ w.ending = v.ending
      /\ w.capture = v.capture /\ w.settled = v.settled /\ w.cleaning = v.cleaning
      /\ w.ws = 0 /\ w.transcript = v.transcript /\ w.sent = v.sent
      /\ w.clicks = v.clicks /\ w.heard = v.heard /\ w.cut = v.cut /\ w.queue = v.queue
      /\ w.playing = v.playing /\ w.initTimer = v.initTimer /\ w.stream = v.stream
      /\ w.mics = v.mics /\ w.input = v.input /\ w.output = v.output
  BY <1>v DEF Closing, VoiceState
<1>s. w.sock = IF v.ws # 0 /\ v.sock[v.ws] \in {"connecting", "open"}
                 THEN [v.sock EXCEPT ![v.ws] = "closing"] ELSE v.sock
  BY <1>v DEF Closing, VoiceState
<1> HIDE DEF w
<1>c. \A c \in Conns : /\ w.sock[c] = "none" <=> v.sock[c] = "none"
                       /\ w.sock[c] \notin {"connecting", "open"}
  <2>1. \A c \in Conns : v.sock[c] \in {"connecting", "open"} => c = v.ws /\ v.ws # 0
    BY AgentAssumption DEF Agrees, Sockets, Conns
  <2>2. QED  BY <2>1, <1>s, <1>v DEF SockTable
<1>2. Streams(w)  BY <1>1 DEF Agrees, Streams
<1>3. Sockets(w)
  <2>1. w.initTimer # 0 => w.initTimer \in Conns  BY <1>w DEF VoiceState, ConnOrNone
  <2>2. QED  BY <2>1, <1>1, <1>c DEF Agrees, Sockets
<1>4. OneTalk(w)  BY <1>1 DEF Agrees, OneTalk
<1>5. Kept(w)  BY <1>1 DEF Agrees, Kept
<1>6. Starts(w, caller)  BY <1>1, <1>c DEF Agrees, Starts
<1>7. Ends(w, caller)  BY <1>1 DEF Agrees, Ends
<1>8. Sound(w)  BY <1>1 DEF Agrees, Sound
<1>9. Agrees(w, caller) /\ w.ws = 0 /\ w.starting = v.starting
  BY <1>1, <1>w, <1>2, <1>3, <1>4, <1>5, <1>6, <1>7, <1>8 DEF Agrees
<1>10. QED  BY <1>9 DEF w


LEMMA CleanedKeeps ==
  ASSUME NEW v, NEW caller \in Callers, Agrees(v, caller), v.ws = 0
  PROVE  Agrees(Cleaned(v, caller), "nobody")
<1>v. v \in VoiceState  BY DEF Agrees
<1>1. CASE caller = "start"
  <2> DEFINE w == [v EXCEPT !.starting = "output", !.transcript = << >>, !.ready = FALSE,
                     !.manual = FALSE, !.lit = {},
                     !.output = IF @ = "none" THEN "live" ELSE @]
  <2>0. Cleaned(v, caller) = w  BY <1>1 DEF Cleaned
  <2>a. << >> \in Lines /\ {} \in LitSets /\ "output" \in Waits
        /\ (IF v.output = "none" THEN "live" ELSE v.output) \in Audio
    BY <1>v DEF Lines, LitSets, Waits, Audio, VoiceState
  <2>w. w \in VoiceState  BY <1>v, <2>a DEF VoiceState
  <2>1. /\ w.starting = "output" /\ w.ending = v.ending /\ w.sock = v.sock
        /\ w.capture = v.capture /\ w.settled = v.settled /\ w.cleaning = v.cleaning
        /\ w.ws = v.ws /\ w.transcript = << >> /\ w.sent = v.sent
        /\ w.clicks = v.clicks /\ w.heard = v.heard /\ w.cut = v.cut /\ w.queue = v.queue
        /\ w.playing = v.playing /\ w.initTimer = v.initTimer /\ w.stream = v.stream
        /\ w.mics = v.mics /\ w.input = v.input
    BY <1>v DEF VoiceState
  <2> HIDE DEF w
  <2>b. v.starting = "cleanup" /\ v.sent = << >>
    BY <1>1 DEF Agrees, Starts, Kept
  <2>2. Streams(w)  BY <2>1 DEF Agrees, Streams
  <2>3. Sockets(w)  BY <2>1 DEF Agrees, Sockets
  <2>4. OneTalk(w)  BY <2>1 DEF OneTalk
  <2>5. Kept(w)  BY <2>1, <2>b DEF Kept
  <2>6. Starts(w, "nobody")  BY <1>1, <2>1, <2>b DEF Agrees, Starts
  <2>7. Ends(w, "nobody")  BY <1>1, <2>1 DEF Agrees, Ends
  <2>8. Sound(w)  BY <2>1 DEF Agrees, Sound
  <2>9. QED  BY <2>0, <2>w, <2>2, <2>3, <2>4, <2>5, <2>6, <2>7, <2>8 DEF Agrees
<1>2. CASE caller = "end"
  <2>1. PICK end \in {"no", "posting"} : Cleaned(v, caller) = [v EXCEPT !.ending = end]
    BY <1>2 DEF Cleaned
  <2>2. QED  BY <1>2, <2>1, EndedKeeps
<1>3. CASE caller \notin {"start", "end"}
  <2>1. Cleaned(v, caller) = v  BY <1>3 DEF Cleaned
  <2>2. Starts(v, "nobody") /\ Ends(v, "nobody")
    BY <1>3 DEF Agrees, Starts, Ends
  <2>3. QED  BY <2>1, <2>2 DEF Agrees
<1>4. QED  BY <1>1, <1>2, <1>3

LEMMA CloseSocketKeeps ==
  ASSUME NEW v, NEW caller \in Callers, Agrees(v, caller)
  PROVE  Agrees(CloseSocket(v, caller), "nobody")
BY ClosingKeeps, CleanedKeeps DEF CloseSocket

(* A cleanup that waits for a context.                                     *)
LEMMA WaitKeeps ==
  ASSUME NEW v, NEW caller \in Callers, NEW context \in Contexts, Agrees(v, caller),
         NEW w \in VoiceState,
         w.cleaning = v.cleaning \cup {<<caller, context>>},
         /\ w.starting = v.starting /\ w.ending = v.ending /\ w.sock = v.sock
         /\ w.capture = v.capture /\ w.settled = v.settled
         /\ w.ws = v.ws /\ w.transcript = v.transcript /\ w.sent = v.sent
         /\ w.clicks = v.clicks /\ w.heard = v.heard /\ w.cut = v.cut /\ w.queue = v.queue
         /\ w.playing = v.playing /\ w.initTimer = v.initTimer /\ w.stream = v.stream
         /\ w.mics = v.mics
  PROVE  Agrees(w, "nobody")
<1>2. Streams(w)  BY DEF Agrees, Streams
<1>3. Sockets(w)  BY DEF Agrees, Sockets
<1>4. OneTalk(w)  BY DEF Agrees, OneTalk
<1>5. Kept(w)  BY DEF Agrees, Kept
<1>6. Starts(w, "nobody")
  <2>1. caller = "start" =>
          v.starting = "cleanup" /\ \A x \in Contexts : <<"start", x>> \notin v.cleaning
    BY DEF Agrees, Starts
  <2>2. QED  BY <2>1 DEF Agrees, Starts, Contexts
<1>7. Ends(w, "nobody")  BY DEF Agrees, Ends
<1>8. Sound(w)  BY DEF Agrees, Sound
<1>9. QED  BY <1>2, <1>3, <1>4, <1>5, <1>6, <1>7, <1>8 DEF Agrees

LEMMA CloseOutputKeeps ==
  ASSUME NEW v, NEW caller \in Callers, Agrees(v, caller)
  PROVE  Agrees(CloseOutput(v, caller), "nobody")
<1>v. v \in VoiceState /\ v.output \in Audio  BY DEF Agrees, VoiceState
<1>1. CASE v.output = "none"  BY <1>1, CloseSocketKeeps DEF CloseOutput
<1>2. CASE v.output = "closing"  BY <1>2, BrokenKeeps DEF CloseOutput
<1>3. CASE v.output = "live"
  <2> DEFINE w == [v EXCEPT !.output = "closing", !.cleaning = @ \cup {<<caller, "output">>}]
  <2>1. v.cleaning \cup {<<caller, "output">>} \in Cleanings
    <3>1. v.cleaning \in Cleanings  BY <1>v DEF VoiceState
    <3>2. QED  BY <3>1 DEF Cleanings, Contexts
  <2>2. w \in VoiceState  BY <1>v, <2>1 DEF VoiceState, Audio
  <2>3. w.cleaning = v.cleaning \cup {<<caller, "output">>}  BY <1>v DEF VoiceState
  <2>4. /\ w.starting = v.starting /\ w.ending = v.ending /\ w.sock = v.sock
        /\ w.capture = v.capture /\ w.settled = v.settled
        /\ w.ws = v.ws /\ w.transcript = v.transcript /\ w.sent = v.sent
        /\ w.clicks = v.clicks /\ w.heard = v.heard /\ w.cut = v.cut /\ w.queue = v.queue
        /\ w.playing = v.playing /\ w.initTimer = v.initTimer /\ w.stream = v.stream
        /\ w.mics = v.mics
    BY <1>v DEF VoiceState
  <2>5. CloseOutput(v, caller) = w  BY <1>3 DEF CloseOutput
  <2> HIDE DEF w
  <2>6. QED  BY <2>2, <2>3, <2>4, <2>5, WaitKeeps DEF Contexts
<1>4. QED  BY <1>v, <1>1, <1>2, <1>3 DEF Audio

LEMMA CloseInputKeeps ==
  ASSUME NEW v, NEW caller \in Callers, Agrees(v, caller)
  PROVE  Agrees(CloseInput(v, caller), "nobody")
<1>v. v \in VoiceState /\ v.input \in Audio  BY DEF Agrees, VoiceState
<1>1. CASE v.input = "none"  BY <1>1, CloseOutputKeeps DEF CloseInput
<1>2. CASE v.input = "closing"  BY <1>2, BrokenKeeps DEF CloseInput
<1>3. CASE v.input = "live"
  <2> DEFINE w == [v EXCEPT !.input = "closing", !.cleaning = @ \cup {<<caller, "input">>}]
  <2>1. v.cleaning \cup {<<caller, "input">>} \in Cleanings
    <3>1. v.cleaning \in Cleanings  BY <1>v DEF VoiceState
    <3>2. QED  BY <3>1 DEF Cleanings, Contexts
  <2>2. w \in VoiceState  BY <1>v, <2>1 DEF VoiceState, Audio
  <2>3. w.cleaning = v.cleaning \cup {<<caller, "input">>}  BY <1>v DEF VoiceState
  <2>4. /\ w.starting = v.starting /\ w.ending = v.ending /\ w.sock = v.sock
        /\ w.capture = v.capture /\ w.settled = v.settled
        /\ w.ws = v.ws /\ w.transcript = v.transcript /\ w.sent = v.sent
        /\ w.clicks = v.clicks /\ w.heard = v.heard /\ w.cut = v.cut /\ w.queue = v.queue
        /\ w.playing = v.playing /\ w.initTimer = v.initTimer /\ w.stream = v.stream
        /\ w.mics = v.mics
    BY <1>v DEF VoiceState
  <2>5. CloseInput(v, caller) = w  BY <1>3 DEF CloseInput
  <2> HIDE DEF w
  <2>6. QED  BY <2>2, <2>3, <2>4, <2>5, WaitKeeps DEF Contexts
<1>4. QED  BY <1>v, <1>1, <1>2, <1>3 DEF Audio

LEMMA CleanupKeeps ==
  ASSUME NEW v, NEW caller \in Callers, Agrees(v, caller)
  PROVE  Agrees(Cleanup(v, caller), "nobody")
BY TeardownKeeps, CloseInputKeeps DEF Cleanup

(* What no part of the invariant speaks of may change.                     *)
LEMMA AsideKeeps ==
  ASSUME NEW v, NEW caller, Agrees(v, caller), NEW w \in VoiceState,
         w.initTimer \in {0, v.initTimer},
         /\ w.starting = v.starting /\ w.ending = v.ending /\ w.sock = v.sock
         /\ w.capture = v.capture /\ w.settled = v.settled /\ w.cleaning = v.cleaning
         /\ w.ws = v.ws /\ w.transcript = v.transcript /\ w.sent = v.sent
         /\ w.clicks = v.clicks /\ w.heard = v.heard /\ w.cut = v.cut /\ w.queue = v.queue
         /\ w.playing = v.playing /\ w.stream = v.stream
         /\ w.mics = v.mics
  PROVE  Agrees(w, caller)
<1>2. Streams(w)  BY DEF Agrees, Streams
<1>3. Sockets(w)  BY DEF Agrees, Sockets
<1>4. OneTalk(w)  BY DEF Agrees, OneTalk
<1>5. Kept(w)  BY DEF Agrees, Kept
<1>6. Starts(w, caller)  BY DEF Agrees, Starts
<1>7. Ends(w, caller)  BY DEF Agrees, Ends
<1>8. Sound(w)  BY DEF Agrees, Sound
<1>9. QED  BY <1>2, <1>3, <1>4, <1>5, <1>6, <1>7, <1>8 DEF Agrees

LEMMA SettledKeeps ==
  ASSUME NEW v, Agrees(v, "nobody"), NEW c \in Conns, v.sock[c] # "none", ~v.settled[c]
  PROVE  LET w == [v EXCEPT !.settled[c] = TRUE]
         IN /\ Agrees(w, "nobody") /\ w.starting = "promise"
            /\ \A d \in Conns : w.sock[d] # "none" => w.settled[d]
<1> DEFINE w == [v EXCEPT !.settled[c] = TRUE]
<1>v. v \in VoiceState  BY DEF Agrees
<1>s. [v.settled EXCEPT ![c] = TRUE] \in SettledTable /\ v.settled \in SettledTable
  BY <1>v DEF VoiceState, SettledTable
<1>w. w \in VoiceState  BY <1>v, <1>s DEF VoiceState
<1>1. /\ w.starting = v.starting /\ w.ending = v.ending /\ w.sock = v.sock
      /\ w.capture = v.capture /\ w.settled = [v.settled EXCEPT ![c] = TRUE] /\ w.cleaning = v.cleaning
      /\ w.ws = v.ws /\ w.transcript = v.transcript /\ w.sent = v.sent
      /\ w.clicks = v.clicks /\ w.heard = v.heard /\ w.cut = v.cut /\ w.queue = v.queue
      /\ w.playing = v.playing /\ w.initTimer = v.initTimer /\ w.stream = v.stream
      /\ w.mics = v.mics /\ w.input = v.input /\ w.output = v.output
  BY <1>v DEF VoiceState
<1> HIDE DEF w
<1>a. v.starting = "promise" /\ \A d \in Conns : v.sock[d] # "none" => w.settled[d]
  BY <1>1, <1>s DEF Agrees, Starts, SettledTable
<1>2. Streams(w)  BY <1>1 DEF Agrees, Streams
<1>3. Sockets(w)  BY <1>1 DEF Agrees, Sockets
<1>4. OneTalk(w)  BY <1>1 DEF Agrees, OneTalk
<1>5. Kept(w)  BY <1>1 DEF Agrees, Kept
<1>6. Starts(w, "nobody")  BY <1>1, <1>a DEF Agrees, Starts
<1>7. Ends(w, "nobody")  BY <1>1 DEF Agrees, Ends
<1>8. Sound(w)  BY <1>1 DEF Agrees, Sound
<1>9. QED  BY <1>1, <1>a, <1>w, <1>2, <1>3, <1>4, <1>5, <1>6, <1>7, <1>8 DEF Agrees, w

LEMMA RejectKeeps ==
  ASSUME NEW v, Agrees(v, "nobody"), NEW c \in Conns, v.sock[c] # "none"
  PROVE  Agrees(Reject(v, c), "nobody")
<1>1. CASE v.settled[c]  BY <1>1 DEF Reject
<1>2. CASE ~v.settled[c]
  <2> DEFINE w == [v EXCEPT !.settled[c] = TRUE]
  <2>1. /\ Agrees(w, "nobody") /\ w.starting = "promise"
        /\ \A d \in Conns : w.sock[d] # "none" => w.settled[d]
    BY <1>2, SettledKeeps
  <2>2. Reject(v, c) = StartFailed(w)  BY <1>2 DEF Reject
  <2> HIDE DEF w
  <2>3. QED  BY <2>1, <2>2, StartFailedKeeps
<1>3. QED  BY <1>1, <1>2

LEMMA ResolveKeeps ==
  ASSUME NEW v, Agrees(v, "nobody"), NEW c \in Conns, v.sock[c] # "none"
  PROVE  Agrees(Resolve(v, c), "nobody")
<1>1. CASE v.settled[c]  BY <1>1 DEF Resolve
<1>2. CASE ~v.settled[c]
  <2> DEFINE u == [v EXCEPT !.settled[c] = TRUE]
             s == StartFailed(u)
             w == Resolve(v, c)
  <2>v. v \in VoiceState  BY DEF Agrees
  <2>1. /\ Agrees(u, "nobody") /\ u.starting = "promise"
        /\ \A d \in Conns : u.sock[d] # "none" => u.settled[d]
    BY <1>2, SettledKeeps
  <2>2. Agrees(s, "nobody")
    <3> HIDE DEF u
    <3>1. QED  BY <2>1, StartFailedKeeps
  <2>3. s \in VoiceState  BY <2>2 DEF Agrees
  <2>4. w = [s EXCEPT !.started = TRUE]
    BY <1>2, <2>v DEF Resolve, StartFailed, VoiceState
  <2> HIDE DEF w, s
  <2>5. w \in VoiceState  BY <2>3, <2>4 DEF VoiceState
  <2>6. w.initTimer = s.initTimer  BY <2>3, <2>4 DEF VoiceState
  <2>7. /\ w.starting = s.starting /\ w.ending = s.ending /\ w.sock = s.sock
        /\ w.capture = s.capture /\ w.settled = s.settled /\ w.cleaning = s.cleaning
        /\ w.ws = s.ws /\ w.transcript = s.transcript /\ w.sent = s.sent
        /\ w.clicks = s.clicks /\ w.heard = s.heard /\ w.cut = s.cut /\ w.queue = s.queue
        /\ w.playing = s.playing /\ w.stream = s.stream
        /\ w.mics = s.mics
    BY <2>3, <2>4 DEF VoiceState
  <2>8. Agrees(w, "nobody")  BY <2>2, <2>5, <2>6, <2>7, AsideKeeps
  <2>9. QED  BY <2>8 DEF w
<1>3. QED  BY <1>1, <1>2

(* A cleanup leaves the sockets it does not close as they are, and makes   *)
(* none.                                                                   *)
LEMMA CleanupMakesNone ==
  ASSUME NEW v \in VoiceState, NEW caller \in Callers, NEW c \in Conns, v.sock[c] # "none"
  PROVE  Cleanup(v, caller).sock[c] # "none"
<1> DEFINE w == Teardown(v)
<1>1. w \in VoiceState /\ w.sock[c] # "none"  BY TeardownTyped, TeardownSays
<1>2. Cleanup(v, caller) = CloseInput(w, caller)  BY DEF Cleanup
<1> HIDE DEF w
<1>3. Closing(w, w.ws).sock[c] # "none" /\ Closing(w, w.ws) \in VoiceState
  <2>0. w.sock \in SockTable /\ w.ws \in Conns \cup {0}  BY <1>1 DEF VoiceState, ConnOrNone
  <2>1. w.ws # 0 => [w.sock EXCEPT ![w.ws] = "closing"] \in SockTable
                    /\ [w.sock EXCEPT ![w.ws] = "closing"][c] # "none"
    BY <1>1, <2>0 DEF SockTable, Socks
  <2>2. QED  BY <1>1, <2>1 DEF Closing, VoiceState
<1>4. CloseSocket(w, caller).sock[c] # "none"
  BY <1>3 DEF CloseSocket, Cleaned, VoiceState
<1>5. Broken(w, caller).sock[c] # "none"  BY <1>1 DEF Broken, StartFailed, VoiceState
<1>6. w.output \in Audio /\ w.input \in Audio  BY <1>1 DEF VoiceState
<1>7. CloseOutput(w, caller).sock[c] # "none"
  BY <1>1, <1>4, <1>5, <1>6 DEF CloseOutput, Audio, VoiceState
<1>8. QED  BY <1>1, <1>2, <1>5, <1>6, <1>7 DEF CloseInput, Audio, VoiceState

LEMMA FailSessionStartKeeps ==
  ASSUME NEW v, Agrees(v, "nobody"), NEW c \in Conns, v.sock[c] # "none"
  PROVE  Agrees(FailSessionStart(v, c), "nobody")
<1>1. v \in VoiceState  BY DEF Agrees
<1>2. Starts(v, "failure") /\ Ends(v, "failure")  BY DEF Agrees, Starts, Ends
<1>3. Agrees(v, "failure")  BY <1>2 DEF Agrees
<1>4. Agrees(Cleanup(v, "failure"), "nobody")  BY <1>3, CleanupKeeps DEF Callers
<1>5. Cleanup(v, "failure").sock[c] # "none"  BY <1>1, CleanupMakesNone DEF Callers
<1>6. QED  BY <1>4, <1>5, RejectKeeps DEF FailSessionStart, HandleSessionFailure

LEMMA FailureKeeps ==
  ASSUME NEW v, Agrees(v, "nobody"), NEW c \in Conns, v.sock[c] # "none"
  PROVE  /\ Agrees(Failure(v, c), "nobody")
         /\ Agrees(HandleSessionFailure(v), "nobody")
<1>1. Starts(v, "failure") /\ Ends(v, "failure")  BY DEF Agrees, Starts, Ends
<1>2. Agrees(v, "failure")  BY <1>1 DEF Agrees
<1>3. Agrees(Cleanup(v, "failure"), "nobody")  BY <1>2, CleanupKeeps DEF Callers
<1>4. QED  BY <1>3, FailSessionStartKeeps DEF Failure, HandleSessionFailure

LEMMA LeaveKeeps ==
  ASSUME NEW v, Agrees(v, "nobody")
  PROVE  Agrees(Leave(v), "nobody")
<1> DEFINE w == [v EXCEPT !.mounted = FALSE]
<1>1. v \in VoiceState  BY DEF Agrees
<1>2. w \in VoiceState /\ w.initTimer = v.initTimer  BY <1>1 DEF VoiceState
<1>3. /\ w.starting = v.starting /\ w.ending = v.ending /\ w.sock = v.sock
      /\ w.capture = v.capture /\ w.settled = v.settled /\ w.cleaning = v.cleaning
      /\ w.ws = v.ws /\ w.transcript = v.transcript /\ w.sent = v.sent
      /\ w.clicks = v.clicks /\ w.heard = v.heard /\ w.cut = v.cut /\ w.queue = v.queue
      /\ w.playing = v.playing /\ w.stream = v.stream
      /\ w.mics = v.mics
  BY <1>1 DEF VoiceState
<1>4. Leave(v) = Cleanup(w, "page")  BY DEF Leave
<1> HIDE DEF w
<1>5. Agrees(w, "nobody")  BY <1>2, <1>3, AsideKeeps
<1>6. Starts(w, "page") /\ Ends(w, "page")  BY <1>5 DEF Agrees, Starts, Ends
<1>7. Agrees(w, "page")  BY <1>5, <1>6 DEF Agrees
<1>8. QED  BY <1>4, <1>7, CleanupKeeps DEF Callers

(* What the learner does.                                                  *)
LEMMA StartKeeps ==
  ASSUME NEW v, Agrees(v, "nobody"),
         v.starting = "no", v.clicks < MaxStarts
  PROVE  Agrees([v EXCEPT !.clicks = v.clicks + 1, !.starting = "bootstrap", !.sent = << >>], "nobody")
<1> DEFINE w == [v EXCEPT !.clicks = v.clicks + 1, !.starting = "bootstrap", !.sent = << >>]
<1>v. v \in VoiceState  BY DEF Agrees
<1>a. v.clicks + 1 \in Clicks /\ << >> \in Lines /\ v.clicks \in Nat
  BY <1>v, AgentAssumption DEF VoiceState, Clicks, Lines
<1>w. w \in VoiceState  BY <1>v, <1>a DEF VoiceState, Waits
<1>1. /\ w.starting = "bootstrap" /\ w.ending = v.ending /\ w.sock = v.sock
      /\ w.capture = v.capture /\ w.settled = v.settled /\ w.cleaning = v.cleaning
      /\ w.ws = v.ws /\ w.transcript = v.transcript /\ w.sent = << >>
      /\ w.clicks = v.clicks + 1 /\ w.heard = v.heard /\ w.cut = v.cut /\ w.queue = v.queue
      /\ w.playing = v.playing /\ w.initTimer = v.initTimer /\ w.stream = v.stream
      /\ w.mics = v.mics /\ w.input = v.input /\ w.output = v.output
  BY <1>v DEF VoiceState
<1> HIDE DEF w
<1>2. Streams(w)  BY <1>1 DEF Agrees, Streams
<1>3. Sockets(w)  BY <1>1 DEF Agrees, Sockets
<1>4. OneTalk(w)  BY <1>1 DEF Agrees, OneTalk
<1>5. Kept(w)  BY <1>1 DEF Kept
<1>6. Starts(w, "nobody")  BY <1>1, <1>a DEF Agrees, Starts, Contexts
<1>7. Ends(w, "nobody")  BY <1>1 DEF Agrees, Ends
<1>8. Sound(w)  BY <1>1 DEF Agrees, Sound
<1>9. QED  BY <1>w, <1>2, <1>3, <1>4, <1>5, <1>6, <1>7, <1>8 DEF Agrees, w

LEMMA EndKeeps ==
  ASSUME NEW v, Agrees(v, "nobody"),
         v.starting = "no"
  PROVE  Agrees([v EXCEPT !.ending = "cleanup", !.sent = v.transcript], "end")
<1> DEFINE w == [v EXCEPT !.ending = "cleanup", !.sent = v.transcript]
<1>v. v \in VoiceState  BY DEF Agrees
<1>w. w \in VoiceState  BY <1>v DEF VoiceState, EndWaits
<1>1. /\ w.starting = v.starting /\ w.ending = "cleanup" /\ w.sock = v.sock
      /\ w.capture = v.capture /\ w.settled = v.settled /\ w.cleaning = v.cleaning
      /\ w.ws = v.ws /\ w.transcript = v.transcript /\ w.sent = v.transcript
      /\ w.clicks = v.clicks /\ w.heard = v.heard /\ w.cut = v.cut /\ w.queue = v.queue
      /\ w.playing = v.playing /\ w.initTimer = v.initTimer /\ w.stream = v.stream
      /\ w.mics = v.mics /\ w.input = v.input /\ w.output = v.output
  BY <1>v DEF VoiceState
<1> HIDE DEF w
<1>2. Streams(w)  BY <1>1 DEF Agrees, Streams
<1>3. Sockets(w)  BY <1>1 DEF Agrees, Sockets
<1>4. OneTalk(w)  BY <1>1 DEF Agrees, OneTalk
<1>5. Kept(w)
  <2>1. v.transcript \in Lines  BY <1>v DEF VoiceState
  <2>2. Len(v.transcript) \in Nat  BY <2>1 DEF Lines
  <2>3. QED  BY <1>1, <2>2 DEF Kept
<1>6. Starts(w, "end")  BY <1>1 DEF Agrees, Starts
<1>7. Ends(w, "end")  BY DEF Ends
<1>8. Sound(w)  BY <1>1 DEF Agrees, Sound
<1>9. QED  BY <1>w, <1>2, <1>3, <1>4, <1>5, <1>6, <1>7, <1>8 DEF Agrees, w

(* What the page waits for.                                                *)
LEMMA BootstrappedKeeps ==
  ASSUME NEW v, Agrees(v, "nobody"),
         v.starting = "bootstrap"
  PROVE  Agrees([v EXCEPT !.starting = "cleanup"], "start")
<1> DEFINE w == [v EXCEPT !.starting = "cleanup"]
<1>v. v \in VoiceState  BY DEF Agrees
<1>w. w \in VoiceState  BY <1>v DEF VoiceState, Waits
<1>1. /\ w.starting = "cleanup" /\ w.ending = v.ending /\ w.sock = v.sock
      /\ w.capture = v.capture /\ w.settled = v.settled /\ w.cleaning = v.cleaning
      /\ w.ws = v.ws /\ w.transcript = v.transcript /\ w.sent = v.sent
      /\ w.clicks = v.clicks /\ w.heard = v.heard /\ w.cut = v.cut /\ w.queue = v.queue
      /\ w.playing = v.playing /\ w.initTimer = v.initTimer /\ w.stream = v.stream
      /\ w.mics = v.mics /\ w.input = v.input /\ w.output = v.output
  BY <1>v DEF VoiceState
<1> HIDE DEF w
<1>2. Streams(w)  BY <1>1 DEF Agrees, Streams
<1>3. Sockets(w)  BY <1>1 DEF Agrees, Sockets
<1>4. OneTalk(w)  BY <1>1 DEF Agrees, OneTalk
<1>5. Kept(w)  BY <1>1 DEF Agrees, Kept
<1>6. Starts(w, "start")  BY <1>1 DEF Agrees, Starts
<1>7. Ends(w, "start")  BY <1>1 DEF Agrees, Ends
<1>8. Sound(w)  BY <1>1 DEF Agrees, Sound
<1>9. QED  BY <1>w, <1>2, <1>3, <1>4, <1>5, <1>6, <1>7, <1>8 DEF Agrees, w

LEMMA OpenKeeps ==
  ASSUME NEW v, Agrees(v, "nobody"),
         v.starting = "output", v.output = "live"
  PROVE  Agrees([v EXCEPT !.starting = "promise", !.ws = v.clicks, !.sock[v.clicks] = "connecting", !.initTimer = v.clicks], "nobody")
<1> DEFINE w == [v EXCEPT !.starting = "promise", !.ws = v.clicks, !.sock[v.clicks] = "connecting", !.initTimer = v.clicks]
<1>v. v \in VoiceState  BY DEF Agrees
<1>a. v.clicks \in Conns /\ v.clicks # 0
  BY <1>v DEF Agrees, Starts, VoiceState, Clicks, Conns
<1>b. v.sock \in SockTable /\ [v.sock EXCEPT ![v.clicks] = "connecting"] \in SockTable
  BY <1>v, <1>a DEF VoiceState, SockTable, Socks
<1>w. w \in VoiceState  BY <1>v, <1>a, <1>b DEF VoiceState, Waits, ConnOrNone
<1>1. /\ w.starting = "promise" /\ w.ending = v.ending /\ w.sock = [v.sock EXCEPT ![v.clicks] = "connecting"]
      /\ w.capture = v.capture /\ w.settled = v.settled /\ w.cleaning = v.cleaning
      /\ w.ws = v.clicks /\ w.transcript = v.transcript /\ w.sent = v.sent
      /\ w.clicks = v.clicks /\ w.heard = v.heard /\ w.cut = v.cut /\ w.queue = v.queue
      /\ w.playing = v.playing /\ w.initTimer = v.clicks /\ w.stream = v.stream
      /\ w.mics = v.mics /\ w.input = v.input /\ w.output = v.output
  BY <1>v DEF VoiceState
<1> HIDE DEF w
<1>2. Streams(w)  BY <1>1 DEF Agrees, Streams
<1>3. Sockets(w)
  <2>1. \A c \in Conns : v.sock[c] \notin {"connecting", "open"}
    BY AgentAssumption DEF Agrees, Sockets, Starts, Conns
  <2>2. QED  BY <1>1, <1>a, <1>b, <2>1 DEF Agrees, Sockets, SockTable
<1>4. OneTalk(w)  BY <1>1 DEF Agrees, Starts, OneTalk
<1>5. Kept(w)  BY <1>1 DEF Agrees, Kept
<1>6. Starts(w, "nobody")  BY <1>1, <1>a, <1>b DEF Agrees, Starts, SockTable
<1>7. Ends(w, "nobody")  BY <1>1 DEF Agrees, Ends
<1>8. Sound(w)  BY <1>1 DEF Agrees, Sound
<1>9. QED  BY <1>w, <1>2, <1>3, <1>4, <1>5, <1>6, <1>7, <1>8 DEF Agrees, w

LEMMA ClosedContextKeeps ==
  ASSUME NEW v, Agrees(v, "nobody"), NEW waiting \in v.cleaning
  PROVE  /\ waiting[1] \in Callers
         /\ Agrees([v EXCEPT !.cleaning = @ \ {waiting}, !.input = "none"], waiting[1])
         /\ Agrees([v EXCEPT !.cleaning = @ \ {waiting}, !.output = "none"], waiting[1])
<1>v. v \in VoiceState /\ v.cleaning \in Cleanings  BY DEF Agrees, VoiceState
<1>c. PICK caller \in Callers, context \in Contexts : waiting = <<caller, context>>
  BY <1>v DEF Cleanings
<1>r. v.cleaning \ {waiting} \in Cleanings  BY <1>v DEF Cleanings
<1>s. caller = "start" =>
        v.starting = "cleanup" /\ \A x \in Contexts : <<"start", x>> \notin v.cleaning \ {waiting}
  BY <1>c DEF Agrees, Starts, Contexts
<1>e. v.ending = "cleanup" =>
        caller = "end" \/ \E x \in Contexts : <<"end", x>> \in v.cleaning \ {waiting}
  BY <1>c DEF Agrees, Ends
<1>1. ASSUME NEW w \in VoiceState, w.cleaning = v.cleaning \ {waiting},
             /\ w.starting = v.starting /\ w.ending = v.ending /\ w.sock = v.sock
             /\ w.capture = v.capture /\ w.settled = v.settled
             /\ w.ws = v.ws /\ w.transcript = v.transcript /\ w.sent = v.sent
             /\ w.clicks = v.clicks /\ w.heard = v.heard /\ w.cut = v.cut /\ w.queue = v.queue
             /\ w.playing = v.playing /\ w.initTimer = v.initTimer /\ w.stream = v.stream
             /\ w.mics = v.mics
      PROVE  Agrees(w, caller)
  <2>2. Streams(w)  BY <1>1 DEF Agrees, Streams
  <2>3. Sockets(w)  BY <1>1 DEF Agrees, Sockets
  <2>4. OneTalk(w)  BY <1>1 DEF Agrees, OneTalk
  <2>5. Kept(w)  BY <1>1 DEF Agrees, Kept
  <2>6. Starts(w, caller)
    BY <1>1, <1>s DEF Agrees, Starts
  <2>7. Ends(w, caller)  BY <1>1, <1>e DEF Ends
  <2>8. Sound(w)  BY <1>1 DEF Agrees, Sound
  <2>9. QED  BY <1>1, <2>2, <2>3, <2>4, <2>5, <2>6, <2>7, <2>8 DEF Agrees
<1>2. Agrees([v EXCEPT !.cleaning = @ \ {waiting}, !.input = "none"], caller)
  <2> DEFINE w == [v EXCEPT !.cleaning = @ \ {waiting}, !.input = "none"]
  <2>1. w \in VoiceState /\ w.cleaning = v.cleaning \ {waiting}
    BY <1>v, <1>r DEF VoiceState, Audio
  <2>2. /\ w.starting = v.starting /\ w.ending = v.ending /\ w.sock = v.sock
        /\ w.capture = v.capture /\ w.settled = v.settled
        /\ w.ws = v.ws /\ w.transcript = v.transcript /\ w.sent = v.sent
        /\ w.clicks = v.clicks /\ w.heard = v.heard /\ w.cut = v.cut /\ w.queue = v.queue
        /\ w.playing = v.playing /\ w.initTimer = v.initTimer /\ w.stream = v.stream
        /\ w.mics = v.mics
    BY <1>v DEF VoiceState
  <2> HIDE DEF w
  <2>3. Agrees(w, caller)  BY <1>1, <2>1, <2>2
  <2>4. QED  BY <2>3 DEF w
<1>3. Agrees([v EXCEPT !.cleaning = @ \ {waiting}, !.output = "none"], caller)
  <2> DEFINE w == [v EXCEPT !.cleaning = @ \ {waiting}, !.output = "none"]
  <2>1. w \in VoiceState /\ w.cleaning = v.cleaning \ {waiting}
    BY <1>v, <1>r DEF VoiceState, Audio
  <2>2. /\ w.starting = v.starting /\ w.ending = v.ending /\ w.sock = v.sock
        /\ w.capture = v.capture /\ w.settled = v.settled
        /\ w.ws = v.ws /\ w.transcript = v.transcript /\ w.sent = v.sent
        /\ w.clicks = v.clicks /\ w.heard = v.heard /\ w.cut = v.cut /\ w.queue = v.queue
        /\ w.playing = v.playing /\ w.initTimer = v.initTimer /\ w.stream = v.stream
        /\ w.mics = v.mics
    BY <1>v DEF VoiceState
  <2> HIDE DEF w
  <2>3. Agrees(w, caller)  BY <1>1, <2>1, <2>2
  <2>4. QED  BY <2>3 DEF w
<1>4. waiting[1] = caller  BY <1>c
<1>5. QED  BY <1>2, <1>3, <1>4

(* The callbacks of a connection.                                          *)
LEMMA WelcomeKeeps ==
  ASSUME NEW v, Agrees(v, "nobody"),
         NEW c \in Conns, v.sock[c] = "connecting"
  PROVE  Agrees([v EXCEPT !.sock[c] = "open"], "nobody")
<1> DEFINE w == [v EXCEPT !.sock[c] = "open"]
<1>v. v \in VoiceState  BY DEF Agrees
<1>s. v.sock \in SockTable /\ [v.sock EXCEPT ![c] = "open"] \in SockTable
  BY <1>v DEF VoiceState, SockTable, Socks
<1>w. w \in VoiceState  BY <1>v, <1>s DEF VoiceState
<1>1. /\ w.starting = v.starting /\ w.ending = v.ending /\ w.sock = [v.sock EXCEPT ![c] = "open"]
      /\ w.capture = v.capture /\ w.settled = v.settled /\ w.cleaning = v.cleaning
      /\ w.ws = v.ws /\ w.transcript = v.transcript /\ w.sent = v.sent
      /\ w.clicks = v.clicks /\ w.heard = v.heard /\ w.cut = v.cut /\ w.queue = v.queue
      /\ w.playing = v.playing /\ w.initTimer = v.initTimer /\ w.stream = v.stream
      /\ w.mics = v.mics /\ w.input = v.input /\ w.output = v.output
  BY <1>v DEF VoiceState
<1> HIDE DEF w
<1>2. Streams(w)  BY <1>1 DEF Agrees, Streams
<1>3. Sockets(w)
  <2>1. w.initTimer # 0 => w.initTimer \in Conns  BY <1>w DEF VoiceState, ConnOrNone
  <2>2. QED  BY <2>1, <1>1, <1>s DEF Agrees, Sockets, SockTable
<1>4. OneTalk(w)  BY <1>1 DEF Agrees, OneTalk
<1>5. Kept(w)  BY <1>1 DEF Agrees, Kept
<1>6. Starts(w, "nobody")  BY <1>1, <1>s DEF Agrees, Starts, SockTable
<1>7. Ends(w, "nobody")  BY <1>1 DEF Agrees, Ends
<1>8. Sound(w)  BY <1>1 DEF Agrees, Sound
<1>9. QED  BY <1>w, <1>2, <1>3, <1>4, <1>5, <1>6, <1>7, <1>8 DEF Agrees, w

LEMMA ClosedKeeps ==
  ASSUME NEW v, Agrees(v, "nobody"),
         NEW c \in Conns, v.sock[c] # "none"
  PROVE  Agrees([v EXCEPT !.sock[c] = "closed"], "nobody")
<1> DEFINE w == [v EXCEPT !.sock[c] = "closed"]
<1>v. v \in VoiceState  BY DEF Agrees
<1>s. v.sock \in SockTable /\ [v.sock EXCEPT ![c] = "closed"] \in SockTable
  BY <1>v DEF VoiceState, SockTable, Socks
<1>w. w \in VoiceState  BY <1>v, <1>s DEF VoiceState
<1>1. /\ w.starting = v.starting /\ w.ending = v.ending /\ w.sock = [v.sock EXCEPT ![c] = "closed"]
      /\ w.capture = v.capture /\ w.settled = v.settled /\ w.cleaning = v.cleaning
      /\ w.ws = v.ws /\ w.transcript = v.transcript /\ w.sent = v.sent
      /\ w.clicks = v.clicks /\ w.heard = v.heard /\ w.cut = v.cut /\ w.queue = v.queue
      /\ w.playing = v.playing /\ w.initTimer = v.initTimer /\ w.stream = v.stream
      /\ w.mics = v.mics /\ w.input = v.input /\ w.output = v.output
  BY <1>v DEF VoiceState
<1> HIDE DEF w
<1>2. Streams(w)  BY <1>1 DEF Agrees, Streams
<1>3. Sockets(w)
  <2>1. w.initTimer # 0 => w.initTimer \in Conns  BY <1>w DEF VoiceState, ConnOrNone
  <2>2. QED  BY <2>1, <1>1, <1>s DEF Agrees, Sockets, SockTable
<1>4. OneTalk(w)  BY <1>1 DEF Agrees, OneTalk
<1>5. Kept(w)  BY <1>1 DEF Agrees, Kept
<1>6. Starts(w, "nobody")  BY <1>1, <1>s DEF Agrees, Starts, SockTable
<1>7. Ends(w, "nobody")  BY <1>1 DEF Agrees, Ends
<1>8. Sound(w)  BY <1>1 DEF Agrees, Sound
<1>9. QED  BY <1>w, <1>2, <1>3, <1>4, <1>5, <1>6, <1>7, <1>8 DEF Agrees, w

LEMMA AppliedKeeps ==
  ASSUME NEW v, Agrees(v, "nobody"),
         NEW c \in Conns, v.sock[c] = "open", v.capture[c] = "none"
  PROVE  Agrees([v EXCEPT !.initTimer = 0, !.capture[c] = "asking"], "nobody")
<1> DEFINE w == [v EXCEPT !.initTimer = 0, !.capture[c] = "asking"]
<1>v. v \in VoiceState  BY DEF Agrees
<1>s. v.capture \in CaptureTable /\ [v.capture EXCEPT ![c] = "asking"] \in CaptureTable
  BY <1>v DEF VoiceState, CaptureTable, Captures
<1>w. w \in VoiceState  BY <1>v, <1>s DEF VoiceState, ConnOrNone
<1>1. /\ w.starting = v.starting /\ w.ending = v.ending /\ w.sock = v.sock
      /\ w.capture = [v.capture EXCEPT ![c] = "asking"] /\ w.settled = v.settled /\ w.cleaning = v.cleaning
      /\ w.ws = v.ws /\ w.transcript = v.transcript /\ w.sent = v.sent
      /\ w.clicks = v.clicks /\ w.heard = v.heard /\ w.cut = v.cut /\ w.queue = v.queue
      /\ w.playing = v.playing /\ w.initTimer = 0 /\ w.stream = v.stream
      /\ w.mics = v.mics /\ w.input = v.input /\ w.output = v.output
  BY <1>v DEF VoiceState
<1> HIDE DEF w
<1>2. Streams(w)
  <2>1. v.stream # 0 => v.stream \in Conns  BY <1>v DEF VoiceState, ConnOrNone
  <2>2. QED  BY <2>1, <1>1, <1>s DEF Agrees, Streams, CaptureTable
<1>3. Sockets(w)  BY <1>1, <1>s DEF Agrees, Sockets, CaptureTable
<1>4. OneTalk(w)  BY <1>1 DEF Agrees, OneTalk
<1>5. Kept(w)  BY <1>1 DEF Agrees, Kept
<1>6. Starts(w, "nobody")  BY <1>1 DEF Agrees, Starts
<1>7. Ends(w, "nobody")  BY <1>1 DEF Agrees, Ends
<1>8. Sound(w)  BY <1>1 DEF Agrees, Sound
<1>9. QED  BY <1>w, <1>2, <1>3, <1>4, <1>5, <1>6, <1>7, <1>8 DEF Agrees, w

LEMMA PermittedKeeps ==
  ASSUME NEW v, Agrees(v, "nobody"),
         NEW c \in Conns, v.capture[c] = "asking"
  PROVE  Agrees([v EXCEPT !.capture[c] = "resuming", !.mics = v.mics \cup {c}], "nobody")
<1> DEFINE w == [v EXCEPT !.capture[c] = "resuming", !.mics = v.mics \cup {c}]
<1>v. v \in VoiceState  BY DEF Agrees
<1>s. v.capture \in CaptureTable /\ [v.capture EXCEPT ![c] = "resuming"] \in CaptureTable
  BY <1>v DEF VoiceState, CaptureTable, Captures
<1>m. v.mics \cup {c} \in Micsets  BY <1>v DEF VoiceState, Micsets
<1>w. w \in VoiceState  BY <1>v, <1>s, <1>m DEF VoiceState
<1>1. /\ w.starting = v.starting /\ w.ending = v.ending /\ w.sock = v.sock
      /\ w.capture = [v.capture EXCEPT ![c] = "resuming"] /\ w.settled = v.settled /\ w.cleaning = v.cleaning
      /\ w.ws = v.ws /\ w.transcript = v.transcript /\ w.sent = v.sent
      /\ w.clicks = v.clicks /\ w.heard = v.heard /\ w.cut = v.cut /\ w.queue = v.queue
      /\ w.playing = v.playing /\ w.initTimer = v.initTimer /\ w.stream = v.stream
      /\ w.mics = v.mics \cup {c} /\ w.input = v.input /\ w.output = v.output
  BY <1>v DEF VoiceState
<1> HIDE DEF w
<1>2. Streams(w)
  <2>1. v.stream # 0 => v.stream \in Conns  BY <1>v DEF VoiceState, ConnOrNone
  <2>2. QED  BY <2>1, <1>1, <1>s DEF Agrees, Streams, CaptureTable
<1>3. Sockets(w)  BY <1>1, <1>s DEF Agrees, Sockets, CaptureTable
<1>4. OneTalk(w)  BY <1>1 DEF Agrees, OneTalk
<1>5. Kept(w)  BY <1>1 DEF Agrees, Kept
<1>6. Starts(w, "nobody")  BY <1>1 DEF Agrees, Starts
<1>7. Ends(w, "nobody")  BY <1>1 DEF Agrees, Ends
<1>8. Sound(w)  BY <1>1 DEF Agrees, Sound
<1>9. QED  BY <1>w, <1>2, <1>3, <1>4, <1>5, <1>6, <1>7, <1>8 DEF Agrees, w

LEMMA DeniedKeeps ==
  ASSUME NEW v, Agrees(v, "nobody"),
         NEW c \in Conns, v.capture[c] = "asking"
  PROVE  Agrees([v EXCEPT !.capture[c] = "failed"], "nobody")
<1> DEFINE w == [v EXCEPT !.capture[c] = "failed"]
<1>v. v \in VoiceState  BY DEF Agrees
<1>s. v.capture \in CaptureTable /\ [v.capture EXCEPT ![c] = "failed"] \in CaptureTable
  BY <1>v DEF VoiceState, CaptureTable, Captures
<1>w. w \in VoiceState  BY <1>v, <1>s DEF VoiceState
<1>1. /\ w.starting = v.starting /\ w.ending = v.ending /\ w.sock = v.sock
      /\ w.capture = [v.capture EXCEPT ![c] = "failed"] /\ w.settled = v.settled /\ w.cleaning = v.cleaning
      /\ w.ws = v.ws /\ w.transcript = v.transcript /\ w.sent = v.sent
      /\ w.clicks = v.clicks /\ w.heard = v.heard /\ w.cut = v.cut /\ w.queue = v.queue
      /\ w.playing = v.playing /\ w.initTimer = v.initTimer /\ w.stream = v.stream
      /\ w.mics = v.mics /\ w.input = v.input /\ w.output = v.output
  BY <1>v DEF VoiceState
<1> HIDE DEF w
<1>2. Streams(w)
  <2>1. v.stream # 0 => v.stream \in Conns  BY <1>v DEF VoiceState, ConnOrNone
  <2>2. QED  BY <2>1, <1>1, <1>s DEF Agrees, Streams, CaptureTable
<1>3. Sockets(w)  BY <1>1, <1>s DEF Agrees, Sockets, CaptureTable
<1>4. OneTalk(w)  BY <1>1 DEF Agrees, OneTalk
<1>5. Kept(w)  BY <1>1 DEF Agrees, Kept
<1>6. Starts(w, "nobody")  BY <1>1 DEF Agrees, Starts
<1>7. Ends(w, "nobody")  BY <1>1 DEF Agrees, Ends
<1>8. Sound(w)  BY <1>1 DEF Agrees, Sound
<1>9. QED  BY <1>w, <1>2, <1>3, <1>4, <1>5, <1>6, <1>7, <1>8 DEF Agrees, w

LEMMA CapturedKeeps ==
  ASSUME NEW v, Agrees(v, "nobody"),
         NEW c \in Conns, v.capture[c] = "resuming"
  PROVE  Agrees([v EXCEPT !.capture[c] = "done", !.stream = c, !.input = "live", !.ready = TRUE,
                    !.lit = v.lit \cup {"connected", "listening"}], "nobody")
<1> DEFINE w == [v EXCEPT !.capture[c] = "done", !.stream = c, !.input = "live", !.ready = TRUE,
                    !.lit = v.lit \cup {"connected", "listening"}]
<1>v. v \in VoiceState  BY DEF Agrees
<1>s. v.capture \in CaptureTable /\ [v.capture EXCEPT ![c] = "done"] \in CaptureTable
  BY <1>v DEF VoiceState, CaptureTable, Captures
<1>l. v.lit \cup {"connected", "listening"} \in LitSets  BY <1>v DEF VoiceState, LitSets, Lights
<1>w. w \in VoiceState  BY <1>v, <1>s, <1>l DEF VoiceState, ConnOrNone, Audio
<1>1. /\ w.starting = v.starting /\ w.ending = v.ending /\ w.sock = v.sock
      /\ w.capture = [v.capture EXCEPT ![c] = "done"] /\ w.settled = v.settled /\ w.cleaning = v.cleaning
      /\ w.ws = v.ws /\ w.transcript = v.transcript /\ w.sent = v.sent
      /\ w.clicks = v.clicks /\ w.heard = v.heard /\ w.cut = v.cut /\ w.queue = v.queue
      /\ w.playing = v.playing /\ w.initTimer = v.initTimer /\ w.stream = c
      /\ w.mics = v.mics /\ w.input = "live" /\ w.output = v.output
  BY <1>v DEF VoiceState
<1> HIDE DEF w
<1>2. Streams(w)  BY <1>1, <1>s DEF Agrees, Streams, CaptureTable
<1>3. Sockets(w)  BY <1>1, <1>s DEF Agrees, Sockets, CaptureTable
<1>4. OneTalk(w)  BY <1>1 DEF Agrees, OneTalk
<1>5. Kept(w)  BY <1>1 DEF Agrees, Kept
<1>6. Starts(w, "nobody")  BY <1>1 DEF Agrees, Starts
<1>7. Ends(w, "nobody")  BY <1>1 DEF Agrees, Ends
<1>8. Sound(w)  BY <1>1 DEF Agrees, Sound
<1>9. QED  BY <1>w, <1>2, <1>3, <1>4, <1>5, <1>6, <1>7, <1>8 DEF Agrees, w

(* A line goes to the end of the transcript, or nowhere.                    *)
LEMMA AppendedLines ==
  ASSUME NEW lines \in Lines, NEW next \in Line
  PROVE  LET w == AppendTranscript(lines, next)
         IN /\ w \in Lines /\ Len(lines) <= Len(w)
            /\ \A i \in 1..Len(lines) : w[i] = lines[i]
            /\ \A i \in DOMAIN w : i \in DOMAIN lines \/ w[i] = next
<1>1. lines \in Seq(Line) /\ Len(lines) \in Nat /\ DOMAIN lines = 1..Len(lines)
  BY DEF Lines
<1>2. /\ Append(lines, next) \in Seq(Line) /\ Len(Append(lines, next)) = Len(lines) + 1
      /\ \A i \in 1..Len(lines) : Append(lines, next)[i] = lines[i]
      /\ Append(lines, next)[Len(lines) + 1] = next
      /\ DOMAIN Append(lines, next) = 1..(Len(lines) + 1)
  BY <1>1
<1>3. QED  BY <1>1, <1>2 DEF AppendTranscript, Lines

LEMMA ConversationKeeps ==
  ASSUME NEW v, Agrees(v, "nobody"),
         NEW c \in Conns, NEW t \in Texts, v.sock[c] = "open"
  PROVE  Agrees([[v EXCEPT !.messages = @ + 1] EXCEPT
                    !.transcript = AppendTranscript(v.transcript, [conn |-> c, text |-> t])], "nobody")
<1> DEFINE w == [[v EXCEPT !.messages = @ + 1] EXCEPT
                    !.transcript = AppendTranscript(v.transcript, [conn |-> c, text |-> t])]
<1>v. v \in VoiceState  BY DEF Agrees
<1> DEFINE lines == AppendTranscript(v.transcript, [conn |-> c, text |-> t])
<1>s. v.transcript \in Lines /\ v.sent \in Lines /\ [conn |-> c, text |-> t] \in Line
  BY <1>v DEF VoiceState, Line
<1>a. /\ lines \in Lines /\ Len(v.transcript) <= Len(lines)
      /\ \A i \in 1..Len(v.transcript) : lines[i] = v.transcript[i]
      /\ \A i \in DOMAIN lines : i \in DOMAIN v.transcript \/ lines[i].conn = c
  BY <1>s, AppendedLines
<1>b. /\ DOMAIN v.transcript = 1..Len(v.transcript) /\ DOMAIN lines = 1..Len(lines)
      /\ Len(v.transcript) \in Nat /\ Len(lines) \in Nat /\ Len(v.sent) \in Nat
  BY <1>s, <1>a DEF Lines
<1>e. v.messages + 1 \in Nat  BY <1>v DEF VoiceState
<1>u. ASSUME NEW x \in Lines
      PROVE  [[v EXCEPT !.messages = @ + 1] EXCEPT !.transcript = x] \in VoiceState
  BY <1>v, <1>e, <1>u DEF VoiceState
<1>w. w \in VoiceState  BY <1>a, <1>u
<1> HIDE DEF lines
<1>c. c = v.ws /\ c # 0  BY AgentAssumption DEF Agrees, Sockets, Conns
<1>1. /\ w.starting = v.starting /\ w.ending = v.ending /\ w.sock = v.sock
      /\ w.capture = v.capture /\ w.settled = v.settled /\ w.cleaning = v.cleaning
      /\ w.ws = v.ws /\ w.transcript = lines /\ w.sent = v.sent
      /\ w.clicks = v.clicks /\ w.heard = v.heard /\ w.cut = v.cut /\ w.queue = v.queue
      /\ w.playing = v.playing /\ w.initTimer = v.initTimer /\ w.stream = v.stream
      /\ w.mics = v.mics /\ w.input = v.input /\ w.output = v.output
  BY <1>v DEF VoiceState, lines
<1> HIDE DEF w
<1>2. Streams(w)  BY <1>1 DEF Agrees, Streams
<1>3. Sockets(w)  BY <1>1 DEF Agrees, Sockets
<1>4. OneTalk(w)  BY <1>1, <1>a, <1>b, <1>c DEF Agrees, OneTalk
<1>5. Kept(w)  BY <1>1, <1>a, <1>b DEF Agrees, Kept
<1>6. Starts(w, "nobody")  BY <1>1, <1>c DEF Agrees, Starts
<1>7. Ends(w, "nobody")  BY <1>1 DEF Agrees, Ends
<1>8. Sound(w)  BY <1>1 DEF Agrees, Sound
<1>9. QED  BY <1>w, <1>2, <1>3, <1>4, <1>5, <1>6, <1>7, <1>8 DEF Agrees, w

LEMMA ChunkKeeps ==
  ASSUME NEW v, Agrees(v, "nobody")
  PROVE  Agrees([[v EXCEPT !.messages = @ + 1] EXCEPT
                    !.heard = v.heard + 1, !.thinkTimer = FALSE,
                    !.lit = (v.lit \ {"thinking"}) \cup {"speaking"},
                    !.queue = IF v.chainOk
                                THEN v.queue \cup {[chunk |-> v.heard + 1, fresh |-> TRUE]}
                                ELSE v.queue], "nobody")
<1> DEFINE w == [[v EXCEPT !.messages = @ + 1] EXCEPT
                    !.heard = v.heard + 1, !.thinkTimer = FALSE,
                    !.lit = (v.lit \ {"thinking"}) \cup {"speaking"},
                    !.queue = IF v.chainOk
                                THEN v.queue \cup {[chunk |-> v.heard + 1, fresh |-> TRUE]}
                                ELSE v.queue]
<1>v. v \in VoiceState  BY DEF Agrees
<1> DEFINE new == [chunk |-> v.heard + 1, fresh |-> TRUE]
           queue == IF v.chainOk THEN v.queue \cup {new} ELSE v.queue
<1>s. v.heard \in Nat /\ v.cut \in Nat /\ v.queue \in Queues /\ v.playing \in Seq(Nat)
  BY <1>v DEF VoiceState, Played
<1>a. queue \in Queues
  <2>1. new \in Chunk  BY <1>s DEF Chunk
  <2> HIDE DEF new
  <2>2. QED  BY <1>s, <2>1 DEF Queues
<1>l. (v.lit \ {"thinking"}) \cup {"speaking"} \in LitSets
  BY <1>v DEF VoiceState, LitSets, Lights
<1>u. ASSUME NEW x \in Queues, NEW y \in LitSets, NEW n \in Nat
      PROVE  [[v EXCEPT !.messages = @ + 1] EXCEPT
                !.heard = n, !.thinkTimer = FALSE, !.lit = y, !.queue = x] \in VoiceState
  <2>1. v.messages + 1 \in Nat  BY <1>v DEF VoiceState
  <2>2. QED  BY <1>v, <1>u, <2>1 DEF VoiceState
<1>n. v.heard + 1 \in Nat  BY <1>s
<1>w. w \in VoiceState  BY <1>n, <1>a, <1>l, <1>u
<1>b. \A e \in queue : e \in v.queue \/ (e.chunk = v.heard + 1)  OBVIOUS
<1>c. \A e \in v.queue : e.chunk \in Nat  BY <1>s DEF Queues, Chunk
<1>d. \A i \in DOMAIN v.playing : v.playing[i] \in Nat  BY <1>s
<1>q. w.queue = queue  BY <1>v DEF VoiceState
<1> HIDE DEF queue, new
<1>1. /\ w.starting = v.starting /\ w.ending = v.ending /\ w.sock = v.sock
      /\ w.capture = v.capture /\ w.settled = v.settled /\ w.cleaning = v.cleaning
      /\ w.ws = v.ws /\ w.transcript = v.transcript /\ w.sent = v.sent
      /\ w.clicks = v.clicks /\ w.heard = v.heard + 1 /\ w.cut = v.cut
      /\ w.playing = v.playing /\ w.initTimer = v.initTimer /\ w.stream = v.stream
      /\ w.mics = v.mics /\ w.input = v.input /\ w.output = v.output
  BY <1>v DEF VoiceState
<1> HIDE DEF w
<1>2. Streams(w)  BY <1>1 DEF Agrees, Streams
<1>3. Sockets(w)  BY <1>1 DEF Agrees, Sockets
<1>4. OneTalk(w)  BY <1>1 DEF Agrees, OneTalk
<1>5. Kept(w)  BY <1>1 DEF Agrees, Kept
<1>6. Starts(w, "nobody")  BY <1>1 DEF Agrees, Starts
<1>7. Ends(w, "nobody")  BY <1>1 DEF Agrees, Ends
<1>8. Sound(w)
  <2>1. v.cut <= v.heard /\ \A e \in queue : e.chunk <= v.heard + 1 /\ (e.fresh => e.chunk > v.cut)
    BY <1>s, <1>b, <1>c DEF Agrees, Sound
  <2>2. \A i \in DOMAIN v.playing :
          /\ v.playing[i] <= v.heard + 1
          /\ \A e \in queue : e.fresh => v.playing[i] < e.chunk
    BY <1>s, <1>b, <1>d DEF Agrees, Sound
  <2>3. QED  BY <1>1, <1>q, <1>s, <2>1, <2>2 DEF Agrees, Sound
<1>9. QED  BY <1>w, <1>2, <1>3, <1>4, <1>5, <1>6, <1>7, <1>8 DEF Agrees, w

LEMMA StopKeeps ==
  ASSUME NEW v, Agrees(v, "nobody")
  PROVE  Agrees(StopPlayback(v), "nobody")
<1> DEFINE w == StopPlayback(v)
<1>v. v \in VoiceState  BY DEF Agrees
<1>w. w \in VoiceState  BY <1>v, StopTyped
<1>s. v.heard \in Nat /\ v.queue \in Queues  BY <1>v DEF VoiceState
<1>q. \A e \in {[chunk |-> f.chunk, fresh |-> FALSE] : f \in v.queue} :
        ~e.fresh /\ \E f \in v.queue : e.chunk = f.chunk
  OBVIOUS
<1>1. /\ w.starting = v.starting /\ w.ending = v.ending /\ w.sock = v.sock
      /\ w.capture = v.capture /\ w.settled = v.settled /\ w.cleaning = v.cleaning
      /\ w.ws = v.ws /\ w.transcript = v.transcript /\ w.sent = v.sent
      /\ w.clicks = v.clicks /\ w.heard = v.heard /\ w.cut = v.heard /\ w.queue = {[chunk |-> f.chunk, fresh |-> FALSE] : f \in v.queue}
      /\ w.playing = << >> /\ w.initTimer = v.initTimer /\ w.stream = v.stream
      /\ w.mics = v.mics /\ w.input = v.input /\ w.output = v.output
  BY <1>v DEF VoiceState, StopPlayback
<1> HIDE DEF w
<1>2. Streams(w)  BY <1>1 DEF Agrees, Streams
<1>3. Sockets(w)  BY <1>1 DEF Agrees, Sockets
<1>4. OneTalk(w)  BY <1>1 DEF Agrees, OneTalk
<1>5. Kept(w)  BY <1>1 DEF Agrees, Kept
<1>6. Starts(w, "nobody")  BY <1>1 DEF Agrees, Starts
<1>7. Ends(w, "nobody")  BY <1>1 DEF Agrees, Ends
<1>8. Sound(w)  BY <1>1, <1>q, <1>s DEF Agrees, Sound
<1>9. QED  BY <1>w, <1>2, <1>3, <1>4, <1>5, <1>6, <1>7, <1>8 DEF Agrees, w

(* The playback.                                                           *)
LEMMA PlayedKeeps ==
  ASSUME NEW v, Agrees(v, "nobody"),
         NEW e \in v.queue, \A f \in v.queue : f.fresh = e.fresh => e.chunk <= f.chunk
  PROVE  Agrees([v EXCEPT !.queue = v.queue \ {e}, !.output = "live",
                    !.playing = IF e.fresh THEN Append(v.playing, e.chunk) ELSE v.playing], "nobody")
<1> DEFINE w == [v EXCEPT !.queue = v.queue \ {e}, !.output = "live",
                    !.playing = IF e.fresh THEN Append(v.playing, e.chunk) ELSE v.playing]
<1>v. v \in VoiceState  BY DEF Agrees
<1> DEFINE playing == IF e.fresh THEN Append(v.playing, e.chunk) ELSE v.playing
<1>s. v.heard \in Nat /\ v.cut \in Nat /\ v.queue \in Queues /\ v.playing \in Seq(Nat)
  BY <1>v DEF VoiceState, Played
<1>a. v.queue \ {e} \in Queues  BY <1>s DEF Queues
<1>c. \A f \in v.queue : f \in Chunk  BY <1>s DEF Queues
<1>b. playing \in Seq(Nat)  BY <1>c, <1>s DEF Chunk
<1>w. w \in VoiceState  BY <1>v, <1>a, <1>b DEF VoiceState, Audio, Played
<1>p. w.playing = playing  BY <1>v DEF VoiceState
<1>n. Len(v.playing) \in Nat /\ DOMAIN v.playing = 1..Len(v.playing)  BY <1>s
<1>m. /\ ~e.fresh => playing = v.playing
      /\ e.fresh => /\ DOMAIN playing = 1..(Len(v.playing) + 1)
                    /\ \A i \in 1..Len(v.playing) : playing[i] = v.playing[i]
                    /\ playing[Len(v.playing) + 1] = e.chunk
  BY <1>c, <1>s DEF Chunk
<1>k. \A f \in v.queue \ {e} : e.fresh /\ f.fresh => e.chunk < f.chunk
  <2>1. \A f \in v.queue : f = [chunk |-> f.chunk, fresh |-> f.fresh] /\ f.chunk \in Nat
    BY <1>c DEF Chunk
  <2>2. \A f \in v.queue \ {e} : e.fresh /\ f.fresh => e.chunk # f.chunk
    BY <1>c DEF Chunk
  <2>3. \A f \in v.queue : e.fresh /\ f.fresh => f.fresh = e.fresh
    BY <1>c DEF Chunk
  <2>4. \A f \in v.queue : e.fresh /\ f.fresh => e.chunk <= f.chunk
    BY <2>3
  <2>5. QED  BY <2>1, <2>2, <2>4
<1>d. \A f \in v.queue : f.chunk \in Nat /\ f.fresh \in BOOLEAN  BY <1>c DEF Chunk
<1> HIDE DEF playing
<1>1. /\ w.starting = v.starting /\ w.ending = v.ending /\ w.sock = v.sock
      /\ w.capture = v.capture /\ w.settled = v.settled /\ w.cleaning = v.cleaning
      /\ w.ws = v.ws /\ w.transcript = v.transcript /\ w.sent = v.sent
      /\ w.clicks = v.clicks /\ w.heard = v.heard /\ w.cut = v.cut /\ w.queue = v.queue \ {e}
      /\ w.initTimer = v.initTimer /\ w.stream = v.stream
      /\ w.mics = v.mics /\ w.input = v.input
  BY <1>v DEF VoiceState
<1> HIDE DEF w
<1>2. Streams(w)  BY <1>1 DEF Agrees, Streams
<1>3. Sockets(w)  BY <1>1 DEF Agrees, Sockets
<1>4. OneTalk(w)  BY <1>1 DEF Agrees, OneTalk
<1>5. Kept(w)  BY <1>1 DEF Agrees, Kept
<1>6. Starts(w, "nobody")  BY <1>1 DEF Agrees, Starts
<1>7. Ends(w, "nobody")  BY <1>1 DEF Agrees, Ends
<1>8. Sound(w)
  <2>1. CASE ~e.fresh  BY <1>1, <1>p, <1>m, <2>1 DEF Agrees, Sound
  <2>2. CASE e.fresh
    <3>1. \A i \in DOMAIN v.playing : v.playing[i] < e.chunk
      BY <2>2 DEF Agrees, Sound
    <3>2. \A i \in DOMAIN playing : playing[i] > v.cut /\ playing[i] <= v.heard
      BY <1>m, <1>n, <2>2 DEF Agrees, Sound
    <3>3. \A i \in DOMAIN playing : \A j \in 1..(i - 1) : playing[j] < playing[i]
      <4>1. ASSUME NEW i \in 1..Len(v.playing), NEW j \in 1..(i - 1)
            PROVE  playing[j] < playing[i]
        <5>1. j \in 1..Len(v.playing)  BY <1>n
        <5>2. QED  BY <1>m, <1>n, <2>2, <5>1 DEF Agrees, Sound
      <4>2. ASSUME NEW j \in 1..Len(v.playing)
            PROVE  playing[j] < playing[Len(v.playing) + 1]
        BY <1>m, <1>n, <2>2, <3>1
      <4>3. ASSUME NEW i \in DOMAIN playing, NEW j \in 1..(i - 1)
            PROVE  playing[j] < playing[i]
        <5>1. i \in 1..Len(v.playing) \/ (i = Len(v.playing) + 1 /\ j \in 1..Len(v.playing))
          BY <1>m, <1>n, <2>2
        <5>2. QED  BY <4>1, <4>2, <5>1
      <4>4. QED  BY <4>3
    <3>4. \A i \in DOMAIN playing : \A f \in v.queue \ {e} : f.fresh => playing[i] < f.chunk
      BY <1>m, <1>n, <1>k, <2>2 DEF Agrees, Sound
    <3>5. QED  BY <1>1, <1>p, <3>2, <3>3, <3>4 DEF Agrees, Sound
  <2>3. QED  BY <1>d, <2>1, <2>2
<1>9. QED  BY <1>w, <1>2, <1>3, <1>4, <1>5, <1>6, <1>7, <1>8 DEF Agrees, w

LEMMA ChainBreaksKeeps ==
  ASSUME NEW v, Agrees(v, "nobody"),
         NEW gone, NEW ok \in BOOLEAN
  PROVE  Agrees([v EXCEPT !.queue = v.queue \ gone, !.chainOk = ok], "nobody")
<1> DEFINE w == [v EXCEPT !.queue = v.queue \ gone, !.chainOk = ok]
<1>v. v \in VoiceState  BY DEF Agrees
<1>a. v.queue \ gone \in Queues  BY <1>v DEF VoiceState, Queues
<1>w. w \in VoiceState  BY <1>v, <1>a DEF VoiceState
<1>1. /\ w.starting = v.starting /\ w.ending = v.ending /\ w.sock = v.sock
      /\ w.capture = v.capture /\ w.settled = v.settled /\ w.cleaning = v.cleaning
      /\ w.ws = v.ws /\ w.transcript = v.transcript /\ w.sent = v.sent
      /\ w.clicks = v.clicks /\ w.heard = v.heard /\ w.cut = v.cut /\ w.queue = v.queue \ gone
      /\ w.playing = v.playing /\ w.initTimer = v.initTimer /\ w.stream = v.stream
      /\ w.mics = v.mics /\ w.input = v.input /\ w.output = v.output
  BY <1>v DEF VoiceState
<1> HIDE DEF w
<1>2. Streams(w)  BY <1>1 DEF Agrees, Streams
<1>3. Sockets(w)  BY <1>1 DEF Agrees, Sockets
<1>4. OneTalk(w)  BY <1>1 DEF Agrees, OneTalk
<1>5. Kept(w)  BY <1>1 DEF Agrees, Kept
<1>6. Starts(w, "nobody")  BY <1>1 DEF Agrees, Starts
<1>7. Ends(w, "nobody")  BY <1>1 DEF Agrees, Ends
<1>8. Sound(w)  BY <1>1 DEF Agrees, Sound
<1>9. QED  BY <1>w, <1>2, <1>3, <1>4, <1>5, <1>6, <1>7, <1>8 DEF Agrees, w

LEMMA ChunkEndsKeeps ==
  ASSUME NEW v, Agrees(v, "nobody"),
         v.playing # << >>
  PROVE  Agrees([v EXCEPT !.playing = Tail(v.playing)], "nobody")
<1> DEFINE w == [v EXCEPT !.playing = Tail(v.playing)]
<1>v. v \in VoiceState  BY DEF Agrees
<1>s. v.playing \in Seq(Nat)  BY <1>v DEF VoiceState, Played
<1>a. /\ Tail(v.playing) \in Seq(Nat) /\ Len(v.playing) \in Nat
      /\ DOMAIN v.playing = 1..Len(v.playing)
      /\ DOMAIN Tail(v.playing) = 1..(Len(v.playing) - 1)
      /\ \A i \in 1..(Len(v.playing) - 1) : Tail(v.playing)[i] = v.playing[i + 1]
  BY <1>s
<1>w. w \in VoiceState  BY <1>v, <1>a DEF VoiceState, Played
<1>1. /\ w.starting = v.starting /\ w.ending = v.ending /\ w.sock = v.sock
      /\ w.capture = v.capture /\ w.settled = v.settled /\ w.cleaning = v.cleaning
      /\ w.ws = v.ws /\ w.transcript = v.transcript /\ w.sent = v.sent
      /\ w.clicks = v.clicks /\ w.heard = v.heard /\ w.cut = v.cut /\ w.queue = v.queue
      /\ w.playing = Tail(v.playing) /\ w.initTimer = v.initTimer /\ w.stream = v.stream
      /\ w.mics = v.mics /\ w.input = v.input /\ w.output = v.output
  BY <1>v DEF VoiceState
<1> HIDE DEF w
<1>2. Streams(w)  BY <1>1 DEF Agrees, Streams
<1>3. Sockets(w)  BY <1>1 DEF Agrees, Sockets
<1>4. OneTalk(w)  BY <1>1 DEF Agrees, OneTalk
<1>5. Kept(w)  BY <1>1 DEF Agrees, Kept
<1>6. Starts(w, "nobody")  BY <1>1 DEF Agrees, Starts
<1>7. Ends(w, "nobody")  BY <1>1 DEF Agrees, Ends
<1>8. Sound(w)
  <2>1. \A i \in DOMAIN Tail(v.playing) :
          i + 1 \in DOMAIN v.playing /\ \A j \in 1..(i - 1) : j + 1 \in 1..((i + 1) - 1)
    BY <1>a
  <2>2. \A i \in DOMAIN Tail(v.playing) : \A j \in 1..(i - 1) :
          Tail(v.playing)[j] = v.playing[j + 1]
    BY <1>a
  <2>3. QED  BY <1>1, <1>a, <2>1, <2>2 DEF Agrees, Sound
<1>9. QED  BY <1>w, <1>2, <1>3, <1>4, <1>5, <1>6, <1>7, <1>8 DEF Agrees, w

(* A step that no part of the invariant speaks of, on the page's record.   *)
LEMMA NotedKeeps ==
  ASSUME NEW v, Agrees(v, "nobody"), NEW timer \in BOOLEAN, NEW lights \in LitSets
  PROVE  Agrees([[v EXCEPT !.messages = @ + 1] EXCEPT !.thinkTimer = timer, !.lit = lights],
                "nobody")
<1> DEFINE w == [[v EXCEPT !.messages = @ + 1] EXCEPT !.thinkTimer = timer, !.lit = lights]
<1>v. v \in VoiceState  BY DEF Agrees
<1>n. v.messages + 1 \in Nat  BY <1>v DEF VoiceState
<1>w. w \in VoiceState /\ w.initTimer = v.initTimer  BY <1>v, <1>n DEF VoiceState
<1>1. /\ w.starting = v.starting /\ w.ending = v.ending /\ w.sock = v.sock
      /\ w.capture = v.capture /\ w.settled = v.settled /\ w.cleaning = v.cleaning
      /\ w.ws = v.ws /\ w.transcript = v.transcript /\ w.sent = v.sent
      /\ w.clicks = v.clicks /\ w.heard = v.heard /\ w.cut = v.cut /\ w.queue = v.queue
      /\ w.playing = v.playing /\ w.stream = v.stream
      /\ w.mics = v.mics
  BY <1>v DEF VoiceState
<1> HIDE DEF w
<1>2. Agrees(w, "nobody")  BY <1>w, <1>1, AsideKeeps
<1>3. QED  BY <1>2 DEF w

LEMMA QuietKeeps ==
  ASSUME NEW v, Agrees(v, "nobody")
  PROVE  Agrees(Quiet(v), "nobody") /\ Quiet(v).sock = v.sock
<1> DEFINE w == Quiet(v)
<1>v. v \in VoiceState  BY DEF Agrees
<1>w. w \in VoiceState /\ w.initTimer = 0
  BY <1>v DEF Quiet, VoiceState, ConnOrNone, LitSets
<1>1. /\ w.starting = v.starting /\ w.ending = v.ending /\ w.sock = v.sock
      /\ w.capture = v.capture /\ w.settled = v.settled /\ w.cleaning = v.cleaning
      /\ w.ws = v.ws /\ w.transcript = v.transcript /\ w.sent = v.sent
      /\ w.clicks = v.clicks /\ w.heard = v.heard /\ w.cut = v.cut /\ w.queue = v.queue
      /\ w.playing = v.playing /\ w.stream = v.stream
      /\ w.mics = v.mics
  BY <1>v DEF VoiceState, Quiet
<1> HIDE DEF w
<1>2. Agrees(w, "nobody")  BY <1>w, <1>1, AsideKeeps
<1>3. QED  BY <1>1, <1>2 DEF w

LEMMA InterruptedKeeps ==
  ASSUME NEW v, Agrees(v, "nobody"), NEW lights \in LitSets
  PROVE  Agrees([StopPlayback([v EXCEPT !.messages = @ + 1]) EXCEPT
                   !.thinkTimer = FALSE, !.lit = lights], "nobody")
<1> DEFINE u == [v EXCEPT !.messages = @ + 1]
           s == StopPlayback(u)
           w == [s EXCEPT !.thinkTimer = FALSE, !.lit = lights]
<1>v. v \in VoiceState  BY DEF Agrees
<1>n. v.messages + 1 \in Nat  BY <1>v DEF VoiceState
<1>u. u \in VoiceState /\ u.initTimer = v.initTimer  BY <1>v, <1>n DEF VoiceState
<1>1. /\ u.starting = v.starting /\ u.ending = v.ending /\ u.sock = v.sock
      /\ u.capture = v.capture /\ u.settled = v.settled /\ u.cleaning = v.cleaning
      /\ u.ws = v.ws /\ u.transcript = v.transcript /\ u.sent = v.sent
      /\ u.clicks = v.clicks /\ u.heard = v.heard /\ u.cut = v.cut /\ u.queue = v.queue
      /\ u.playing = v.playing /\ u.stream = v.stream
      /\ u.mics = v.mics
  BY <1>v DEF VoiceState
<1> HIDE DEF u
<1>2. Agrees(u, "nobody")  BY <1>u, <1>1, AsideKeeps
<1>3. Agrees(s, "nobody")  BY <1>2, StopKeeps
<1> HIDE DEF s
<1>4. s \in VoiceState  BY <1>3 DEF Agrees
<1>5. w \in VoiceState /\ w.initTimer = s.initTimer  BY <1>4 DEF VoiceState
<1>6. /\ w.starting = s.starting /\ w.ending = s.ending /\ w.sock = s.sock
      /\ w.capture = s.capture /\ w.settled = s.settled /\ w.cleaning = s.cleaning
      /\ w.ws = s.ws /\ w.transcript = s.transcript /\ w.sent = s.sent
      /\ w.clicks = s.clicks /\ w.heard = s.heard /\ w.cut = s.cut /\ w.queue = s.queue
      /\ w.playing = s.playing /\ w.stream = s.stream
      /\ w.mics = s.mics
  BY <1>4 DEF VoiceState
<1> HIDE DEF w
<1>7. Agrees(w, "nobody")  BY <1>3, <1>5, <1>6, AsideKeeps
<1>8. QED  BY <1>7 DEF w, s, u

-----------------------------------------------------------------------------
(* The actions.                                                            *)
LEMMA PageKeeps ==
  ASSUME AgentIInv, OnStart \/ OnEnd \/ LeavePage \/ BootstrapAnswers \/ OpenSocket
  PROVE  AgentIInv'
<1>a. Agrees(voice, "nobody")  BY DEF AgentIInv
<1>v. voice \in VoiceState  BY <1>a DEF Agrees
<1>1. CASE OnStart
  BY <1>1, <1>a, StartKeeps DEF OnStart, Free, AgentIInv
<1>2. CASE OnEnd
  <2> DEFINE w == [voice EXCEPT !.ending = "cleanup", !.sent = voice.transcript]
  <2>1. voice' = Cleanup(w, "end") /\ voice.starting = "no"  BY <1>2 DEF OnEnd, Free
  <2>2. Agrees(w, "end")  BY <1>a, <2>1, EndKeeps
  <2> HIDE DEF w
  <2>3. QED  BY <2>1, <2>2, CleanupKeeps DEF Callers, AgentIInv
<1>3. CASE LeavePage
  BY <1>3, <1>a, LeaveKeeps DEF LeavePage, AgentIInv
<1>f. \A c \in Conns : voice.starting # "promise" /\ voice.sock[c] # "none" => voice.settled[c]
  BY <1>a DEF Agrees, Starts
<1>4. CASE BootstrapAnswers
  <2>1. voice.starting = "bootstrap"  BY <1>4 DEF BootstrapAnswers
  <2>2. CASE voice' = Cleanup([voice EXCEPT !.starting = "cleanup"], "start")
    <3> DEFINE w == [voice EXCEPT !.starting = "cleanup"]
    <3>1. Agrees(w, "start")  BY <1>a, <2>1, BootstrappedKeeps
    <3> HIDE DEF w
    <3>2. Agrees(Cleanup(w, "start"), "nobody")  BY <3>1, CleanupKeeps DEF Callers
    <3>3. QED  BY <2>2, <3>2 DEF w, AgentIInv
  <2>3. CASE voice' = StartFailed(voice)
    BY <1>a, <1>f, <2>1, <2>3, StartFailedKeeps DEF AgentIInv
  <2>4. QED  BY <1>4, <2>2, <2>3 DEF BootstrapAnswers
<1>5. CASE OpenSocket
  <2>1. voice.starting = "output"  BY <1>5 DEF OpenSocket
  <2>2. CASE voice.output # "live"
    <3>1. voice' = StartFailed(voice)  BY <1>5, <2>2 DEF OpenSocket
    <3>2. QED  BY <1>a, <1>f, <2>1, <3>1, StartFailedKeeps DEF AgentIInv
  <2>3. CASE voice.output = "live"
    <3>1. voice' = [voice EXCEPT !.starting = "promise", !.ws = voice.clicks,
                                 !.sock[voice.clicks] = "connecting",
                                 !.initTimer = voice.clicks]
      BY <1>5, <2>3 DEF OpenSocket
    <3>2. QED  BY <1>a, <2>1, <2>3, <3>1, OpenKeeps DEF AgentIInv
  <2>4. QED  BY <2>2, <2>3
<1>6. QED  BY <1>1, <1>2, <1>3, <1>4, <1>5

LEMMA PostedKeeps ==
  ASSUME AgentIInv, Posted
  PROVE  AgentIInv'
<1>a. Agrees(voice, "nobody")  BY DEF AgentIInv
<1>v. voice \in VoiceState  BY <1>a DEF Agrees
<1>1. CASE voice' = [voice EXCEPT !.ending = "no"]
  BY <1>1, <1>a, EndedKeeps DEF AgentIInv
<1>2. CASE LET v == [voice EXCEPT !.ending = "no", !.started = FALSE]
           IN voice' = IF v.mounted THEN Leave(v) ELSE v
  <2> DEFINE u == [voice EXCEPT !.ending = "no"]
             w == [voice EXCEPT !.ending = "no", !.started = FALSE]
  <2>1. Agrees(u, "nobody")  BY <1>a, EndedKeeps
  <2>2. w = [u EXCEPT !.started = FALSE]  BY <1>v DEF VoiceState
  <2>3. voice' = IF w.mounted THEN Leave(w) ELSE w  BY <1>2
  <2> HIDE DEF u, w
  <2>4. u \in VoiceState  BY <2>1 DEF Agrees
  <2>5. w \in VoiceState /\ w.initTimer = u.initTimer  BY <2>2, <2>4 DEF VoiceState
  <2>6. /\ w.starting = u.starting /\ w.ending = u.ending /\ w.sock = u.sock
        /\ w.capture = u.capture /\ w.settled = u.settled /\ w.cleaning = u.cleaning
        /\ w.ws = u.ws /\ w.transcript = u.transcript /\ w.sent = u.sent
        /\ w.clicks = u.clicks /\ w.heard = u.heard /\ w.cut = u.cut /\ w.queue = u.queue
        /\ w.playing = u.playing /\ w.stream = u.stream
        /\ w.mics = u.mics
    BY <2>2, <2>4 DEF VoiceState
  <2>7. Agrees(w, "nobody")  BY <2>1, <2>5, <2>6, AsideKeeps
  <2>8. QED  BY <2>3, <2>7, LeaveKeeps DEF AgentIInv
<1>3. QED  BY <1>1, <1>2 DEF Posted

LEMMA ContextClosedKeeps ==
  ASSUME AgentIInv, ContextClosed
  PROVE  AgentIInv'
<1>a. Agrees(voice, "nobody")  BY DEF AgentIInv
<1>v. voice \in VoiceState  BY <1>a DEF Agrees
<1>1. PICK waiting \in voice.cleaning :
        LET rest == [voice EXCEPT !.cleaning = @ \ {waiting}]
        IN voice' = IF waiting[2] = "input"
                      THEN CloseOutput([rest EXCEPT !.input = "none"], waiting[1])
                      ELSE CloseSocket([rest EXCEPT !.output = "none"], waiting[1])
  BY DEF ContextClosed
<1> DEFINE in == [voice EXCEPT !.cleaning = @ \ {waiting}, !.input = "none"]
           out == [voice EXCEPT !.cleaning = @ \ {waiting}, !.output = "none"]
<1>2. voice' = CloseOutput(in, waiting[1]) \/ voice' = CloseSocket(out, waiting[1])
  BY <1>1, <1>v DEF VoiceState
<1>3. waiting[1] \in Callers /\ Agrees(in, waiting[1]) /\ Agrees(out, waiting[1])
  BY <1>a, ClosedContextKeeps
<1> HIDE DEF in, out
<1>4. PICK caller \in Callers : caller = waiting[1]  BY <1>3
<1>5. QED  BY <1>2, <1>3, <1>4, CloseOutputKeeps, CloseSocketKeeps DEF AgentIInv

LEMMA CaptureKeeps ==
  ASSUME AgentIInv, NEW c \in Conns,
         Welcome(c) \/ SettingsApplied(c) \/ Permitted(c) \/ Denied(c) \/ BeginCapture(c)
  PROVE  AgentIInv'
<1>a. Agrees(voice, "nobody")  BY DEF AgentIInv
<1>v. voice \in VoiceState  BY <1>a DEF Agrees
<1>s. voice.capture[c] # "none" => voice.sock[c] # "none"  BY <1>a DEF Agrees, Sockets
<1>1. CASE Welcome(c)  BY <1>1, <1>a, WelcomeKeeps DEF Welcome, AgentIInv
<1>2. CASE SettingsApplied(c)  BY <1>2, <1>a, AppliedKeeps DEF SettingsApplied, AgentIInv
<1>3. CASE Permitted(c)
  <2>1. voice' = [voice EXCEPT !.capture[c] = "resuming", !.mics = voice.mics \cup {c}]
    BY <1>3, <1>v DEF Permitted, VoiceState
  <2>2. voice.capture[c] = "asking"  BY <1>3 DEF Permitted
  <2>3. QED  BY <1>a, <2>1, <2>2, PermittedKeeps DEF AgentIInv
<1>4. CASE Denied(c)
  <2> DEFINE w == [voice EXCEPT !.capture[c] = "failed"]
  <2>1. voice' = Reject(w, c) /\ voice.capture[c] = "asking"  BY <1>4 DEF Denied
  <2>2. Agrees(w, "nobody")  BY <1>a, <2>1, DeniedKeeps
  <2>3. w.sock[c] # "none"  BY <1>s, <1>v, <2>1 DEF VoiceState
  <2> HIDE DEF w
  <2>4. QED  BY <2>1, <2>2, <2>3, RejectKeeps DEF AgentIInv
<1>5. CASE BeginCapture(c)
  <2> DEFINE w == [voice EXCEPT !.capture[c] = "done", !.stream = c, !.input = "live",
                     !.ready = TRUE, !.lit = voice.lit \cup {"connected", "listening"}]
  <2>1. voice' = Resolve(w, c) /\ voice.capture[c] = "resuming"  BY <1>5 DEF BeginCapture
  <2>2. Agrees(w, "nobody")  BY <1>a, <2>1, CapturedKeeps
  <2>3. w.sock[c] # "none"  BY <1>s, <1>v, <2>1 DEF VoiceState
  <2> HIDE DEF w
  <2>4. QED  BY <2>1, <2>2, <2>3, ResolveKeeps DEF AgentIInv
<1>6. QED  BY <1>1, <1>2, <1>3, <1>4, <1>5

LEMMA MessageKeeps ==
  ASSUME AgentIInv, NEW c \in Conns,
         \/ ConversationText(c) \/ UserStartedSpeaking(c) \/ AgentThinking(c)
         \/ AgentStartedSpeaking(c) \/ AgentAudioDone(c) \/ AudioChunk(c)
  PROVE  AgentIInv'
<1>a. Agrees(voice, "nobody")  BY DEF AgentIInv
<1>v. voice \in VoiceState /\ voice.lit \in LitSets  BY <1>a DEF Agrees, VoiceState
<1> DEFINE Lit(off, on) == (voice.lit \ off) \cup on
<1>l. /\ (voice.lit \cup {"listening"}) \ {"thinking"} \in LitSets
      /\ (voice.lit \ {"listening"}) \cup {"thinking"} \in LitSets
      /\ (voice.lit \ {"listening", "thinking"}) \cup {"speaking"} \in LitSets
      /\ (voice.lit \ {"speaking", "thinking"}) \cup {"listening"} \in LitSets
      /\ ((voice.lit \ {"speaking"}) \cup {"listening"}) \ {"thinking"} \in LitSets
  BY <1>v DEF LitSets, Lights
<1>1. CASE ConversationText(c)
  <2>1. PICK t \in Texts :
          voice' = [[voice EXCEPT !.messages = @ + 1] EXCEPT
                      !.transcript = AppendTranscript(voice.transcript, [conn |-> c, text |-> t])]
    BY <1>1, <1>v DEF ConversationText, Noted, VoiceState
  <2>2. voice.sock[c] = "open"  BY <1>1 DEF ConversationText, Hears
  <2>3. QED  BY <1>a, <2>1, <2>2, ConversationKeeps DEF AgentIInv
<1>2. CASE UserStartedSpeaking(c)
  <2>1. voice' = [StopPlayback([voice EXCEPT !.messages = @ + 1]) EXCEPT !.thinkTimer = FALSE,
                    !.lit = ((voice.lit \ {"speaking"}) \cup {"listening"}) \ {"thinking"}]
    BY <1>2, <1>v DEF UserStartedSpeaking, Noted, StopPlayback, VoiceState
  <2>2. QED  BY <1>a, <1>l, <2>1, InterruptedKeeps DEF AgentIInv
<1>3. CASE AgentThinking(c)
  <2>1. voice' = [[voice EXCEPT !.messages = @ + 1] EXCEPT !.thinkTimer = TRUE,
                    !.lit = (voice.lit \ {"listening"}) \cup {"thinking"}]
    BY <1>3, <1>v DEF AgentThinking, Noted, VoiceState
  <2>2. QED  BY <1>a, <1>l, <2>1, NotedKeeps DEF AgentIInv
<1>4. CASE AgentStartedSpeaking(c)
  <2>1. voice' = [[voice EXCEPT !.messages = @ + 1] EXCEPT !.thinkTimer = FALSE,
                    !.lit = (voice.lit \ {"listening", "thinking"}) \cup {"speaking"}]
    BY <1>4, <1>v DEF AgentStartedSpeaking, Noted, VoiceState
  <2>2. QED  BY <1>a, <1>l, <2>1, NotedKeeps DEF AgentIInv
<1>5. CASE AgentAudioDone(c)
  <2>1. voice' = [[voice EXCEPT !.messages = @ + 1] EXCEPT !.thinkTimer = FALSE,
                    !.lit = (voice.lit \ {"speaking", "thinking"}) \cup {"listening"}]
    BY <1>5, <1>v DEF AgentAudioDone, Noted, VoiceState
  <2>2. QED  BY <1>a, <1>l, <2>1, NotedKeeps DEF AgentIInv
<1>6. CASE AudioChunk(c)
  <2>1. voice' = [[voice EXCEPT !.messages = @ + 1] EXCEPT
                    !.heard = voice.heard + 1, !.thinkTimer = FALSE,
                    !.lit = (voice.lit \ {"thinking"}) \cup {"speaking"},
                    !.queue = IF voice.chainOk
                                THEN voice.queue \cup {[chunk |-> voice.heard + 1, fresh |-> TRUE]}
                                ELSE voice.queue]
    BY <1>6, <1>v DEF AudioChunk, Noted, VoiceState
  <2>2. QED  BY <1>a, <2>1, ChunkKeeps DEF AgentIInv
<1>7. QED  BY <1>1, <1>2, <1>3, <1>4, <1>5, <1>6

LEMMA LossKeeps ==
  ASSUME AgentIInv, NEW c \in Conns, AgentError(c) \/ SocketFails(c) \/ SocketCloses(c)
  PROVE  AgentIInv'
<1>a. Agrees(voice, "nobody")  BY DEF AgentIInv
<1>v. voice \in VoiceState /\ voice.sock \in SockTable  BY <1>a DEF Agrees, VoiceState
<1> DEFINE w == [voice EXCEPT !.sock[c] = "closed"]
<1>c. w.sock[c] = "closed"  BY <1>v DEF VoiceState, SockTable
<1>w. voice.sock[c] # "none" => Agrees(w, "nobody")  BY <1>a, ClosedKeeps
<1>1. CASE AgentError(c)  BY <1>1, <1>a, FailureKeeps DEF AgentError, AgentIInv
<1>2. CASE SocketFails(c)
  <2>1. voice' = Quiet(Failure(w, c)) /\ voice.sock[c] # "none"  BY <1>2 DEF SocketFails
  <2> HIDE DEF w
  <2>2. Agrees(Failure(w, c), "nobody")  BY <1>c, <1>w, <2>1, FailureKeeps
  <2>3. QED  BY <2>1, <2>2, QuietKeeps DEF AgentIInv
<1>3. CASE SocketCloses(c)
  <2> DEFINE v == Quiet(w)
  <2>1. /\ voice.sock[c] # "none"
        /\ voice' = IF v.manual \/ v.ready THEN v ELSE FailSessionStart(v, c)
    BY <1>3 DEF SocketCloses
  <2> HIDE DEF w
  <2>2. Agrees(v, "nobody") /\ v.sock[c] # "none"  BY <1>c, <1>w, <2>1, QuietKeeps
  <2> HIDE DEF v
  <2>3. QED  BY <2>1, <2>2, FailSessionStartKeeps DEF AgentIInv
<1>4. QED  BY <1>1, <1>2, <1>3

LEMMA TimerKeeps ==
  ASSUME AgentIInv, InitTimeout \/ ThinkingTimeout \/ PlayChunk \/ ChunkEnds
  PROVE  AgentIInv'
<1>a. Agrees(voice, "nobody")  BY DEF AgentIInv
<1>v. voice \in VoiceState  BY <1>a DEF Agrees
<1>1. CASE InitTimeout
  <2>1. voice.initTimer # 0 /\ voice' = FailSessionStart(voice, voice.initTimer)
    BY <1>1 DEF InitTimeout
  <2>2. voice.initTimer \in Conns /\ voice.sock[voice.initTimer] # "none"
    BY <1>a, <1>v, <2>1 DEF Agrees, Sockets, VoiceState, ConnOrNone
  <2>3. PICK c \in Conns : c = voice.initTimer  BY <2>2
  <2>4. QED  BY <1>a, <2>1, <2>2, <2>3, FailSessionStartKeeps DEF AgentIInv
<1>2. CASE ThinkingTimeout
  <2>1. Starts(voice, "failure") /\ Ends(voice, "failure")  BY <1>a DEF Agrees, Starts, Ends
  <2>2. Agrees(voice, "failure")  BY <1>a, <2>1 DEF Agrees
  <2>3. QED  BY <1>2, <2>2, CleanupKeeps
             DEF ThinkingTimeout, HandleSessionFailure, Callers, AgentIInv
<1>3. CASE PlayChunk
  <2>1. PICK e \in voice.queue :
          /\ NextInChain(e)
          /\ voice' =
               IF voice.output = "closing"
               THEN [voice EXCEPT !.queue = @ \ ChainOf(e), !.chainOk = @ /\ ~e.fresh]
               ELSE [voice EXCEPT !.queue = @ \ {e}, !.output = "live",
                                  !.playing = IF e.fresh THEN Append(@, e.chunk) ELSE @]
    BY <1>3 DEF PlayChunk
  <2>2. CASE voice.output = "closing"
    <3> DEFINE gone == ChainOf(e)
               ok == voice.chainOk /\ ~e.fresh
    <3>1. voice' = [voice EXCEPT !.queue = voice.queue \ gone, !.chainOk = ok]
      BY <1>v, <2>1, <2>2 DEF VoiceState
    <3>2. ok \in BOOLEAN  OBVIOUS
    <3> HIDE DEF gone, ok
    <3>3. QED  BY <1>a, <3>1, <3>2, ChainBreaksKeeps DEF AgentIInv
  <2>3. CASE voice.output # "closing"
    <3>1. voice' = [voice EXCEPT !.queue = voice.queue \ {e}, !.output = "live",
                      !.playing = IF e.fresh THEN Append(voice.playing, e.chunk)
                                             ELSE voice.playing]
      BY <1>v, <2>1, <2>3 DEF VoiceState
    <3>2. \A f \in voice.queue : f.fresh = e.fresh => e.chunk <= f.chunk
      BY <2>1 DEF NextInChain, ChainOf
    <3>3. QED  BY <1>a, <3>1, <3>2, PlayedKeeps DEF AgentIInv
  <2>4. QED  BY <2>2, <2>3
<1>4. CASE ChunkEnds
  <2>1. voice' = [voice EXCEPT !.playing = Tail(voice.playing)] /\ voice.playing # << >>
    BY <1>4 DEF ChunkEnds
  <2>2. QED  BY <1>a, <2>1, ChunkEndsKeeps DEF AgentIInv
<1>5. QED  BY <1>1, <1>2, <1>3, <1>4

LEMMA AgentNextKeeps == AgentIInv /\ [AgentNext]_voice => AgentIInv'
<1> SUFFICES ASSUME AgentIInv, [AgentNext]_voice PROVE AgentIInv'  OBVIOUS
<1>1. CASE UNCHANGED voice  BY <1>1 DEF AgentIInv
<1>2. CASE \E c \in Conns : Connection(c)
  <2>1. PICK c \in Conns : Connection(c)  BY <1>2
  <2>2. QED  BY <2>1, CaptureKeeps, MessageKeeps, LossKeeps DEF Connection
<1>3. CASE AgentNext /\ ~(\E c \in Conns : Connection(c))
  BY <1>3, PageKeeps, PostedKeeps, ContextClosedKeeps, TimerKeeps DEF AgentNext
<1>4. QED  BY <1>1, <1>2, <1>3

LEMMA AgentStarts == AgentInit => AgentIInv
<1> SUFFICES ASSUME AgentInit PROVE AgentIInv  OBVIOUS
<1> DEFINE v == NewVoice
<1>1. /\ 0 \in Clicks /\ 0 \in ConnOrNone /\ {} \in LitSets /\ {} \in Micsets
      /\ {} \in Cleanings /\ {} \in Queues /\ << >> \in Lines /\ << >> \in Played
      /\ [c \in Conns |-> "none"] \in SockTable /\ [c \in Conns |-> "none"] \in CaptureTable
      /\ [c \in Conns |-> FALSE] \in SettledTable
  BY AgentAssumption DEF Clicks, ConnOrNone, LitSets, Micsets, Cleanings, Queues, Lines,
     Played, SockTable, CaptureTable, SettledTable, Socks, Captures
<1>2. v \in VoiceState  BY <1>1 DEF NewVoice, VoiceState, Waits, EndWaits, Audio
<1>3. Streams(v) /\ Sockets(v) /\ OneTalk(v) /\ Ends(v, "nobody")
  BY DEF NewVoice, Streams, Sockets, OneTalk, Ends
<1>4. Kept(v) /\ Starts(v, "nobody")  BY DEF NewVoice, Kept, Starts
<1>5. Sound(v)  BY DEF NewVoice, Sound
<1>6. QED  BY <1>2, <1>3, <1>4, <1>5 DEF AgentInit, AgentIInv, Agrees

LEMMA AgentSaid == AgentIInv => AgentInv /\ SilencedStaysSilent
<1> SUFFICES ASSUME AgentIInv PROVE AgentInv /\ SilencedStaysSilent  OBVIOUS
<1>v. voice \in VoiceState /\ Agrees(voice, "nobody")  BY DEF AgentIInv, Agrees
<1>1. AgentTypeOK
  <2>1. voice.stream \in voice.mics \cup {0}  BY <1>v DEF Agrees, Streams
  <2>2. QED  BY <1>v, <2>1 DEF AgentTypeOK, VoiceState, Waits, EndWaits, LitSets, Lights,
             Cleanings, Callers, Contexts, Micsets, ConnOrNone, Audio
<1>2. OneConversation  BY <1>v DEF Agrees, OneTalk, OneConversation
<1>3. SentIsKept
  <2>1. voice.sent \in Lines /\ voice.transcript \in Lines  BY <1>v DEF VoiceState
  <2>2. voice.sent \in Seq(Line) /\ voice.transcript \in Seq(Line)
        /\ Len(voice.sent) \in Nat /\ Len(voice.transcript) \in Nat
    BY <2>1 DEF Lines
  <2>3. /\ Len(voice.sent) <= Len(voice.transcript)
        /\ \A i \in 1..Len(voice.sent) : voice.sent[i] = voice.transcript[i]
    BY <1>v DEF Agrees, Kept
  <2>4. QED  BY <2>2, <2>3 DEF SentIsKept, IsPrefix
<1>4. EndingIsServed  BY <1>v DEF Agrees, Ends, EndingIsServed, Contexts
<1>5. SilencedStaysSilent  BY <1>v DEF Agrees, Sound, SilencedStaysSilent
<1>6. QED  BY <1>1, <1>2, <1>3, <1>4, <1>5 DEF AgentInv

(* The transcript is that of one conversation, what was sent is kept, and  *)
(* an end that the page waits for is on its way, in whatever order the     *)
(* callbacks of its connections come.                                      *)
THEOREM OneTranscript == AgentSpec => []AgentInv
<1>1. AgentSpec => []AgentIInv
  BY AgentStarts, AgentNextKeeps, PTL DEF AgentSpec
<1>2. QED  BY <1>1, AgentSaid, PTL

(* A chunk that had arrived when the learner spoke up is never heard.      *)
THEOREM InterruptedIsSilent == AgentSpec => []SilencedStaysSilent
<1>1. AgentSpec => []AgentIInv
  BY AgentStarts, AgentNextKeeps, PTL DEF AgentSpec
<1>2. QED  BY <1>1, AgentSaid, PTL

=============================================================================
