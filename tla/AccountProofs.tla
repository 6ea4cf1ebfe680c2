---------------------------- MODULE AccountProofs ----------------------------
(***************************************************************************)
(* The sessions of an account, for any sets of requests: proofs of the     *)
(* inductive invariant AccountInv of its tokens and links on the server;   *)
(* and, for any number of tabs, calls, tokens and lost answers, of the     *)
(* inductive invariant ClientInv of what the browser keeps of them.        *)
(*                                                                         *)
(* And registering with an e-mail address, for any number of requests,     *)
(* with a store in memory or in Redis: proofs of the inductive invariant   *)
(* CodesInv and, from it, that the code which opens an account is a good   *)
(* one.                                                                    *)
(***************************************************************************)
EXTENDS AccountSessions, AuthClient, EmailCodes, TLAPS

(* What a request has to be like after a step that changes no row.         *)
Fits(q, s) ==
  /\ s \in RequestState
  /\ s.pc # "claimed"
  /\ q \in redeemed =>
       /\ s.of = request[q].of
       /\ s.pc \in {"redeemed", "changed", "updating", "answered", "failed"}
  /\ s.pc \in {"found", "redeemed"} =>
       /\ q \in Refreshes \cup Logouts => s.of \in Issuers
       /\ q \in Resets => s.of \in Forgots
       /\ q \in Refreshes \cup Logouts \cup Resets
       /\ item[s.of] # "absent"
  /\ s.pc = "updating" =>
       /\ q \in Forgots => s.seen \subseteq Forgots
       /\ q \in Resets => s.seen \subseteq Issuers
  /\ q \in Items /\ s.pc \in {"issued", "redeemed", "answered"} => item[q] # "absent"
  /\ q \in Logins \cup Forgots /\ item[q] # "absent" => s.pc \in {"issued", "answered", "failed"}

(* A step that changes no row but perhaps the password keeps the invariant *)
(* if the request fits: most steps only move a request along.              *)
LEMMA RowsUnchanged ==
  ASSUME AccountInv, NEW q \in Requests, NEW s, Fits(q, s),
         request[q].pc # "claimed",
         request' = [request EXCEPT ![q] = s],
         password' \in Resets \cup {NoOne},
         UNCHANGED <<item, lock, chain, closed, redeemed>>
  PROVE  AccountInv'
<1> USE AccountAssumption DEF Requests, Items, Issuers
<1>0. /\ AccountTypeOK /\ LockIsClaim /\ OwnKind /\ StoredByCommit
      /\ RedeemedIsSpent /\ RedeemedOnce /\ ChainHasOneToken
  BY DEF AccountInv
<1>a. /\ request'[q] = s
      /\ \A p \in Requests : p # q => request'[p] = request[p]
      /\ request' \in [Requests -> RequestState]
  BY <1>0 DEF AccountTypeOK, Fits
<1>1. AccountTypeOK'
  BY <1>0, <1>a DEF AccountTypeOK
<1>2. LockIsClaim'
  BY <1>0, <1>a DEF AccountTypeOK, LockIsClaim, Fits
<1>3. OwnKind'
  BY <1>0, <1>a DEF AccountTypeOK, OwnKind, Fits
<1>4. StoredByCommit'
  BY <1>0, <1>a DEF AccountTypeOK, StoredByCommit, Fits
<1>5. RedeemedIsSpent'
  BY <1>0, <1>a DEF AccountTypeOK, RedeemedIsSpent, Fits
<1>6. RedeemedOnce'
  BY <1>0, <1>a DEF AccountTypeOK, RedeemedOnce, Fits
<1>7. ChainHasOneToken'
  BY <1>0 DEF ChainHasOneToken, ChainOf, Good
<1> QED
  BY <1>1, <1>2, <1>3, <1>4, <1>5, <1>6, <1>7 DEF AccountInv

LEMMA InitInv == Init => AccountInv
<1> SUFFICES ASSUME Init PROVE AccountInv
  OBVIOUS
<1> USE AccountAssumption DEF Init, Requests, Items, Issuers
<1>1. AccountTypeOK
  BY DEF AccountTypeOK, RequestState, Ends
<1>2. LockIsClaim /\ OwnKind /\ RedeemedIsSpent /\ RedeemedOnce
  BY DEF LockIsClaim, OwnKind, RedeemedIsSpent, RedeemedOnce
<1>3. StoredByCommit /\ ChainHasOneToken
  BY DEF StoredByCommit, ChainHasOneToken
<1> QED
  BY <1>1, <1>2, <1>3 DEF AccountInv

(* A look-up moves the request only.                                       *)
LEMMA PresentInv ==
  ASSUME AccountInv, NEW q \in Requests, NEW items,
         \/ q \in Refreshes /\ items = Issuers
         \/ q \in Resets /\ items = Forgots,
         Present(q, items)
  PROVE  AccountInv'
<1> USE AccountAssumption DEF Requests, Items, Issuers
<1>1. PICK i \in Known(items), expired \in BOOLEAN :
        request' = [request EXCEPT
          ![q].pc = IF item[i] = "good" /\ ~expired THEN "found" ELSE "refused",
          ![q].of = i]
  BY DEF Present
<1> DEFINE s == [request[q] EXCEPT
                  !.pc = IF item[i] = "good" /\ ~expired THEN "found" ELSE "refused",
                  !.of = i]
<1>2. request' = [request EXCEPT ![q] = s]
  BY <1>1
<1>3. request[q] \in RequestState /\ request[q].pc = "waiting" /\ q \notin redeemed
  BY DEF AccountInv, AccountTypeOK, RedeemedIsSpent, Present
<1>4. i \in items /\ i \in Items
  BY DEF Known
<1>5. s \in RequestState /\ s.pc \in {"found", "refused"} /\ s.of = i
  BY <1>3, <1>4 DEF RequestState, Ends
<1>6. s.pc = "found" => item[i] = "good"
  BY <1>3 DEF RequestState
<1>7. q \notin Logins \cup Forgots
  OBVIOUS
<1>9. Fits(q, s)
  BY <1>3, <1>4, <1>5, <1>6, <1>7 DEF Fits
<1> HIDE DEF s
<1> QED
  BY <1>2, <1>3, <1>9, RowsUnchanged DEF AccountInv, AccountTypeOK, Present, rows

(* A step that only sets pc, and perhaps loads the password.               *)
LEMMA LoginQuiet ==
  ASSUME AccountInv, NEW l \in Logins,
         CheckPassword(l) \/ LoadCredential(l) \/ StampLogin(l) \/ AnswerLogin(l)
  PROVE  AccountInv'
<1> USE AccountAssumption DEF Requests, Items, Issuers
<1>1. /\ request[l] \in RequestState
      /\ l \notin redeemed
      /\ password \in Resets \cup {NoOne}
      /\ item[l] # "absent" => request[l].pc \in {"issued", "answered", "failed"}
      /\ request[l].pc = "issued" => item[l] # "absent"
  BY DEF AccountInv, AccountTypeOK, RedeemedIsSpent, StoredByCommit
<1>2. PICK s : /\ s \in RequestState
               /\ s.pc \in {"checked", "refused", "stamping", "stamped", "answered"}
               /\ s.pc = "answered" <=> request[l].pc = "issued"
               /\ request[l].pc \in {"waiting", "checked", "stamping", "issued"}
               /\ request' = [request EXCEPT ![l] = s]
  <2>1. CASE CheckPassword(l)
    <3>1. CASE Goes(l, "waiting", "checked")
      <4> WITNESS [request[l] EXCEPT !.pc = "checked"]
      <4> QED BY <1>1, <3>1 DEF Goes, RequestState
    <3>2. CASE Goes(l, "waiting", "refused")
      <4> WITNESS [request[l] EXCEPT !.pc = "refused"]
      <4> QED BY <1>1, <3>2 DEF Goes, RequestState, Ends
    <3> QED BY <2>1, <3>1, <3>2 DEF CheckPassword
  <2>2. CASE LoadCredential(l)
    <3> DEFINE loaded == [request[l] EXCEPT !.pc = "stamping", !.hash = password]
    <3>1. loaded \in RequestState /\ loaded.pc = "stamping"
      BY <1>1 DEF RequestState
    <3>2. request' = [request EXCEPT ![l] = loaded] /\ request[l].pc = "checked"
      BY <2>2 DEF LoadCredential
    <3> QED BY <3>1, <3>2
  <2>3. CASE StampLogin(l)
    <3> WITNESS [request[l] EXCEPT !.pc = "stamped"]
    <3> QED BY <1>1, <2>3 DEF StampLogin, Goes, RequestState
  <2>4. CASE AnswerLogin(l)
    <3> WITNESS [request[l] EXCEPT !.pc = "answered"]
    <3> QED BY <1>1, <2>4 DEF AnswerLogin, Goes, RequestState, Ends
  <2> QED BY <2>1, <2>2, <2>3, <2>4
<1>3. Fits(l, s)
  BY <1>1, <1>2 DEF Fits
<1>4. UNCHANGED <<item, lock, password, chain, closed, redeemed>>
  BY DEF CheckPassword, LoadCredential, StampLogin, AnswerLogin, rows
<1> QED
  BY <1>1, <1>2, <1>3, <1>4, RowsUnchanged

(* The other steps that change no row.                                     *)
LEMMA OtherQuiet ==
  ASSUME AccountInv, NEW q \in Requests,
         \/ q \in Refreshes /\ AnswerRefresh(q)
         \/ q \in Logouts /\ FindToken(q)
         \/ q \in Forgots /\ (OpenSupersede(q) \/ MailLink(q))
         \/ q \in Resets /\ (ChangePassword(q) \/ OpenRevokeAll(q))
  PROVE  AccountInv'
<1> USE AccountAssumption DEF Requests, Items, Issuers
<1>1. /\ AccountTypeOK /\ RedeemedIsSpent /\ StoredByCommit
      /\ request[q] \in RequestState
  BY DEF AccountInv, AccountTypeOK
<1>2. CASE q \in Refreshes /\ AnswerRefresh(q)
  <2> DEFINE s == [request[q] EXCEPT !.pc = "answered"]
  <2>1. /\ s \in RequestState /\ s.pc = "answered" /\ s.of = request[q].of
        /\ request[q].pc = "redeemed"
        /\ request' = [request EXCEPT ![q] = s]
        /\ UNCHANGED <<item, lock, password, chain, closed, redeemed>>
    BY <1>1, <1>2 DEF AnswerRefresh, Goes, RequestState, Ends, rows
  <2> HIDE DEF s
  <2>2. Fits(q, s)
    BY <1>1, <1>2, <2>1 DEF Fits, StoredByCommit
  <2> QED
    BY <1>1, <2>1, <2>2, RowsUnchanged DEF AccountTypeOK
<1>3. CASE q \in Logouts /\ FindToken(q)
  <2>1. PICK t \in Known(Issuers) :
          request' = [request EXCEPT ![q].pc = "found", ![q].of = t]
    BY <1>3 DEF FindToken
  <2> DEFINE s == [request[q] EXCEPT !.pc = "found", !.of = t]
  <2>2. t \in Issuers /\ item[t] # "absent"
    BY <1>1, <2>1 DEF Known, StoredByCommit
  <2>3. /\ s \in RequestState /\ s.pc = "found" /\ s.of = t
        /\ request[q].pc = "waiting" /\ q \notin redeemed
        /\ request' = [request EXCEPT ![q] = s]
        /\ UNCHANGED <<item, lock, password, chain, closed, redeemed>>
    <3>1. s \in RequestState /\ s.pc = "found" /\ s.of = t
      BY <1>1, <2>2 DEF RequestState, Ends
    <3>2. request' = [request EXCEPT ![q] = s]
      BY <2>1
    <3> QED
      BY <1>1, <1>3, <3>1, <3>2 DEF FindToken, RedeemedIsSpent, rows
  <2> HIDE DEF s
  <2>4. Fits(q, s)
    BY <1>3, <2>2, <2>3 DEF Fits
  <2> QED
    BY <1>1, <2>3, <2>4, RowsUnchanged DEF AccountTypeOK
<1>4. CASE q \in Forgots /\ OpenSupersede(q)
  <2> DEFINE s == [request[q] EXCEPT !.pc = "updating", !.seen = Good(Forgots)]
  <2>1. Good(Forgots) \subseteq Forgots
    BY DEF Good
  <2>2. /\ s \in RequestState /\ s.pc = "updating" /\ s.seen = Good(Forgots)
        /\ request[q].pc = "waiting" /\ q \notin redeemed
        /\ request' = [request EXCEPT ![q] = s]
        /\ UNCHANGED <<item, lock, password, chain, closed, redeemed>>
    <3>1. s \in RequestState /\ s.pc = "updating" /\ s.seen = Good(Forgots)
      BY <1>1, <2>1 DEF RequestState, Ends
    <3>2. /\ request[q].pc = "waiting"
          /\ request' = [request EXCEPT ![q] = s]
          /\ UNCHANGED <<item, lock, password, chain, closed, redeemed>>
      BY <1>4 DEF OpenSupersede, OpenBulk, rows
    <3>3. q \notin redeemed
      BY <1>1, <3>2 DEF RedeemedIsSpent
    <3> QED
      BY <3>1, <3>2, <3>3
  <2> HIDE DEF s
  <2>3. Fits(q, s)
    BY <1>1, <1>4, <2>1, <2>2 DEF Fits, StoredByCommit
  <2> QED
    BY <1>1, <2>2, <2>3, RowsUnchanged DEF AccountTypeOK
<1>5. CASE q \in Forgots /\ MailLink(q)
  <2> DEFINE s == [request[q] EXCEPT !.pc = "answered"]
  <2>1. /\ s \in RequestState /\ s.pc = "answered" /\ s.of = request[q].of
        /\ request[q].pc = "issued"
        /\ request' = [request EXCEPT ![q] = s]
        /\ UNCHANGED <<item, lock, password, chain, closed, redeemed>>
    BY <1>1, <1>5 DEF MailLink, Goes, RequestState, Ends, rows
  <2> HIDE DEF s
  <2>2. Fits(q, s)
    BY <1>1, <1>5, <2>1 DEF Fits, StoredByCommit
  <2> QED
    BY <1>1, <2>1, <2>2, RowsUnchanged DEF AccountTypeOK
<1>6. CASE q \in Resets /\ ChangePassword(q)
  <2> DEFINE s == [request[q] EXCEPT !.pc = "changed"]
  <2>1. /\ s \in RequestState /\ s.pc = "changed" /\ s.of = request[q].of
        /\ request[q].pc = "redeemed"
        /\ request' = [request EXCEPT ![q] = s]
        /\ password' \in Resets
        /\ UNCHANGED <<item, lock, chain, closed, redeemed>>
    BY <1>1, <1>6 DEF ChangePassword, Goes, RequestState
  <2> HIDE DEF s
  <2>2. Fits(q, s)
    BY <1>1, <1>6, <2>1 DEF Fits
  <2> QED
    BY <1>1, <2>1, <2>2, RowsUnchanged
<1>7. CASE q \in Resets /\ OpenRevokeAll(q)
  <2> DEFINE s == [request[q] EXCEPT !.pc = "updating", !.seen = Good(Issuers)]
  <2>1. Good(Issuers) \subseteq Issuers
    BY DEF Good
  <2>2. /\ s \in RequestState /\ s.pc = "updating" /\ s.seen = Good(Issuers)
        /\ s.of = request[q].of /\ request[q].pc = "changed"
        /\ request' = [request EXCEPT ![q] = s]
        /\ UNCHANGED <<item, lock, password, chain, closed, redeemed>>
    <3>1. /\ s \in RequestState /\ s.pc = "updating" /\ s.seen = Good(Issuers)
          /\ s.of = request[q].of
      BY <1>1, <2>1 DEF RequestState, Ends
    <3> QED
      BY <1>7, <3>1 DEF OpenRevokeAll, OpenBulk, rows
  <2> HIDE DEF s
  <2>3. Fits(q, s)
    BY <1>7, <2>1, <2>2 DEF Fits
  <2> QED
    BY <1>1, <2>2, <2>3, RowsUnchanged DEF AccountTypeOK
<1> QED
  BY <1>2, <1>3, <1>4, <1>5, <1>6, <1>7

(* A claim locks the row it finds good, or is refused.                     *)
LEMMA ClaimInv ==
  ASSUME AccountInv, NEW q \in Refreshes \cup Resets, Claim(q)
  PROVE  AccountInv'
<1> USE AccountAssumption DEF Requests, Items, Issuers
<1>1. /\ AccountTypeOK /\ LockIsClaim /\ OwnKind /\ StoredByCommit
      /\ RedeemedIsSpent /\ RedeemedOnce /\ ChainHasOneToken
      /\ request[q] \in RequestState
  BY DEF AccountInv, AccountTypeOK
<1> DEFINE i == request[q].of
<1>2. /\ request[q].pc = "found" /\ i \in Items /\ item[i] # "absent"
      /\ q \notin redeemed /\ lock[i] = NoOne
      /\ q \in Refreshes => i \in Issuers
      /\ q \in Resets => i \in Forgots
      /\ q \in Refreshes => item[q] = "absent"
  BY <1>1 DEF Claim, OwnKind, RedeemedIsSpent, StoredByCommit
<1>3. CASE item[i] # "good"
  <2> DEFINE s == [request[q] EXCEPT !.pc = "refused"]
  <2>1. /\ s \in RequestState /\ s.pc = "refused" /\ s.of = i
        /\ request' = [request EXCEPT ![q] = s]
        /\ UNCHANGED <<item, lock, password, chain, closed, redeemed>>
    BY <1>1, <1>3 DEF Claim, RequestState, Ends
  <2> HIDE DEF s
  <2>2. Fits(q, s)
    BY <1>2, <2>1 DEF Fits
  <2> QED
    BY <1>1, <1>2, <2>1, <2>2, RowsUnchanged DEF AccountTypeOK
<1>4. CASE item[i] = "good"
  <2>1. /\ lock' = [lock EXCEPT ![i] = q]
        /\ request' = [request EXCEPT ![q].pc = "claimed"]
        /\ UNCHANGED <<item, password, chain, closed, redeemed>>
    BY <1>4 DEF Claim
  <2>2. /\ request' \in [Requests -> RequestState]
        /\ request'[q].pc = "claimed" /\ request'[q].of = i
        /\ \A p \in Requests : p # q => request'[p] = request[p]
        /\ \A p \in Requests : request'[p].of = request[p].of
    BY <1>1, <2>1 DEF AccountTypeOK, RequestState
  <2>3. AccountTypeOK'
    BY <1>1, <1>2, <2>1, <2>2 DEF AccountTypeOK
  <2>4. LockIsClaim'
    BY <1>1, <1>2, <1>4, <2>1, <2>2 DEF AccountTypeOK, LockIsClaim
  <2>5. OwnKind'
    BY <1>1, <1>2, <1>4, <2>1, <2>2 DEF OwnKind
  <2>6. StoredByCommit'
    BY <1>1, <1>2, <2>1, <2>2 DEF StoredByCommit
  <2>7. RedeemedIsSpent'
    BY <1>1, <1>2, <2>1, <2>2 DEF AccountTypeOK, RedeemedIsSpent
  <2>8. RedeemedOnce'
    BY <1>1, <2>1, <2>2 DEF AccountTypeOK, RedeemedOnce
  <2>9. ChainHasOneToken'
    BY <1>1, <2>1 DEF ChainHasOneToken, ChainOf, Good
  <2> QED
    BY <2>3, <2>4, <2>5, <2>6, <2>7, <2>8, <2>9 DEF AccountInv
<1> QED
  BY <1>3, <1>4

(* A request that fails lets go of its locks and leaves its rows.          *)
LEMMA FailInv ==
  ASSUME AccountInv, NEW q \in Requests, Fail(q)
  PROVE  AccountInv'
<1> USE AccountAssumption DEF Requests, Items, Issuers
<1>1. /\ AccountTypeOK /\ LockIsClaim /\ OwnKind /\ StoredByCommit
      /\ RedeemedIsSpent /\ RedeemedOnce /\ ChainHasOneToken
      /\ request[q] \in RequestState
  BY DEF AccountInv, AccountTypeOK
<1>2. /\ request' = [request EXCEPT ![q].pc = "failed"]
      /\ lock' = Unlocked(q)
      /\ UNCHANGED <<item, password, chain, closed, redeemed>>
      /\ request[q].pc \notin {"waiting"} \cup Ends
  BY DEF Fail
<1>3. /\ request' \in [Requests -> RequestState]
      /\ request'[q].pc = "failed"
      /\ \A p \in Requests : p # q => request'[p] = request[p]
      /\ \A p \in Requests : request'[p].of = request[p].of
  BY <1>1, <1>2 DEF AccountTypeOK, RequestState, Ends
<1>4. /\ lock' \in [Items -> Requests \cup {NoOne}]
      /\ \A j \in Items : lock'[j] # NoOne => lock'[j] = lock[j] /\ lock[j] # q
      /\ \A j \in Items : lock[j] # q => lock'[j] = lock[j]
  BY <1>1, <1>2 DEF AccountTypeOK, Unlocked
<1>5. AccountTypeOK'
  BY <1>1, <1>2, <1>3, <1>4 DEF AccountTypeOK
<1>6. LockIsClaim'
  BY <1>1, <1>2, <1>3, <1>4 DEF AccountTypeOK, LockIsClaim, OwnKind
<1>7. OwnKind'
  BY <1>1, <1>2, <1>3 DEF OwnKind
<1>8. StoredByCommit'
  BY <1>1, <1>2, <1>3 DEF StoredByCommit
<1>9. RedeemedIsSpent'
  BY <1>1, <1>2, <1>3 DEF AccountTypeOK, RedeemedIsSpent
<1>10. RedeemedOnce'
  BY <1>1, <1>2, <1>3 DEF AccountTypeOK, RedeemedOnce
<1>11. ChainHasOneToken'
  BY <1>1, <1>2 DEF ChainHasOneToken, ChainOf, Good
<1> QED
  BY <1>5, <1>6, <1>7, <1>8, <1>9, <1>10, <1>11 DEF AccountInv

(* The token is spent and its replacement takes its place in the chain.    *)
LEMMA RotateInv ==
  ASSUME AccountInv, NEW r \in Refreshes, Rotate(r)
  PROVE  AccountInv'
<1> USE AccountAssumption DEF Requests, Items, Issuers
<1>1. /\ AccountTypeOK /\ LockIsClaim /\ OwnKind /\ StoredByCommit
      /\ RedeemedIsSpent /\ RedeemedOnce /\ ChainHasOneToken
      /\ request[r] \in RequestState
  BY DEF AccountInv, AccountTypeOK
<1> DEFINE t == request[r].of
<1>2. /\ request[r].pc = "claimed" /\ t \in Issuers
      /\ lock[t] = r /\ item[t] = "good"
      /\ r \notin redeemed /\ item[r] = "absent" /\ chain[r] = NoOne /\ t # r
  BY <1>1 DEF Rotate, Goes, LockIsClaim, OwnKind, RedeemedIsSpent, StoredByCommit
<1>3. /\ request' = [request EXCEPT ![r].pc = "redeemed"]
      /\ item' = [item EXCEPT ![t] = "spent", ![r] = "good"]
      /\ chain' = [chain EXCEPT ![r] = chain[t]]
      /\ redeemed' = redeemed \cup {r}
      /\ lock' = Unlocked(r)
      /\ UNCHANGED <<password, closed>>
  BY DEF Rotate, Goes
<1>4. /\ request' \in [Requests -> RequestState]
      /\ request'[r].pc = "redeemed"
      /\ \A p \in Requests : p # r => request'[p] = request[p]
      /\ \A p \in Requests : request'[p].of = request[p].of
  BY <1>1, <1>3 DEF AccountTypeOK, RequestState
<1>5. /\ lock' \in [Items -> Requests \cup {NoOne}]
      /\ \A j \in Items : lock'[j] # NoOne => lock'[j] = lock[j] /\ lock[j] # r
      /\ \A j \in Items : lock[j] # r => lock'[j] = lock[j]
  BY <1>1, <1>3 DEF AccountTypeOK, Unlocked
<1>6. /\ item' \in [Items -> {"absent", "good", "spent"}]
      /\ item'[t] = "spent" /\ item'[r] = "good"
      /\ \A j \in Items : j \notin {t, r} => item'[j] = item[j]
  BY <1>1, <1>2, <1>3 DEF AccountTypeOK
<1>7. /\ chain' \in [Issuers -> Logins \cup {NoOne}]
      /\ chain'[r] = chain[t]
      /\ \A j \in Issuers : j # r => chain'[j] = chain[j]
      /\ chain[t] \in Logins
      /\ item[chain[t]] # "absent"
  BY <1>1, <1>2, <1>3 DEF AccountTypeOK, StoredByCommit
<1>8. AccountTypeOK'
  BY <1>1, <1>3, <1>4, <1>5, <1>6, <1>7 DEF AccountTypeOK
<1>9. LockIsClaim'
  <2>1. ASSUME NEW j \in Items, lock'[j] # NoOne
        PROVE  /\ item'[j] = "good"
               /\ request'[lock'[j]].pc = "claimed" /\ request'[lock'[j]].of = j
    <3>1. lock'[j] = lock[j] /\ lock[j] # r /\ lock[j] \in Requests
      BY <1>1, <1>5, <2>1 DEF AccountTypeOK
    <3>2. /\ item[j] = "good"
          /\ request[lock[j]].pc = "claimed" /\ request[lock[j]].of = j
      BY <1>1, <2>1, <3>1 DEF LockIsClaim
    <3> QED
      BY <1>2, <1>4, <1>6, <3>1, <3>2
  <2>2. ASSUME NEW q \in Requests, request'[q].pc = "claimed"
        PROVE  lock'[request'[q].of] = q
    BY <1>1, <1>4, <1>5, <2>2 DEF LockIsClaim, OwnKind
  <2> QED
    BY <2>1, <2>2 DEF LockIsClaim
<1>10. OwnKind'
  BY <1>1, <1>2, <1>4, <1>6 DEF OwnKind
<1>11. StoredByCommit'
  <2>1. \A j \in Items : item'[j] # "absent" <=> item[j] # "absent" \/ j = r
    BY <1>2, <1>6
  <2>2. \A p \in Refreshes : item'[p] # "absent" <=> p \in redeemed'
    BY <1>1, <1>3, <2>1 DEF StoredByCommit
  <2>3. \A j \in Logins \cup Forgots : item'[j] # "absent" =>
          request'[j].pc \in {"issued", "answered", "failed"}
    BY <1>1, <1>4, <2>1 DEF StoredByCommit
  <2>4. \A j \in Issuers : item'[j] # "absent" <=> chain'[j] # NoOne
    BY <1>1, <1>7, <2>1 DEF StoredByCommit
  <2>5. \A j \in Issuers : chain'[j] # NoOne => item'[chain'[j]] # "absent"
    BY <1>1, <1>7, <2>1 DEF AccountTypeOK, StoredByCommit
  <2>6. /\ \A j \in Items : request'[j].pc \in {"issued", "redeemed", "answered"} =>
            item'[j] # "absent"
        /\ \A l \in closed' : item'[l] # "absent"
    BY <1>1, <1>3, <1>4, <2>1 DEF AccountTypeOK, StoredByCommit
  <2> QED
    BY <2>2, <2>3, <2>4, <2>5, <2>6 DEF StoredByCommit
<1>12. RedeemedIsSpent'
  BY <1>1, <1>2, <1>3, <1>4, <1>6 DEF AccountTypeOK, RedeemedIsSpent
<1>13. RedeemedOnce'
  BY <1>1, <1>2, <1>3, <1>4 DEF RedeemedIsSpent, RedeemedOnce, AccountTypeOK
<1>14. ChainHasOneToken'
  <2> SUFFICES ASSUME NEW l \in Logins, item'[l] # "absent"
               PROVE  IF l \in closed THEN Good(ChainOf(l))' = {}
                      ELSE \E u \in ChainOf(l)' : Good(ChainOf(l))' = {u}
    BY <1>3 DEF ChainHasOneToken
  <2>1. item[l] # "absent"
    BY <1>2, <1>6
  <2>2. CASE l = chain[t]
    <3>1. t \in Good(ChainOf(l))
      BY <1>2, <2>2 DEF Good, ChainOf
    <3>2. l \notin closed /\ Good(ChainOf(l)) = {t}
      BY <1>1, <2>1, <3>1 DEF ChainHasOneToken
    <3>3. r \in ChainOf(l)' /\ Good(ChainOf(l))' = {r}
      BY <1>2, <1>6, <1>7, <2>2, <3>2 DEF Good, ChainOf
    <3> QED
      BY <3>2, <3>3
  <2>3. CASE l # chain[t]
    <3>1. ChainOf(l)' = ChainOf(l) /\ t \notin ChainOf(l) /\ r \notin ChainOf(l)
      BY <1>2, <1>7, <2>3 DEF ChainOf
    <3>2. Good(ChainOf(l))' = Good(ChainOf(l))
      BY <1>6, <3>1 DEF Good, ChainOf
    <3> QED
      BY <1>1, <2>1, <3>1, <3>2 DEF ChainHasOneToken
  <2> QED
    BY <2>2, <2>3
<1> QED
  BY <1>8, <1>9, <1>10, <1>11, <1>12, <1>13, <1>14 DEF AccountInv

(* A login's first token starts a chain of its own.                        *)
LEMMA SaveTokenInv ==
  ASSUME AccountInv, NEW l \in Logins, SaveToken(l)
  PROVE  AccountInv'
<1> USE AccountAssumption DEF Requests, Items, Issuers
<1>1. /\ AccountTypeOK /\ LockIsClaim /\ OwnKind /\ StoredByCommit
      /\ RedeemedIsSpent /\ RedeemedOnce /\ ChainHasOneToken
      /\ request[l] \in RequestState
  BY DEF AccountInv, AccountTypeOK
<1>2. /\ request[l].pc = "stamped" /\ item[l] = "absent" /\ chain[l] = NoOne
      /\ l \notin redeemed /\ l \notin closed /\ lock[l] = NoOne
      /\ \A j \in Issuers : chain[j] # l
  BY <1>1 DEF SaveToken, Goes, LockIsClaim, RedeemedIsSpent, StoredByCommit
<1>3. /\ request' = [request EXCEPT ![l].pc = "issued"]
      /\ item' = [item EXCEPT ![l] = "good"]
      /\ chain' = [chain EXCEPT ![l] = l]
      /\ UNCHANGED <<lock, password, closed, redeemed>>
  BY DEF SaveToken, Goes
<1>4. /\ request' \in [Requests -> RequestState]
      /\ request'[l].pc = "issued"
      /\ \A p \in Requests : p # l => request'[p] = request[p]
      /\ \A p \in Requests : request'[p].of = request[p].of
  BY <1>1, <1>3 DEF AccountTypeOK, RequestState
<1>5. /\ item' \in [Items -> {"absent", "good", "spent"}]
      /\ item'[l] = "good"
      /\ \A j \in Items : j # l => item'[j] = item[j]
  BY <1>1, <1>3 DEF AccountTypeOK
<1>6. /\ chain' \in [Issuers -> Logins \cup {NoOne}]
      /\ chain'[l] = l
      /\ \A j \in Issuers : j # l => chain'[j] = chain[j]
  BY <1>1, <1>3 DEF AccountTypeOK
<1>7. AccountTypeOK'
  BY <1>1, <1>3, <1>4, <1>5, <1>6 DEF AccountTypeOK
<1>8. LockIsClaim'
  BY <1>1, <1>2, <1>3, <1>4, <1>5 DEF AccountTypeOK, LockIsClaim
<1>9. OwnKind'
  BY <1>1, <1>4, <1>5 DEF OwnKind
<1>10. StoredByCommit'
  <2>1. \A j \in Items : item'[j] # "absent" <=> item[j] # "absent" \/ j = l
    BY <1>5
  <2>2. /\ \A p \in Refreshes : item'[p] # "absent" <=> p \in redeemed'
        /\ \A j \in Logins \cup Forgots : item'[j] # "absent" =>
             request'[j].pc \in {"issued", "answered", "failed"}
    BY <1>1, <1>3, <1>4, <2>1 DEF StoredByCommit
  <2>3. \A j \in Issuers : item'[j] # "absent" <=> chain'[j] # NoOne
    BY <1>1, <1>6, <2>1 DEF StoredByCommit
  <2>4. \A j \in Issuers : chain'[j] # NoOne => item'[chain'[j]] # "absent"
    BY <1>1, <1>6, <2>1 DEF AccountTypeOK, StoredByCommit
  <2>5. /\ \A j \in Items : request'[j].pc \in {"issued", "redeemed", "answered"} =>
            item'[j] # "absent"
        /\ \A k \in closed' : item'[k] # "absent"
    BY <1>1, <1>3, <1>4, <2>1 DEF AccountTypeOK, StoredByCommit
  <2> QED
    BY <2>2, <2>3, <2>4, <2>5 DEF StoredByCommit
<1>11. RedeemedIsSpent'
  BY <1>1, <1>2, <1>3, <1>4, <1>5 DEF AccountTypeOK, RedeemedIsSpent
<1>12. RedeemedOnce'
  BY <1>1, <1>3, <1>4 DEF RedeemedOnce, AccountTypeOK
<1>13. ChainHasOneToken'
  <2> SUFFICES ASSUME NEW k \in Logins, item'[k] # "absent"
               PROVE  IF k \in closed THEN Good(ChainOf(k))' = {}
                      ELSE \E u \in ChainOf(k)' : Good(ChainOf(k))' = {u}
    BY <1>3 DEF ChainHasOneToken
  <2>1. CASE k = l
    <3>1. l \in ChainOf(l)' /\ Good(ChainOf(l))' = {l}
      BY <1>2, <1>5, <1>6 DEF Good, ChainOf
    <3> QED
      BY <1>2, <2>1, <3>1
  <2>2. CASE k # l
    <3>1. ChainOf(k)' = ChainOf(k) /\ l \notin ChainOf(k) /\ item[k] # "absent"
      BY <1>2, <1>5, <1>6, <2>2 DEF ChainOf
    <3>2. Good(ChainOf(k))' = Good(ChainOf(k))
      BY <1>5, <3>1 DEF Good, ChainOf
    <3> QED
      BY <1>1, <3>1, <3>2 DEF ChainHasOneToken
  <2> QED
    BY <2>1, <2>2
<1> QED
  BY <1>7, <1>8, <1>9, <1>10, <1>11, <1>12, <1>13 DEF AccountInv

(* Good tokens nobody has locked are spent, and their chains closed: what  *)
(* a logout does to one token and the end of a reset to those it has found. *)
LEMMA CloseChains ==
  ASSUME AccountInv, NEW q \in Logouts \cup Resets,
         request[q].pc \in {"found", "updating"},
         NEW gone \in SUBSET Issuers,
         \A i \in gone : item[i] = "good" /\ lock[i] = NoOne,
         item' = [i \in Items |-> IF i \in gone THEN "spent" ELSE item[i]],
         closed' = closed \cup {chain[i] : i \in gone},
         request' = [request EXCEPT ![q].pc = "answered"],
         UNCHANGED <<lock, password, chain, redeemed>>
  PROVE  AccountInv'
<1> USE AccountAssumption DEF Requests, Items, Issuers
<1>1. /\ AccountTypeOK /\ LockIsClaim /\ OwnKind /\ StoredByCommit
      /\ RedeemedIsSpent /\ RedeemedOnce /\ ChainHasOneToken
      /\ request[q] \in RequestState
  BY DEF AccountInv, AccountTypeOK
<1>2. /\ request' \in [Requests -> RequestState]
      /\ request'[q].pc = "answered"
      /\ \A p \in Requests : p # q => request'[p] = request[p]
      /\ \A p \in Requests : request'[p].of = request[p].of
  BY <1>1 DEF AccountTypeOK, RequestState, Ends
<1>3. /\ item' \in [Items -> {"absent", "good", "spent"}]
      /\ \A j \in Items : item'[j] # "absent" <=> item[j] # "absent"
      /\ \A j \in gone : item'[j] = "spent"
      /\ \A j \in Items \ gone : item'[j] = item[j]
      /\ \A j \in Items : item[j] = "spent" => item'[j] = "spent"
  BY <1>1 DEF AccountTypeOK
<1>4. /\ \A i \in gone : chain[i] \in Logins /\ item[chain[i]] # "absent"
      /\ closed' \subseteq Logins
  BY <1>1 DEF AccountTypeOK, StoredByCommit
<1>5. AccountTypeOK'
  BY <1>1, <1>2, <1>3, <1>4 DEF AccountTypeOK
<1>6. LockIsClaim'
  BY <1>1, <1>2, <1>3 DEF AccountTypeOK, LockIsClaim, OwnKind
<1>7. OwnKind'
  BY <1>1, <1>2, <1>3 DEF OwnKind
<1>8. StoredByCommit'
  <2>1. /\ \A p \in Refreshes : item'[p] # "absent" <=> p \in redeemed'
        /\ \A j \in Logins \cup Forgots : item'[j] # "absent" =>
             request'[j].pc \in {"issued", "answered", "failed"}
    BY <1>1, <1>2, <1>3 DEF StoredByCommit
  <2>2. \A j \in Issuers : item'[j] # "absent" <=> chain'[j] # NoOne
    BY <1>1, <1>3 DEF StoredByCommit
  <2>3. \A j \in Issuers : chain'[j] # NoOne => item'[chain'[j]] # "absent"
    BY <1>1, <1>3 DEF AccountTypeOK, StoredByCommit
  <2>4. \A j \in Items : request'[j].pc \in {"issued", "redeemed", "answered"} =>
          item'[j] # "absent"
    BY <1>1, <1>2, <1>3 DEF StoredByCommit
  <2>5. \A l \in closed' : item'[l] # "absent"
    BY <1>1, <1>3, <1>4 DEF AccountTypeOK, StoredByCommit
  <2> QED
    BY <2>1, <2>2, <2>3, <2>4, <2>5 DEF StoredByCommit
<1>9. RedeemedIsSpent'
  BY <1>1, <1>2, <1>3 DEF AccountTypeOK, RedeemedIsSpent
<1>10. RedeemedOnce'
  BY <1>1, <1>2 DEF AccountTypeOK, RedeemedOnce
<1>11. ChainHasOneToken'
  <2> SUFFICES ASSUME NEW l \in Logins, item'[l] # "absent"
               PROVE  IF l \in closed' THEN Good(ChainOf(l))' = {}
                      ELSE \E u \in ChainOf(l)' : Good(ChainOf(l))' = {u}
    BY DEF ChainHasOneToken
  <2>1. /\ item[l] # "absent"
        /\ ChainOf(l)' = ChainOf(l)
        /\ Good(ChainOf(l))' = Good(ChainOf(l)) \ gone
    BY <1>3 DEF Good, ChainOf
  <2>2. CASE l \in closed
    BY <1>1, <2>1, <2>2 DEF ChainHasOneToken
  <2>3. CASE l \notin closed
    <3>1. PICK u \in ChainOf(l) : Good(ChainOf(l)) = {u}
      BY <1>1, <2>1, <2>3 DEF ChainHasOneToken
    <3>2. l \in closed' <=> u \in gone
      <4>1. \A i \in gone : chain[i] = l => i = u
        BY <3>1 DEF Good, ChainOf
      <4>2. chain[u] = l
        BY DEF ChainOf
      <4> QED
        BY <2>3, <4>1, <4>2
    <3> QED
      BY <2>1, <3>1, <3>2
  <2> QED
    BY <2>2, <2>3
<1> QED
  BY <1>5, <1>6, <1>7, <1>8, <1>9, <1>10, <1>11 DEF AccountInv

LEMMA RevokeTokenInv ==
  ASSUME AccountInv, NEW o \in Logouts, RevokeToken(o)
  PROVE  AccountInv'
<1> USE AccountAssumption DEF Requests, Items, Issuers
<1> DEFINE t == request[o].of
           gone == IF item[t] = "good" THEN {t} ELSE {}
<1>1. /\ AccountTypeOK /\ request[o].pc = "found" /\ t \in Issuers
      /\ item[t] \in {"good", "spent"} /\ lock[t] = NoOne
  BY DEF AccountInv, AccountTypeOK, OwnKind, RevokeToken, Goes
<1>2. item' = [i \in Items |-> IF i \in gone THEN "spent" ELSE item[i]]
  BY <1>1 DEF AccountTypeOK, RevokeToken
<1>3. closed' = closed \cup {chain[i] : i \in gone}
  BY DEF RevokeToken
<1>4. /\ request' = [request EXCEPT ![o].pc = "answered"]
      /\ UNCHANGED <<lock, password, chain, redeemed>>
  BY DEF RevokeToken, Goes
<1>5. gone \in SUBSET Issuers /\ \A i \in gone : item[i] = "good" /\ lock[i] = NoOne
  BY <1>1
<1> HIDE DEF gone
<1> QED
  BY <1>1, <1>2, <1>3, <1>4, <1>5, CloseChains

LEMMA RevokeAllInv ==
  ASSUME AccountInv, NEW x \in Resets, RevokeAll(x)
  PROVE  AccountInv'
<1> USE AccountAssumption DEF Requests, Items, Issuers
<1> DEFINE gone == Good(request[x].seen)
<1>1. /\ request[x].pc = "updating" /\ request[x].seen \subseteq Issuers
      /\ \A i \in request[x].seen : lock[i] = NoOne
  BY DEF AccountInv, OwnKind, RevokeAll, Goes
<1>2. item' = [i \in Items |-> IF i \in gone THEN "spent" ELSE item[i]]
  BY DEF RevokeAll, Spend, Good
<1>3. closed' = closed \cup {chain[i] : i \in gone}
  BY DEF RevokeAll
<1>4. /\ request' = [request EXCEPT ![x].pc = "answered"]
      /\ UNCHANGED <<lock, password, chain, redeemed>>
  BY DEF RevokeAll, Goes
<1>5. gone \in SUBSET Issuers /\ \A i \in gone : item[i] = "good" /\ lock[i] = NoOne
  BY <1>1 DEF Good
<1> HIDE DEF gone
<1> QED
  BY <1>1, <1>2, <1>3, <1>4, <1>5, CloseChains

(* What a step that is about links leaves as it was.                       *)
LEMMA ChainsUntouched ==
  ASSUME AccountInv, item' \in [Items -> {"absent", "good", "spent"}],
         \A i \in Issuers : item'[i] = item[i],
         UNCHANGED <<chain, closed>>
  PROVE  ChainHasOneToken'
<1> USE AccountAssumption DEF Requests, Items, Issuers
<1> SUFFICES ASSUME NEW l \in Logins, item'[l] # "absent"
             PROVE  IF l \in closed THEN Good(ChainOf(l))' = {}
                    ELSE \E u \in ChainOf(l)' : Good(ChainOf(l))' = {u}
  BY DEF ChainHasOneToken
<1>1. ChainOf(l)' = ChainOf(l) /\ Good(ChainOf(l))' = Good(ChainOf(l))
  BY DEF ChainOf, Good
<1> QED
  BY <1>1 DEF AccountInv, ChainHasOneToken

(* Older links are spent, but for those made since, and a new one is there. *)
LEMMA SaveLinkInv ==
  ASSUME AccountInv, NEW f \in Forgots, SaveLink(f)
  PROVE  AccountInv'
<1> USE AccountAssumption DEF Requests, Items, Issuers
<1> DEFINE seen == request[f].seen
<1>1. /\ AccountTypeOK /\ LockIsClaim /\ OwnKind /\ StoredByCommit
      /\ RedeemedIsSpent /\ RedeemedOnce /\ ChainHasOneToken
      /\ request[f] \in RequestState
  BY DEF AccountInv, AccountTypeOK
<1>2. /\ request[f].pc = "updating" /\ item[f] = "absent" /\ f \notin redeemed
      /\ seen \subseteq Forgots /\ \A i \in seen : lock[i] = NoOne
  BY <1>1 DEF SaveLink, Goes, OwnKind, RedeemedIsSpent, StoredByCommit
<1>3. /\ request' = [request EXCEPT ![f].pc = "issued"]
      /\ item' = [Spend(seen) EXCEPT ![f] = "good"]
      /\ UNCHANGED <<lock, password, chain, closed, redeemed>>
  BY DEF SaveLink, Goes
<1>4. /\ request' \in [Requests -> RequestState]
      /\ request'[f].pc = "issued"
      /\ \A p \in Requests : p # f => request'[p] = request[p]
      /\ \A p \in Requests : request'[p].of = request[p].of
  BY <1>1, <1>3 DEF AccountTypeOK, RequestState
<1>5. /\ item' \in [Items -> {"absent", "good", "spent"}]
      /\ \A j \in Items : item'[j] # "absent" <=> item[j] # "absent" \/ j = f
      /\ \A j \in Items : item[j] = "spent" => item'[j] = "spent"
      /\ \A j \in Items : lock[j] # NoOne => item'[j] = item[j] \/ j = f
      /\ \A j \in Issuers : item'[j] = item[j]
  BY <1>1, <1>2, <1>3 DEF AccountTypeOK, Spend
<1>6. lock[f] = NoOne
  BY <1>1, <1>2 DEF LockIsClaim
<1>7. AccountTypeOK'
  BY <1>1, <1>3, <1>4, <1>5 DEF AccountTypeOK
<1>8. LockIsClaim'
  BY <1>1, <1>2, <1>3, <1>4, <1>5, <1>6 DEF AccountTypeOK, LockIsClaim
<1>9. OwnKind'
  BY <1>1, <1>4, <1>5 DEF OwnKind
<1>10. StoredByCommit'
  <2>1. /\ \A p \in Refreshes : item'[p] # "absent" <=> p \in redeemed'
        /\ \A j \in Logins \cup Forgots : item'[j] # "absent" =>
             request'[j].pc \in {"issued", "answered", "failed"}
    BY <1>1, <1>3, <1>4, <1>5 DEF StoredByCommit
  <2>2. /\ \A j \in Issuers : item'[j] # "absent" <=> chain'[j] # NoOne
        /\ \A j \in Issuers : chain'[j] # NoOne => item'[chain'[j]] # "absent"
    BY <1>1, <1>3, <1>5 DEF AccountTypeOK, StoredByCommit
  <2>3. /\ \A j \in Items : request'[j].pc \in {"issued", "redeemed", "answered"} =>
            item'[j] # "absent"
        /\ \A l \in closed' : item'[l] # "absent"
    BY <1>1, <1>3, <1>4, <1>5 DEF AccountTypeOK, StoredByCommit
  <2> QED
    BY <2>1, <2>2, <2>3 DEF StoredByCommit
<1>11. RedeemedIsSpent'
  BY <1>1, <1>2, <1>3, <1>4, <1>5 DEF AccountTypeOK, RedeemedIsSpent
<1>12. RedeemedOnce'
  BY <1>1, <1>3, <1>4 DEF AccountTypeOK, RedeemedOnce
<1>13. ChainHasOneToken'
  BY <1>3, <1>5, ChainsUntouched
<1> QED
  BY <1>7, <1>8, <1>9, <1>10, <1>11, <1>12, <1>13 DEF AccountInv

LEMMA ConsumeLinkInv ==
  ASSUME AccountInv, NEW x \in Resets, ConsumeLink(x)
  PROVE  AccountInv'
<1> USE AccountAssumption DEF Requests, Items, Issuers
<1> DEFINE i == request[x].of
<1>1. /\ AccountTypeOK /\ LockIsClaim /\ OwnKind /\ StoredByCommit
      /\ RedeemedIsSpent /\ RedeemedOnce /\ ChainHasOneToken
      /\ request[x] \in RequestState
  BY DEF AccountInv, AccountTypeOK
<1>2. /\ request[x].pc = "claimed" /\ i \in Forgots /\ lock[i] = x
      /\ item[i] = "good" /\ x \notin redeemed
  BY <1>1 DEF ConsumeLink, Goes, LockIsClaim, OwnKind, RedeemedIsSpent
<1>3. /\ request' = [request EXCEPT ![x].pc = "redeemed"]
      /\ item' = [item EXCEPT ![i] = "spent"]
      /\ redeemed' = redeemed \cup {x}
      /\ lock' = Unlocked(x)
      /\ UNCHANGED <<password, chain, closed>>
  BY DEF ConsumeLink, Goes
<1>4. /\ request' \in [Requests -> RequestState]
      /\ request'[x].pc = "redeemed"
      /\ \A p \in Requests : p # x => request'[p] = request[p]
      /\ \A p \in Requests : request'[p].of = request[p].of
  BY <1>1, <1>3 DEF AccountTypeOK, RequestState
<1>5. /\ lock' \in [Items -> Requests \cup {NoOne}]
      /\ \A j \in Items : lock'[j] # NoOne => lock'[j] = lock[j] /\ lock[j] # x
      /\ \A j \in Items : lock[j] # x => lock'[j] = lock[j]
  BY <1>1, <1>3 DEF AccountTypeOK, Unlocked
<1>6. /\ item' \in [Items -> {"absent", "good", "spent"}]
      /\ item'[i] = "spent"
      /\ \A j \in Items : j # i => item'[j] = item[j]
      /\ \A j \in Items : item'[j] # "absent" <=> item[j] # "absent"
      /\ \A j \in Issuers : item'[j] = item[j]
  BY <1>1, <1>2, <1>3 DEF AccountTypeOK
<1>7. AccountTypeOK'
  BY <1>1, <1>3, <1>4, <1>5, <1>6 DEF AccountTypeOK
<1>8. LockIsClaim'
  <2>1. ASSUME NEW j \in Items, lock'[j] # NoOne
        PROVE  /\ item'[j] = "good"
               /\ request'[lock'[j]].pc = "claimed" /\ request'[lock'[j]].of = j
    <3>1. lock'[j] = lock[j] /\ lock[j] # x /\ lock[j] \in Requests
      BY <1>1, <1>5, <2>1 DEF AccountTypeOK
    <3>2. /\ item[j] = "good"
          /\ request[lock[j]].pc = "claimed" /\ request[lock[j]].of = j
      BY <1>1, <2>1, <3>1 DEF LockIsClaim
    <3> QED
      BY <1>2, <1>4, <1>6, <3>1, <3>2
  <2>2. ASSUME NEW q \in Requests, request'[q].pc = "claimed"
        PROVE  lock'[request'[q].of] = q
    BY <1>1, <1>4, <1>5, <2>2 DEF LockIsClaim, OwnKind
  <2> QED
    BY <2>1, <2>2 DEF LockIsClaim
<1>9. OwnKind'
  BY <1>1, <1>2, <1>4, <1>6 DEF OwnKind
<1>10. StoredByCommit'
  <2>1. /\ \A p \in Refreshes : item'[p] # "absent" <=> p \in redeemed'
        /\ \A j \in Logins \cup Forgots : item'[j] # "absent" =>
             request'[j].pc \in {"issued", "answered", "failed"}
    BY <1>1, <1>3, <1>4, <1>6 DEF StoredByCommit
  <2>2. /\ \A j \in Issuers : item'[j] # "absent" <=> chain'[j] # NoOne
        /\ \A j \in Issuers : chain'[j] # NoOne => item'[chain'[j]] # "absent"
    BY <1>1, <1>3, <1>6 DEF AccountTypeOK, StoredByCommit
  <2>3. /\ \A j \in Items : request'[j].pc \in {"issued", "redeemed", "answered"} =>
            item'[j] # "absent"
        /\ \A l \in closed' : item'[l] # "absent"
    BY <1>1, <1>3, <1>4, <1>6 DEF AccountTypeOK, StoredByCommit
  <2> QED
    BY <2>1, <2>2, <2>3 DEF StoredByCommit
<1>11. RedeemedIsSpent'
  BY <1>1, <1>2, <1>3, <1>4, <1>6 DEF AccountTypeOK, RedeemedIsSpent
<1>12. RedeemedOnce'
  BY <1>1, <1>2, <1>3, <1>4 DEF RedeemedIsSpent, RedeemedOnce, AccountTypeOK
<1>13. ChainHasOneToken'
  BY <1>3, <1>6, ChainsUntouched
<1> QED
  BY <1>7, <1>8, <1>9, <1>10, <1>11, <1>12, <1>13 DEF AccountInv

LEMMA StutterInv == AccountInv /\ UNCHANGED vars => AccountInv'
<1> SUFFICES ASSUME AccountInv, UNCHANGED vars PROVE AccountInv'
  OBVIOUS
<1>1. /\ item' = item /\ lock' = lock /\ password' = password /\ request' = request
      /\ chain' = chain /\ closed' = closed /\ redeemed' = redeemed
  BY DEF vars
<1> QED
  BY <1>1 DEF AccountInv, AccountTypeOK, LockIsClaim, OwnKind, StoredByCommit,
              RedeemedIsSpent, RedeemedOnce, ChainHasOneToken, ChainOf, Good

LEMMA NextInv == AccountInv /\ [Next]_vars => AccountInv'
<1> SUFFICES ASSUME AccountInv, [Next]_vars PROVE AccountInv'
  OBVIOUS
<1> USE DEF Requests, Items, Issuers
<1>1. ASSUME NEW l \in Logins, LoginStep(l) PROVE AccountInv'
  BY <1>1, LoginQuiet, SaveTokenInv DEF LoginStep
<1>2. ASSUME NEW r \in Refreshes, RefreshStep(r) PROVE AccountInv'
  BY <1>2, PresentInv, ClaimInv, RotateInv, OtherQuiet DEF RefreshStep, PresentToken
<1>3. ASSUME NEW o \in Logouts, LogoutStep(o) PROVE AccountInv'
  BY <1>3, OtherQuiet, RevokeTokenInv DEF LogoutStep
<1>4. ASSUME NEW f \in Forgots, ForgotStep(f) PROVE AccountInv'
  BY <1>4, OtherQuiet, SaveLinkInv DEF ForgotStep
<1>5. ASSUME NEW x \in Resets, ResetStep(x) PROVE AccountInv'
  BY <1>5, PresentInv, ClaimInv, ConsumeLinkInv, OtherQuiet, RevokeAllInv
     DEF ResetStep, PresentLink
<1>6. CASE UNCHANGED vars
  BY <1>6, StutterInv
<1> QED
  BY <1>1, <1>2, <1>3, <1>4, <1>5, <1>6, FailInv DEF Next, Progress

-----------------------------------------------------------------------------
(* Of any number of logins, refreshes, logouts and resets at once, in any  *)
(* order of their statements and commits, failing anywhere.                *)
THEOREM AccountInvariant == Spec => []AccountInv
<1> QED
  BY InitInv, NextInv, PTL DEF Spec

(* A refresh token or a reset link is redeemed once (the UPDATE that names *)
(* the state it expects, rotate_refresh_token and consume_auth_action_token). *)
THEOREM RedeemedAtMostOnce == Spec => []RedeemedOnce
<1>1. AccountInv => RedeemedOnce
  BY DEF AccountInv
<1> QED
  BY <1>1, AccountInvariant, PTL

(* A login keeps one good refresh token until a logout or a reset revokes  *)
(* it: no refresh forks a session and none that fails loses it.            *)
THEOREM OneTokenPerLogin == Spec => []ChainHasOneToken
<1>1. AccountInv => ChainHasOneToken
  BY DEF AccountInv
<1> QED
  BY <1>1, AccountInvariant, PTL

(* What is redeemed is good at that moment: the claim's lock keeps others  *)
(* from spending it before the commit.                                     *)
THEOREM RedeemedWhileGood == Spec => OnlyGoodRedeemed
<1> USE AccountAssumption DEF Requests, Items, Issuers
<1>1. ASSUME AccountInv, NEW r \in Requests, Rotate(r) \/ ConsumeLink(r)
      PROVE  item[request[r].of] = "good"
  BY <1>1 DEF AccountInv, AccountTypeOK, OwnKind, LockIsClaim, Rotate, ConsumeLink, Goes
<1>2. AccountInv /\ [Next]_vars =>
        [\A q \in redeemed' \ redeemed : item[request[q].of] = "good"]_vars
  <2> SUFFICES ASSUME AccountInv, [Next]_vars
               PROVE  \A q \in redeemed' \ redeemed : item[request[q].of] = "good"
    OBVIOUS
  <2>1. \/ redeemed' = redeemed
        \/ \E r \in Requests : /\ Rotate(r) \/ ConsumeLink(r)
                               /\ redeemed' = redeemed \cup {r}
    <3>1. ASSUME NEW l \in Logins, LoginStep(l) PROVE redeemed' = redeemed
      BY <3>1 DEF LoginStep, CheckPassword, LoadCredential, StampLogin, SaveToken,
         AnswerLogin, rows
    <3>2. ASSUME NEW r \in Refreshes, RefreshStep(r)
          PROVE  \/ redeemed' = redeemed
                 \/ Rotate(r) /\ redeemed' = redeemed \cup {r}
      BY <3>2 DEF RefreshStep, PresentToken, Present, Claim, Rotate, AnswerRefresh, rows
    <3>3. ASSUME NEW o \in Logouts, LogoutStep(o) PROVE redeemed' = redeemed
      BY <3>3 DEF LogoutStep, FindToken, RevokeToken, rows
    <3>4. ASSUME NEW f \in Forgots, ForgotStep(f) PROVE redeemed' = redeemed
      BY <3>4 DEF ForgotStep, OpenSupersede, OpenBulk, SaveLink, MailLink, rows
    <3>5. ASSUME NEW x \in Resets, ResetStep(x)
          PROVE  \/ redeemed' = redeemed
                 \/ ConsumeLink(x) /\ redeemed' = redeemed \cup {x}
      BY <3>5 DEF ResetStep, PresentLink, Present, Claim, ConsumeLink, ChangePassword,
         OpenRevokeAll, OpenBulk, RevokeAll, rows
    <3>6. ASSUME NEW q \in Requests, Fail(q) PROVE redeemed' = redeemed
      BY <3>6 DEF Fail
    <3>7. CASE UNCHANGED vars
      BY <3>7 DEF vars
    <3> QED
      BY <3>1, <3>2, <3>3, <3>4, <3>5, <3>6, <3>7 DEF Next, Progress
  <2> QED
    BY <1>1, <2>1
<1> QED
  BY <1>2, AccountInvariant, PTL DEF Spec, OnlyGoodRedeemed

-----------------------------------------------------------------------------
(* A reset that goes on to the password has consumed its link.             *)
LinkConsumed == \A x \in Resets : request[x].pc = "redeemed" => x \in redeemed

(* Looking a row up and claiming it moves the request and nothing else.    *)
LEMMA PresentMoves ==
  ASSUME AccountTypeOK, NEW q \in Requests, NEW items, Present(q, items) \/ Claim(q)
  PROVE  /\ UNCHANGED <<password, redeemed>>
         /\ \A p \in Requests \ {q} : request'[p] = request[p]
         /\ request'[q].pc \in {"found", "claimed", "refused"}
<1>0. \A p \in Requests : request[p] \in RequestState /\ request \in [Requests -> RequestState]
  BY DEF AccountTypeOK
<1>1. CASE Present(q, items)
  <2>1. PICK i \in Known(items), expired \in BOOLEAN :
          request' = [request EXCEPT
            ![q].pc = IF item[i] = "good" /\ ~expired THEN "found" ELSE "refused",
            ![q].of = i]
    BY <1>1 DEF Present
  <2>2. PICK pc \in {"found", "refused"} :
          request' = [request EXCEPT ![q] = [@ EXCEPT !.pc = pc, !.of = i]]
    BY <2>1, Zenon
  <2>3. QED
    BY <1>0, <1>1, <2>2 DEF Present, RequestState, rows
<1>2. CASE Claim(q)
  BY <1>0, <1>2 DEF Claim, RequestState
<1>3. QED
  BY <1>1, <1>2

(* A step either is the one that changes the password, or moves no reset   *)
(* to where the password is changed but the one that consumes its link.    *)
LEMMA PasswordSteps ==
  ASSUME AccountTypeOK, LinkConsumed, [Next]_vars
  PROVE  /\ LinkConsumed'
         /\ password' = password \/ \E x \in Resets : ChangePassword(x)
<1> USE AccountAssumption DEF Requests, Items, Issuers, LinkConsumed, AccountTypeOK, Goes, rows
<1>1. ASSUME NEW l \in Logins, LoginStep(l) PROVE LinkConsumed' /\ password' = password
  BY <1>1 DEF LoginStep, CheckPassword, LoadCredential, StampLogin, SaveToken, AnswerLogin
<1>2. ASSUME NEW r \in Refreshes, RefreshStep(r) PROVE LinkConsumed' /\ password' = password
  <2>1. CASE PresentToken(r) \/ Claim(r)
    BY <2>1, PresentMoves DEF PresentToken
  <2>2. CASE Rotate(r) \/ AnswerRefresh(r)
    BY <2>2 DEF Rotate, AnswerRefresh
  <2>3. QED
    BY ONLY <1>2, <2>1, <2>2 DEF RefreshStep
<1>3. ASSUME NEW o \in Logouts, LogoutStep(o) PROVE LinkConsumed' /\ password' = password
  BY <1>3 DEF LogoutStep, FindToken, RevokeToken
<1>4. ASSUME NEW f \in Forgots, ForgotStep(f) PROVE LinkConsumed' /\ password' = password
  BY <1>4 DEF ForgotStep, OpenSupersede, OpenBulk, SaveLink, MailLink
<1>5. ASSUME NEW x \in Resets, ResetStep(x)
      PROVE  LinkConsumed' /\ (password' = password \/ ChangePassword(x))
  <2>1. CASE ConsumeLink(x)
    BY <2>1 DEF ConsumeLink
  <2>2. CASE ChangePassword(x)
    BY <2>2 DEF ChangePassword
  <2>3. CASE PresentLink(x) \/ Claim(x)
    BY <2>3, PresentMoves DEF PresentLink
  <2>4. CASE OpenRevokeAll(x)
    <3>1. request[x] \in RequestState
      OBVIOUS
    <3>2. request'[x].pc = "updating" /\ \A y \in Resets \ {x} : request'[y] = request[y]
      BY <2>4, <3>1 DEF OpenRevokeAll, OpenBulk, RequestState
    <3>3. QED
      BY <2>4, <3>2 DEF OpenRevokeAll, OpenBulk
  <2>5. CASE RevokeAll(x)
    BY <2>5 DEF RevokeAll
  <2>6. QED
    BY ONLY <1>5, <2>1, <2>2, <2>3, <2>4, <2>5 DEF ResetStep
<1>6. ASSUME NEW q \in Requests, Fail(q) PROVE LinkConsumed' /\ password' = password
  BY <1>6 DEF Fail
<1>7. CASE UNCHANGED vars
  BY <1>7 DEF vars
<1> QED
  BY <1>1, <1>2, <1>3, <1>4, <1>5, <1>6, <1>7 DEF Next, Progress

(* Only a reset that has consumed its link changes the password, however   *)
(* many logins have loaded the old one and stamp their rows meanwhile      *)
(* (update_last_login, reset_password).                                    *)
THEOREM PasswordsAreResets == Spec => PasswordFromReset
<1>1. Init => LinkConsumed
  BY AccountAssumption DEF Init, LinkConsumed, Requests
<1>2. AccountInv /\ LinkConsumed /\ [Next]_vars => LinkConsumed'
  BY PasswordSteps DEF AccountInv
<1>3. ASSUME AccountInv, LinkConsumed, [Next]_vars
      PROVE  [password' # password =>
                \E x \in redeemed \cap Resets : password' = x /\ request[x].pc = "redeemed"]_vars
  BY <1>3, PasswordSteps DEF AccountInv, LinkConsumed, ChangePassword, Goes
<1>4. QED
  BY <1>1, <1>2, <1>3, AccountInvariant, PTL DEF Spec, PasswordFromReset

-----------------------------------------------------------------------------
(***************************************************************************)
(* The browser.                                                            *)
(***************************************************************************)
LEMMA RequestsKnown ==
  ASSUME ClientTypeOK
  PROVE  /\ NoRequest \in Request /\ NoRequest.at = "no" /\ NoRequest.token = 0
         /\ Sent \in Request /\ Sent.at = "sent" /\ Sent.token = cookie
         /\ \A n \in Nat : Answer(n) \in Request /\ Answer(n).at = "answered" /\ Answer(n).token = n
         /\ MaxTokens \in Nat /\ MaxLosses \in Nat
         /\ issued \in Nat /\ issued + 1 \in Nat /\ cookie \in Nat /\ cookie <= issued
         /\ \A k \in Kinds : k \in {"mount", "shared", "login", "logout"}
         /\ "mount" \in Kinds /\ "shared" \in Kinds /\ "login" \in Kinds /\ "logout" \in Kinds
BY AuthClientAssumption DEF ClientTypeOK, NoRequest, Sent, Answer, Request, Kinds

(* One request changes, the others stay as they are.                       *)
Becomes(t, k, sending) ==
  /\ inFlight' \in [Tabs -> [Kinds -> Request]]
  /\ inFlight'[t][k] = sending
  /\ \A u \in Tabs, l \in Kinds : (u = t /\ l = k) \/ inFlight'[u][l] = inFlight[u][l]

LEMMA RequestBecomes ==
  ASSUME ClientTypeOK, NEW t \in Tabs, NEW k \in Kinds, NEW sending \in Request,
         inFlight' = [inFlight EXCEPT ![t][k] = sending]
  PROVE  Becomes(t, k, sending)
BY DEF ClientTypeOK, Becomes

(***************************************************************************)
(* The steps, by what they do to the requests and the tokens: send a       *)
(* request, issue a token, answer without one, deliver, or none of these.  *)
(***************************************************************************)
Sends(t, k) ==
  /\ Becomes(t, k, Sent) /\ inFlight[t][k].at = "no"
  /\ UNCHANGED << accountVars, losses >>
  /\ loggedOut' = (loggedOut \/ k = "logout")

Issues(t, k) ==
  /\ inFlight[t][k].at = "sent" /\ k # "logout" /\ Becomes(t, k, Answer(issued + 1))
  /\ issued < MaxTokens /\ issued' = issued + 1 /\ cookie' = cookie
  /\ good' \in {good \cup {issued + 1}, (good \ {inFlight[t][k].token}) \cup {issued + 1}}
  /\ UNCHANGED << losses, loggedOut >>

AnswersOnly(t, k) ==
  /\ inFlight[t][k].at # "no"
  /\ UNCHANGED << cookie, issued, loggedOut >>
  /\ \/ Becomes(t, k, Answer(0)) /\ inFlight[t][k].at = "sent" /\ good' = good /\ losses' = losses
     \/ Becomes(t, k, Answer(0)) /\ good' = good /\ losses' = losses + 1 /\ losses < MaxLosses
     \/ /\ k = "logout" /\ inFlight[t][k].at = "sent" /\ losses' = losses
        /\ Becomes(t, k, Answer(inFlight[t][k].token)) /\ good' = good \ {inFlight[t][k].token}

Delivers(t, k) ==
  LET n == inFlight[t][k].token IN
  /\ inFlight[t][k].at = "answered" /\ Becomes(t, k, NoRequest)
  /\ cookie' = IF n = 0 THEN cookie ELSE IF k = "logout" THEN 0 ELSE n
  /\ UNCHANGED << issued, good, losses, loggedOut >>

Idles == UNCHANGED << accountVars, inFlight, losses, loggedOut >>

(* What becomes of the tabs, the shared refreshes and the calls.           *)
TabGoes(t, status, access) ==
  /\ tab' \in [Tabs -> TabState]
  /\ tab'[t].status = status /\ tab'[t].access = access
  /\ \A u \in Tabs \ {t} : tab'[u] = tab[u]

LEMMA TabApplied ==
  ASSUME ClientTypeOK, NEW t \in Tabs, NEW status \in {"authenticated", "anonymous"},
         NEW access \in Nat, tab' = [tab EXCEPT ![t] = [status |-> status, access |-> access]]
  PROVE  TabGoes(t, status, access)
BY DEF ClientTypeOK, TabGoes, TabState

Tabbed ==
  /\ tab' \in [Tabs -> TabState]
  /\ \A t \in Tabs : (tab'[t].access # 0) = (tab'[t].status = "authenticated")

LEMMA Applied ==
  ASSUME ClientTypeOK, NEW t \in Tabs, NEW n \in Nat,
         \/ n # 0 /\ ApplyAuthenticatedState(t, n)
         \/ ApplyAnonymousState(t)
         \/ UNCHANGED tab
  PROVE  /\ Tabbed
         /\ \A u \in Tabs : tab'[u].status = "closed" => tab[u].status = "closed"
<1>1. CASE n # 0 /\ ApplyAuthenticatedState(t, n)
  BY <1>1, TabApplied DEF ApplyAuthenticatedState, TabGoes, Tabbed, ClientTypeOK
<1>2. CASE ApplyAnonymousState(t)
  BY <1>2, TabApplied DEF ApplyAnonymousState, TabGoes, Tabbed, ClientTypeOK
<1>3. CASE UNCHANGED tab
  BY <1>3 DEF Tabbed, ClientTypeOK
<1>4. QED
  BY <1>1, <1>2, <1>3

Called ==
  /\ call' \in [Calls -> CallState]
  /\ active' \subseteq Tabs
  /\ \A c \in Calls : call'[c].at = "waiting" => TabOf[c] \in active'

LEMMA ClientSteps ==
  ASSUME ClientTypeOK, WaitsForRefresh, RequestsApart, ClientNext
  PROVE  /\ Tabbed /\ Called
         /\ \A t \in Tabs : tab'[t].status = "closed" => tab[t].status = "closed" /\ inFlight'[t]["mount"] = inFlight[t]["mount"]
         /\ \A t \in Tabs : t \in active' <=> inFlight'[t]["shared"].at # "no"
         /\ \/ Idles
            \/ \E t \in Tabs, k \in Kinds : Sends(t, k) \/ Issues(t, k) \/ AnswersOnly(t, k) \/ Delivers(t, k)
<1>0. /\ tab \in [Tabs -> TabState] /\ call \in [Calls -> CallState] /\ active \subseteq Tabs
      /\ inFlight \in [Tabs -> [Kinds -> Request]] /\ TabOf \in [Calls -> Tabs]
      /\ \A t \in Tabs : (tab[t].access # 0) = (tab[t].status = "authenticated")
      /\ \A t \in Tabs : t \in active <=> inFlight[t]["shared"].at # "no"
      /\ \A c \in Calls : call[c].at = "waiting" => TabOf[c] \in active
      /\ NoRequest.at = "no"
  BY AuthClientAssumption, RequestsKnown DEF ClientTypeOK, RequestsApart, WaitsForRefresh, Waiting
<1>1. UNCHANGED tab => Tabbed
  BY <1>0 DEF Tabbed
<1>2. UNCHANGED << call, active >> => Called
  BY <1>0 DEF Called
<1>3. ASSUME NEW t \in Tabs, OpenTab(t)
      PROVE  /\ Tabbed /\ Called /\ Sends(t, "mount")
             /\ \A u \in Tabs : tab'[u].status = "closed" => u # t /\ tab[u].status = "closed"
             /\ active' = active
  <2>1. /\ tab' = [tab EXCEPT ![t].status = "refreshing"] /\ tab[t].status = "closed"
        /\ UNCHANGED << accountVars, active, call, losses, loggedOut >>
        /\ inFlight' = [inFlight EXCEPT ![t]["mount"] = Sent]
    BY <1>3 DEF OpenTab, Send
  <2>2. /\ tab' \in [Tabs -> TabState] /\ tab'[t].status = "refreshing" /\ tab'[t].access = tab[t].access
        /\ \A u \in Tabs \ {t} : tab'[u] = tab[u]
    BY <1>0, <2>1 DEF TabState
  <2>3. Tabbed
    BY <1>0, <2>1, <2>2 DEF Tabbed
  <2>4. Becomes(t, "mount", Sent) /\ inFlight[t]["mount"].at = "no"
    BY <2>1, RequestBecomes, RequestsKnown DEF RequestsApart
  <2>5. QED
    BY <1>2, <2>1, <2>2, <2>3, <2>4 DEF Sends, ClientTypeOK
<1>4. ASSUME NEW t \in Tabs, Login(t) \/ Logout(t)
      PROVE  /\ UNCHANGED << tab, call, active >>
             /\ \E k \in {"login", "logout"} : Sends(t, k)
  <2>1. PICK k \in {"login", "logout"} :
          /\ Send(t, k) /\ inFlight[t][k] = NoRequest
          /\ UNCHANGED << accountVars, tab, active, call, losses >>
          /\ loggedOut' = (loggedOut \/ k = "logout")
    BY <1>4 DEF Login, Logout, ClientTypeOK
  <2>2. QED
    BY <1>0, <2>1, RequestBecomes, RequestsKnown DEF Send, Sends
<1>5. ASSUME NEW t \in Tabs, NEW k \in Kinds, Serve(t, k)
      PROVE  /\ UNCHANGED << tab, call, active >> /\ inFlight[t][k].at # "no"
             /\ Issues(t, k) \/ AnswersOnly(t, k)
  <2>1. inFlight[t][k].token \in Nat
    BY <1>0 DEF Request
  <2>2. ASSUME NEW n \in Nat, Answered(t, k, n)
        PROVE  Becomes(t, k, Answer(n))
    BY <2>2, RequestBecomes, RequestsKnown DEF Answered
  <2>3. issued + 1 \in Nat /\ 0 \in Nat
    BY RequestsKnown
  <2>4. QED
    BY <1>5, <2>1, <2>2, <2>3 DEF Serve, IssueFor, Issues, AnswersOnly
<1>6. ASSUME NEW t \in Tabs, NEW k \in Kinds, Lose(t, k)
      PROVE  UNCHANGED << tab, call, active >> /\ AnswersOnly(t, k)
  BY <1>6, RequestBecomes, RequestsKnown DEF Lose, Answered, AnswersOnly, accountVars
<1>7. ASSUME NEW t \in Tabs, NEW k \in Kinds, Deliver(t, k)
      PROVE  /\ Tabbed /\ Called /\ Delivers(t, k)
             /\ \A u \in Tabs : tab'[u].status = "closed" => tab[u].status = "closed"
             /\ active' = IF k = "shared" THEN active \ {t} ELSE active
  <2> DEFINE n == inFlight[t][k].token
  <2>1. n \in Nat
    BY <1>0 DEF Request
  <2>2. /\ inFlight[t][k].at = "answered" /\ Becomes(t, k, NoRequest)
        /\ UNCHANGED << issued, good, losses, loggedOut >>
    BY <1>7, RequestBecomes, RequestsKnown DEF Deliver
  <2>3. \/ n # 0 /\ ApplyAuthenticatedState(t, n)
        \/ ApplyAnonymousState(t)
        \/ UNCHANGED tab
    BY <1>7 DEF Deliver
  <2>4. /\ Tabbed
        /\ \A u \in Tabs : tab'[u].status = "closed" => tab[u].status = "closed"
    BY <2>1, <2>3, Applied
  <2>5. /\ cookie' = IF n = 0 THEN cookie ELSE IF k = "logout" THEN 0 ELSE n
        /\ IF k = "shared" THEN RefreshSettles(t, n) ELSE UNCHANGED << active, call >>
    BY <1>7 DEF Deliver, SetCookie
  <2> HIDE DEF n
  <2>6. CASE k = "shared"
    <3>1. \A c \in Calls : Resumed(c, n) \in CallState /\ Resumed(c, n).at \in {"done", "again"}
      BY <1>0, <2>1 DEF Resumed, CallState
    <3>2. /\ call' = [c \in Calls |-> IF c \in Waiting(t) THEN Resumed(c, n) ELSE call[c]]
          /\ active' = active \ {t}
      BY <2>5, <2>6 DEF RefreshSettles
    <3>3. call' \in [Calls -> CallState]
      BY <1>0, <3>1, <3>2
    <3>4. ASSUME NEW c \in Calls, call'[c].at = "waiting"
          PROVE  TabOf[c] \in active'
      BY <1>0, <3>1, <3>2, <3>4 DEF Waiting
    <3>5. QED
      BY <1>0, <2>2, <2>4, <2>5, <2>6, <3>2, <3>3, <3>4 DEF Called, Delivers, n
  <2>7. CASE k # "shared"
    BY <1>2, <2>2, <2>4, <2>5, <2>7 DEF Delivers, n
  <2>8. QED
    BY <2>6, <2>7
<1>8. ASSUME NEW c \in Calls, ApiFetch(c) \/ FirstAnswer(c) \/ SecondAnswer(c)
      PROVE  /\ Called /\ UNCHANGED tab
             /\ \/ Idles /\ active' = active
                \/ Sends(TabOf[c], "shared") /\ active' = active \cup {TabOf[c]}
  <2>1. TabOf[c] \in Tabs /\ tab[TabOf[c]].access \in Nat
    BY <1>0 DEF TabState
  <2>2. CASE ApiFetch(c)
    <3>1. call' = [call EXCEPT ![c] = [at |-> "sent", token |-> tab[TabOf[c]].access]]
      BY <2>2 DEF ApiFetch
    <3>2. Called
      BY <1>0, <2>1, <2>2, <3>1 DEF ApiFetch, Called, CallState
    <3>3. QED
      BY <2>2, <3>2 DEF ApiFetch, Idles
  <2>3. ASSUME NEW at \in {"done", "waiting"}, call' = [call EXCEPT ![c].at = at],
               at = "waiting" => TabOf[c] \in active', active \subseteq active', active' \subseteq Tabs
        PROVE  Called
    BY <1>0, <2>3 DEF Called, CallState
  <2>4. CASE SecondAnswer(c)
    BY <1>0, <2>3, <2>4 DEF SecondAnswer, Idles
  <2>5. CASE FirstAnswer(c)
    <3>1. CASE call' = [call EXCEPT ![c].at = "done"] /\ UNCHANGED << active, inFlight >>
      BY <1>0, <2>3, <2>5, <3>1 DEF FirstAnswer, Idles
    <3>2. CASE GetRefreshSession(TabOf[c]) /\ call' = [call EXCEPT ![c].at = "waiting"]
      <4>1. Called
        BY <1>0, <2>1, <2>3, <3>2 DEF GetRefreshSession
      <4>2. CASE TabOf[c] \in active
        BY <2>5, <3>2, <4>1, <4>2 DEF FirstAnswer, GetRefreshSession, Idles
      <4>3. CASE TabOf[c] \notin active
        <5>1. inFlight' = [inFlight EXCEPT ![TabOf[c]]["shared"] = Sent]
          BY <3>2, <4>3 DEF GetRefreshSession, Send
        <5>2. Becomes(TabOf[c], "shared", Sent) /\ inFlight[TabOf[c]]["shared"].at = "no"
          BY <1>0, <2>1, <4>3, <5>1, RequestBecomes, RequestsKnown
        <5>3. QED
          BY <2>5, <3>2, <4>1, <5>2 DEF FirstAnswer, GetRefreshSession, Sends, ClientTypeOK
      <4>4. QED
        BY <4>2, <4>3
    <3>3. QED
      BY <2>5, <3>1, <3>2 DEF FirstAnswer
  <2>6. QED
    BY <1>8, <2>2, <2>4, <2>5
<1>9. ASSUME NEW t \in Tabs, NEW k \in Kinds, NEW sending, Becomes(t, k, sending),
             sending.at # "no", inFlight[t][k].at # "no", active' = active
      PROVE  \A u \in Tabs : u \in active' <=> inFlight'[u]["shared"].at # "no"
  BY <1>0, <1>9, RequestsKnown DEF Becomes
<1>10. ASSUME NEW t \in Tabs, NEW k \in Kinds, NEW sending, Becomes(t, k, sending),
              inFlight[t][k].at # "no",
              \A u \in Tabs : tab'[u].status = "closed" => tab[u].status = "closed"
       PROVE  \A u \in Tabs : tab'[u].status = "closed" =>
                tab[u].status = "closed" /\ inFlight'[u]["mount"] = inFlight[u]["mount"]
  BY <1>10, RequestsKnown DEF Becomes, RequestsApart
<1>11. CASE \E t \in Tabs : OpenTab(t)
  <2>1. PICK t \in Tabs : OpenTab(t)
    BY <1>11
  <2>2. /\ \A u \in Tabs \ {t} : inFlight'[u]["mount"] = inFlight[u]["mount"]
        /\ \A u \in Tabs : inFlight'[u]["shared"] = inFlight[u]["shared"]
    BY <1>3, <2>1, RequestsKnown DEF Sends, Becomes
  <2>3. QED
    BY <1>0, <1>3, <2>1, <2>2, RequestsKnown
<1>12. CASE \E t \in Tabs : Login(t) \/ Logout(t)
  <2>1. PICK t \in Tabs, k \in {"login", "logout"} : Sends(t, k) /\ UNCHANGED << tab, call, active >>
    BY <1>4, <1>12
  <2>2. \A u \in Tabs : /\ inFlight'[u]["mount"] = inFlight[u]["mount"]
                       /\ inFlight'[u]["shared"] = inFlight[u]["shared"]
    BY <2>1, RequestsKnown DEF Sends, Becomes
  <2>3. QED
    BY <1>0, <1>1, <1>2, <2>1, <2>2, RequestsKnown
<1>13. CASE \E t \in Tabs, k \in Kinds : Serve(t, k) \/ Lose(t, k)
  <2>1. PICK t \in Tabs, k \in Kinds :
          UNCHANGED << tab, call, active >> /\ inFlight[t][k].at # "no" /\ (Issues(t, k) \/ AnswersOnly(t, k))
    BY <1>5, <1>6, <1>13 DEF AnswersOnly
  <2>2. issued + 1 \in Nat /\ 0 \in Nat /\ inFlight[t][k].token \in Nat
    BY <1>0, RequestsKnown DEF Request
  <2>3. PICK sending : Becomes(t, k, sending) /\ sending.at = "answered"
    BY <2>1, <2>2, RequestsKnown DEF Issues, AnswersOnly
  <2>4. QED
    BY <1>1, <1>2, <1>9, <1>10, <2>1, <2>3
<1>14. CASE \E t \in Tabs, k \in Kinds : Deliver(t, k)
  <2>1. PICK t \in Tabs, k \in Kinds : Deliver(t, k)
    BY <1>14
  <2>2. Becomes(t, k, NoRequest) /\ inFlight[t][k].at # "no"
    BY <1>7, <2>1 DEF Delivers
  <2>3. \A u \in Tabs : u \in active' <=> inFlight'[u]["shared"].at # "no"
    BY <1>0, <1>7, <2>1, <2>2, RequestsKnown DEF Becomes
  <2>4. QED
    BY <1>7, <1>10, <2>1, <2>2, <2>3
<1>15. CASE \E c \in Calls : ApiFetch(c) \/ FirstAnswer(c) \/ SecondAnswer(c)
  <2>1. PICK c \in Calls : ApiFetch(c) \/ FirstAnswer(c) \/ SecondAnswer(c)
    BY <1>15
  <2>2. CASE Idles /\ active' = active
    BY <1>0, <1>1, <1>8, <2>1, <2>2 DEF Idles
  <2>3. CASE Sends(TabOf[c], "shared") /\ active' = active \cup {TabOf[c]}
    <3>1. /\ \A u \in Tabs : inFlight'[u]["mount"] = inFlight[u]["mount"]
          /\ \A u \in Tabs \ {TabOf[c]} : inFlight'[u]["shared"] = inFlight[u]["shared"]
          /\ inFlight'[TabOf[c]]["shared"].at = "sent"
      BY <1>0, <2>3, RequestsKnown DEF Sends, Becomes
    <3>2. \A u \in Tabs : u \in active' <=> inFlight'[u]["shared"].at # "no"
      BY <1>0, <2>3, <3>1
    <3>3. QED
      BY <1>0, <1>1, <1>8, <2>1, <2>3, <3>1, <3>2, RequestsKnown
  <2>4. QED
    BY <1>8, <2>1, <2>2, <2>3
<1>16. QED
  BY <1>11, <1>12, <1>13, <1>14, <1>15 DEF ClientNext

-----------------------------------------------------------------------------
(* The conjuncts of ClientInv.                                             *)

LEMMA TypesStep ==
  ASSUME ClientInv, ClientNext
  PROVE  ClientTypeOK' /\ WaitsForRefresh' /\ RequestsApart'
<1>1. /\ ClientTypeOK /\ WaitsForRefresh /\ RequestsApart
  BY DEF ClientInv
<1>2. /\ Tabbed /\ Called
      /\ \A t \in Tabs : tab'[t].status = "closed" => tab[t].status = "closed" /\ inFlight'[t]["mount"] = inFlight[t]["mount"]
      /\ \A t \in Tabs : t \in active' <=> inFlight'[t]["shared"].at # "no"
  BY <1>1, ClientSteps
<1>3. /\ inFlight \in [Tabs -> [Kinds -> Request]] /\ issued \in Nat /\ cookie \in Nat /\ cookie <= issued
      /\ good \subseteq 1..issued /\ losses \in 0..MaxLosses /\ loggedOut \in BOOLEAN /\ issued <= MaxTokens
      /\ MaxTokens \in Nat /\ MaxLosses \in Nat
      /\ \A t \in Tabs, k \in Kinds : inFlight[t][k].token \in Nat /\ inFlight[t][k].token <= issued
  BY <1>1, RequestsKnown DEF ClientTypeOK, RequestsApart, Request
<1>4. /\ inFlight' \in [Tabs -> [Kinds -> Request]]
      /\ issued' \in 0..MaxTokens /\ cookie' \in 0..issued' /\ good' \subseteq 1..issued'
      /\ losses' \in 0..MaxLosses /\ loggedOut' \in BOOLEAN
      /\ \A t \in Tabs, k \in Kinds : inFlight'[t][k].token <= issued'
      /\ \A t \in Tabs : inFlight'[t]["logout"].at # "no" => loggedOut'
  <2>1. CASE Idles
    BY <1>1, <1>3, <2>1, RequestsKnown DEF Idles, accountVars, RequestsApart
  <2>2. ASSUME NEW t \in Tabs, NEW k \in Kinds, NEW sending, Becomes(t, k, sending),
               sending.token <= issued', issued' >= issued, issued' \in Nat,
               sending.at # "no" /\ k = "logout" => loggedOut',
               loggedOut => loggedOut'
        PROVE  /\ \A u \in Tabs, l \in Kinds : inFlight'[u][l].token <= issued'
               /\ \A u \in Tabs : inFlight'[u]["logout"].at # "no" => loggedOut'
    <3>1. ASSUME NEW u \in Tabs, NEW l \in Kinds
          PROVE  inFlight'[u][l].token <= issued'
      <4>1. CASE u = t /\ l = k
        BY <2>2, <4>1 DEF Becomes
      <4>2. CASE ~(u = t /\ l = k)
        BY <1>3, <2>2, <4>2 DEF Becomes
      <4>3. QED
        BY <4>1, <4>2
    <3>2. ASSUME NEW u \in Tabs, inFlight'[u]["logout"].at # "no"
          PROVE  loggedOut'
      BY <1>1, <2>2, <3>2, RequestsKnown DEF Becomes, RequestsApart
    <3>3. QED
      BY <3>1, <3>2
  <2>3. CASE \E t \in Tabs, k \in Kinds : Sends(t, k)
    <3>1. PICK t \in Tabs, k \in Kinds : Sends(t, k)
      BY <2>3
    <3>2. Becomes(t, k, Sent) /\ Sent.token = cookie /\ loggedOut' = (loggedOut \/ k = "logout")
      BY <1>1, <3>1, RequestsKnown DEF Sends
    <3>3. UNCHANGED << issued, cookie, good, losses >>
      BY <3>1 DEF Sends, accountVars
    <3>4. inFlight' \in [Tabs -> [Kinds -> Request]] /\ loggedOut' \in BOOLEAN
      BY <1>3, <3>2 DEF Becomes
    <3>5. Sent.token <= issued' /\ (k = "logout" => loggedOut') /\ (loggedOut => loggedOut')
      BY <1>3, <3>2, <3>3
    <3>6. issued' \in Nat /\ issued' >= issued /\ issued' \in 0..MaxTokens /\ cookie' \in 0..issued'
          /\ good' \subseteq 1..issued' /\ losses' \in 0..MaxLosses
      BY <1>3, <3>3
    <3>7. /\ \A u \in Tabs, l \in Kinds : inFlight'[u][l].token <= issued'
          /\ \A u \in Tabs : inFlight'[u]["logout"].at # "no" => loggedOut'
      BY <2>2, <3>2, <3>5, <3>6
    <3>8. QED
      BY <3>4, <3>6, <3>7
  <2>4. CASE \E t \in Tabs, k \in Kinds : Issues(t, k)
    <3>1. PICK t \in Tabs, k \in Kinds : Issues(t, k)
      BY <2>4
    <3>2. /\ Becomes(t, k, Answer(issued + 1)) /\ Answer(issued + 1).token = issued + 1
          /\ issued' = issued + 1 /\ issued < MaxTokens /\ k # "logout"
          /\ good' \subseteq good \cup {issued + 1}
          /\ UNCHANGED << cookie, losses, loggedOut >>
      BY <1>1, <1>3, <3>1, RequestsKnown DEF Issues
    <3>3. /\ issued' \in 0..MaxTokens /\ cookie' \in 0..issued' /\ good' \subseteq 1..issued'
          /\ losses' \in 0..MaxLosses /\ loggedOut' \in BOOLEAN /\ issued' >= issued
      BY <1>3, <3>2
    <3>4. inFlight' \in [Tabs -> [Kinds -> Request]]
      BY <3>2 DEF Becomes
    <3>5. Answer(issued + 1).token <= issued'
      BY <1>3, <3>2
    <3>6. QED
      BY <1>3, <2>2, <3>2, <3>3, <3>4, <3>5
  <2>5. CASE \E t \in Tabs, k \in Kinds : AnswersOnly(t, k)
    <3>1. PICK t \in Tabs, k \in Kinds : AnswersOnly(t, k)
      BY <2>5
    <3>2. PICK n \in Nat : Becomes(t, k, Answer(n)) /\ n <= issued /\ Answer(n).token = n
      BY <1>1, <1>3, <3>1, RequestsKnown DEF AnswersOnly
    <3>3. /\ UNCHANGED << issued, cookie, loggedOut >> /\ good' \subseteq good
          /\ losses' = losses \/ (losses' = losses + 1 /\ losses < MaxLosses)
          /\ k = "logout" => loggedOut
      BY <1>1, <3>1 DEF AnswersOnly, RequestsApart
    <3>4. inFlight' \in [Tabs -> [Kinds -> Request]] /\ losses' \in 0..MaxLosses
      BY <1>3, <3>2, <3>3 DEF Becomes
    <3>5. good' \subseteq 1..issued'
      BY <1>3, <3>3
    <3>6. Answer(n).token <= issued' /\ issued' \in 0..MaxTokens /\ cookie' \in 0..issued'
      BY <1>3, <3>2, <3>3
    <3>7. QED
      BY <1>3, <2>2, <3>2, <3>3, <3>4, <3>5, <3>6
  <2>6. CASE \E t \in Tabs, k \in Kinds : Delivers(t, k)
    <3>1. PICK t \in Tabs, k \in Kinds : Delivers(t, k)
      BY <2>6
    <3>2. Becomes(t, k, NoRequest) /\ NoRequest.token = 0 /\ NoRequest.at = "no"
      BY <1>1, <3>1, RequestsKnown DEF Delivers
    <3>3. /\ UNCHANGED << issued, good, losses, loggedOut >>
          /\ cookie' \in 0..issued
      BY <1>3, <3>1 DEF Delivers
    <3>4. inFlight' \in [Tabs -> [Kinds -> Request]]
      BY <3>2 DEF Becomes
    <3>5. QED
      BY <1>3, <2>2, <3>2, <3>3, <3>4
  <2>7. QED
    BY <1>1, <2>1, <2>3, <2>4, <2>5, <2>6, ClientSteps
<1>5. ClientTypeOK'
  BY <1>2, <1>4 DEF ClientTypeOK, Tabbed, Called
<1>6. RequestsApart'
  <2>1. ASSUME NEW t \in Tabs
        PROVE  tab'[t].status = "closed" => inFlight'[t]["mount"].at = "no"
    BY <1>1, <1>2 DEF RequestsApart
  <2>2. QED
    BY <1>2, <1>4, <2>1 DEF RequestsApart
<1>7. WaitsForRefresh'
  <2>1. NoRequest.at = "no"
    BY <1>1, RequestsKnown
  <2>2. ASSUME NEW t \in Tabs, t \in active' \/ Waiting(t)' # {}
        PROVE  t \in active' /\ inFlight'[t]["shared"] # NoRequest
    BY <1>2, <2>1, <2>2 DEF Waiting, Called
  <2>3. QED
    BY <2>2 DEF WaitsForRefresh
<1>8. QED
  BY <1>5, <1>6, <1>7

LEMMA ReturnedStep ==
  ASSUME ClientInv, ClientNext
  PROVE  ReturnedUnused' /\ LoginOnItsWay'
<1>1. /\ ClientTypeOK /\ WaitsForRefresh /\ RequestsApart /\ ReturnedUnused /\ LoginOnItsWay
      /\ issued \in Nat /\ issued + 1 \in Nat /\ cookie \in Nat /\ cookie <= issued
      /\ good \subseteq 1..issued /\ losses \in Nat /\ loggedOut \in BOOLEAN
      /\ \A t \in Tabs, k \in Kinds : inFlight[t][k].token \in Nat /\ inFlight[t][k].token <= issued
      /\ NoRequest.at = "no" /\ NoRequest.token = 0
      /\ Sent.at = "sent" /\ Sent.token = cookie
      /\ \A n \in Nat : Answer(n).at = "answered" /\ Answer(n).token = n
  BY RequestsKnown DEF ClientInv, ClientTypeOK, RequestsApart, Request
<1>2. CASE Idles
  <2>1. UNCHANGED << cookie, issued, good, inFlight, losses, loggedOut >>
    BY <1>2 DEF Idles, accountVars
  <2>2. QED
    BY <1>1, <2>1 DEF ReturnedUnused, LoginOnItsWay, Returned
<1>3. CASE \E t \in Tabs, k \in Kinds : Sends(t, k)
  <2>1. PICK t \in Tabs, k \in Kinds : Sends(t, k)
    BY <1>3
  <2>2. /\ UNCHANGED << cookie, issued, good, losses >>
        /\ loggedOut' = (loggedOut \/ k = "logout")
        /\ inFlight[t][k].at = "no" /\ Becomes(t, k, Sent)
    BY <2>1 DEF Sends, accountVars
  <2>3. \A u \in Tabs, l \in Kinds : Returned(u, l)' <=> Returned(u, l)
    BY <1>1, <2>2 DEF Returned, Becomes
  <2>4. ASSUME NEW u \in Tabs, NEW l \in Kinds, Returned(u, l)
        PROVE  /\ inFlight'[u][l] = inFlight[u][l]
               /\ \A v \in Tabs, m \in Kinds :
                    inFlight'[v][m].token = inFlight[u][l].token => v = u /\ m = l
    BY <1>1, <2>2, <2>4 DEF Returned, Becomes, ReturnedUnused
  <2>5. ReturnedUnused'
    BY <1>1, <2>2, <2>3, <2>4 DEF ReturnedUnused
  <2>6. LoginOnItsWay'
    BY <1>1, <2>2, <2>3 DEF LoginOnItsWay
  <2>7. QED
    BY <2>5, <2>6
<1>4. CASE \E t \in Tabs, k \in Kinds : Issues(t, k)
  <2>1. PICK t \in Tabs, k \in Kinds : Issues(t, k)
    BY <1>4
  <2>2. /\ UNCHANGED << cookie, losses, loggedOut >>
        /\ issued' = issued + 1 /\ k # "logout" /\ inFlight[t][k].at = "sent"
        /\ Becomes(t, k, Answer(issued + 1))
        /\ \A n \in good : n \in good' \/ n = inFlight[t][k].token
        /\ issued + 1 \in good'
    BY <2>1 DEF Issues
  <2>3. /\ Returned(t, k)' /\ inFlight'[t][k].token = issued + 1
        /\ \A u \in Tabs, l \in Kinds : (u = t /\ l = k) \/ inFlight'[u][l] = inFlight[u][l]
    BY <1>1, <2>2 DEF Returned, Becomes
  <2>4. \A u \in Tabs, l \in Kinds : Returned(u, l)' => Returned(u, l) \/ (u = t /\ l = k)
    BY <2>3 DEF Returned
  <2>5. ASSUME NEW u \in Tabs, NEW l \in Kinds, Returned(u, l), ~(u = t /\ l = k)
        PROVE  /\ inFlight'[u][l].token # cookie'
               /\ ~loggedOut' => inFlight'[u][l].token \in good'
               /\ \A v \in Tabs, m \in Kinds :
                    inFlight'[v][m].token = inFlight'[u][l].token => v = u /\ m = l
    <3>1. /\ inFlight'[u][l] = inFlight[u][l] /\ inFlight[u][l].token # inFlight[t][k].token
          /\ inFlight[u][l].token # issued + 1
      BY <1>1, <2>3, <2>5 DEF ReturnedUnused
    <3>2. QED
      BY <1>1, <2>2, <2>3, <2>5, <3>1 DEF ReturnedUnused
  <2>6. /\ inFlight'[t][k].token # cookie' /\ inFlight'[t][k].token \in good'
        /\ \A v \in Tabs, m \in Kinds :
             inFlight'[v][m].token = inFlight'[t][k].token => v = t /\ m = k
    <3>1. ASSUME NEW v \in Tabs, NEW m \in Kinds, ~(v = t /\ m = k)
          PROVE  inFlight'[v][m].token # issued + 1
      BY <1>1, <2>3, <3>1
    <3>2. QED
      BY <1>1, <2>2, <2>3, <3>1
  <2>7. ReturnedUnused'
    BY <2>4, <2>5, <2>6 DEF ReturnedUnused
  <2>8. LoginOnItsWay'
    BY <2>3 DEF LoginOnItsWay
  <2>9. QED
    BY <2>7, <2>8
<1>5. CASE \E t \in Tabs, k \in Kinds : AnswersOnly(t, k)
  <2>1. PICK t \in Tabs, k \in Kinds : AnswersOnly(t, k)
    BY <1>5
  <2>2. PICK n \in Nat : Becomes(t, k, Answer(n)) /\ (n = 0 \/ (k = "logout" /\ n = inFlight[t][k].token
                                                           /\ inFlight[t][k].at = "sent"))
    BY <1>1, <2>1 DEF AnswersOnly
  <2>3. /\ UNCHANGED << cookie, issued, loggedOut >>
        /\ losses' = losses \/ losses' = losses + 1
        /\ good' = good \/ loggedOut
        /\ inFlight[t][k].at = "answered" => losses' = losses + 1
    BY <1>1, <2>1 DEF AnswersOnly, RequestsApart
  <2>4. \A u \in Tabs, l \in Kinds : Returned(u, l)' => Returned(u, l) /\ ~(u = t /\ l = k)
    BY <1>1, <2>2 DEF Returned, Becomes
  <2>5. ASSUME NEW u \in Tabs, NEW l \in Kinds, Returned(u, l), ~(u = t /\ l = k)
        PROVE  /\ inFlight'[u][l].token # cookie'
               /\ ~loggedOut' => inFlight'[u][l].token \in good'
               /\ \A v \in Tabs, m \in Kinds :
                    inFlight'[v][m].token = inFlight'[u][l].token => v = u /\ m = l
    <3>1. /\ inFlight'[u][l] = inFlight[u][l] /\ inFlight[u][l].token # 0
          /\ inFlight[u][l].token # inFlight[t][k].token
          /\ \A v \in Tabs, m \in Kinds : (v = t /\ m = k) \/ inFlight'[v][m] = inFlight[v][m]
          /\ inFlight'[t][k].token = n
      BY <1>1, <2>2, <2>5 DEF ReturnedUnused, Returned, Becomes
    <3>2. QED
      BY <1>1, <2>2, <2>3, <2>5, <3>1 DEF ReturnedUnused
  <2>6. ReturnedUnused'
    BY <2>4, <2>5 DEF ReturnedUnused
  <2>7. LoginOnItsWay'
    <3>1. CASE losses' = losses /\ good' = good
      <4>1. inFlight[t][k].at # "answered"
        BY <1>1, <2>3, <3>1
      <4>2. \A u \in Tabs, l \in Kinds : Returned(u, l) => Returned(u, l)'
        BY <2>2, <4>1 DEF Returned, Becomes
      <4>3. QED
        BY <1>1, <2>3, <3>1, <4>2 DEF LoginOnItsWay
    <3>2. CASE losses' = losses + 1 \/ loggedOut
      BY <1>1, <2>3, <3>2 DEF LoginOnItsWay
    <3>3. QED
      BY <2>3, <3>1, <3>2
  <2>8. QED
    BY <2>6, <2>7
<1>6. CASE \E t \in Tabs, k \in Kinds : Delivers(t, k)
  <2>1. PICK t \in Tabs, k \in Kinds : Delivers(t, k)
    BY <1>6
  <2>2. /\ UNCHANGED << issued, good, losses, loggedOut >>
        /\ inFlight[t][k].at = "answered" /\ Becomes(t, k, NoRequest)
        /\ cookie' = IF inFlight[t][k].token = 0 THEN cookie
                     ELSE IF k = "logout" THEN 0 ELSE inFlight[t][k].token
    BY <2>1 DEF Delivers
  <2>3. /\ \A u \in Tabs, l \in Kinds : (u = t /\ l = k) \/ inFlight'[u][l] = inFlight[u][l]
        /\ inFlight'[t][k].at = "no" /\ inFlight'[t][k].token = 0
    BY <1>1, <2>2 DEF Becomes
  <2>4. \A u \in Tabs, l \in Kinds : Returned(u, l)' <=> Returned(u, l) /\ ~(u = t /\ l = k)
    BY <2>3 DEF Returned
  <2>5. ASSUME NEW u \in Tabs, NEW l \in Kinds, Returned(u, l), ~(u = t /\ l = k)
        PROVE  /\ inFlight'[u][l].token # cookie'
               /\ ~loggedOut' => inFlight'[u][l].token \in good'
               /\ \A v \in Tabs, m \in Kinds :
                    inFlight'[v][m].token = inFlight'[u][l].token => v = u /\ m = l
    <3>1. /\ inFlight'[u][l] = inFlight[u][l] /\ inFlight[u][l].token # 0
          /\ inFlight[u][l].token # inFlight[t][k].token
      BY <1>1, <2>3, <2>5 DEF ReturnedUnused, Returned
    <3>2. QED
      BY <1>1, <2>2, <2>3, <2>5, <3>1 DEF ReturnedUnused
  <2>6. ReturnedUnused'
    BY <2>4, <2>5 DEF ReturnedUnused
  <2>7. LoginOnItsWay'
    <3>1. CASE Returned(t, k) /\ ~loggedOut
      BY <1>1, <2>2, <3>1 DEF LoginOnItsWay, ReturnedUnused, Returned
    <3>2. CASE ~Returned(t, k) /\ ~loggedOut
      <4>1. k # "logout" /\ inFlight[t][k].token = 0
        BY <1>1, <2>2, <3>2 DEF Returned, RequestsApart
      <4>2. QED
        BY <1>1, <2>2, <2>4, <3>2, <4>1 DEF LoginOnItsWay
    <3>3. QED
      BY <2>2, <3>1, <3>2 DEF LoginOnItsWay
  <2>8. QED
    BY <2>6, <2>7
<1>7. QED
  BY <1>1, <1>2, <1>3, <1>4, <1>5, <1>6, ClientSteps

(* When all is quiet no token is on its way.                               *)
LEMMA QuietLogin ==
  ASSUME LoginOnItsWay
  PROVE  LoginIsKept
BY DEF LoginOnItsWay, LoginIsKept, Returned, NoRequest

LEMMA ClientInvInit == ClientInit => ClientInv
<1> SUFFICES ASSUME ClientInit PROVE ClientInv
  OBVIOUS
<1>1. /\ NoRequest \in Request /\ NoRequest.at = "no" /\ NoRequest.token = 0
      /\ MaxTokens \in Nat /\ MaxLosses \in Nat
  BY AuthClientAssumption DEF NoRequest, Request
<1>2. /\ cookie = 0 /\ issued = 0 /\ good = {} /\ active = {} /\ losses = 0 /\ loggedOut = FALSE
      /\ \A t \in Tabs : tab[t].status = "closed" /\ tab[t].access = 0
      /\ inFlight \in [Tabs -> [Kinds -> Request]]
      /\ \A t \in Tabs, k \in Kinds : inFlight[t][k] = NoRequest
      /\ \A c \in Calls : call[c].at = "no"
      /\ tab \in [Tabs -> TabState] /\ call \in [Calls -> CallState]
  BY <1>1 DEF ClientInit, TabState, CallState
<1>3. ClientTypeOK
  <2>1. issued \in 0..MaxTokens /\ losses \in 0..MaxLosses
    BY <1>1, <1>2
  <2>2. cookie \in 0..issued /\ good \subseteq 1..issued
    BY <1>2
  <2>3. \A t \in Tabs : (tab[t].access # 0) = (tab[t].status = "authenticated")
    BY <1>2
  <2>4. active \subseteq Tabs /\ loggedOut \in BOOLEAN
    BY <1>2
  <2>5. QED
    BY <1>2, <2>1, <2>2, <2>3, <2>4 DEF ClientTypeOK
<1>4. RequestsApart
  <2>1. ASSUME NEW t \in Tabs, NEW k \in Kinds
        PROVE  inFlight[t][k].at = "no" /\ inFlight[t][k].token = 0 /\ 0 <= issued
    BY <1>1, <1>2
  <2>2. "mount" \in Kinds /\ "shared" \in Kinds /\ "logout" \in Kinds
    BY DEF Kinds
  <2>3. ASSUME NEW t \in Tabs, NEW k \in Kinds
        PROVE  inFlight[t][k].token <= issued
    BY <2>1
  <2>4. \A t \in Tabs : t \notin active
    BY <1>2
  <2>5. QED
    BY <2>1, <2>2, <2>3, <2>4 DEF RequestsApart
<1>5. WaitsForRefresh
  BY <1>2 DEF WaitsForRefresh, Waiting
<1>6. ReturnedUnused /\ LoginOnItsWay
  BY <1>1, <1>2 DEF ReturnedUnused, LoginOnItsWay, Returned
<1>7. QED
  BY <1>3, <1>4, <1>5, <1>6, QuietLogin DEF ClientInv

LEMMA ClientInvStep ==
  ASSUME ClientInv, [ClientNext]_clientVars
  PROVE  ClientInv'
<1>1. CASE ClientNext
  <2>1. /\ ClientTypeOK' /\ WaitsForRefresh' /\ RequestsApart' /\ ReturnedUnused' /\ LoginOnItsWay'
    BY <1>1, TypesStep, ReturnedStep
  <2>2. LoginIsKept'
    BY <2>1 DEF LoginOnItsWay, LoginIsKept, Returned, NoRequest
  <2>3. QED
    BY <2>1, <2>2 DEF ClientInv
<1>2. CASE UNCHANGED clientVars
  <2>1. /\ UNCHANGED << cookie, issued, good, tab, inFlight, active, call, losses, loggedOut >>
    BY <1>2 DEF clientVars, accountVars
  <2>2. ClientTypeOK' /\ WaitsForRefresh' /\ RequestsApart'
    BY <2>1 DEF ClientInv, ClientTypeOK, WaitsForRefresh, RequestsApart, Waiting
  <2>3. ReturnedUnused' /\ LoginOnItsWay' /\ LoginIsKept'
    BY <2>1 DEF ClientInv, ReturnedUnused, LoginOnItsWay, LoginIsKept, Returned
  <2>4. QED
    BY <2>2, <2>3 DEF ClientInv
<1>3. QED
  BY <1>1, <1>2

(* For any number of tabs and calls: overlapping refreshes never lose the  *)
(* login of the browser (refreshSession, AuthProvider.tsx), and a call     *)
(* waits only for a refresh that is really under way (getRefreshSession,   *)
(* apiClient.ts).                                                          *)
THEOREM LoginSurvives == ClientSpec => []ClientInv
<1>1. ClientInit => ClientInv
  BY ClientInvInit
<1>2. ClientInv /\ [ClientNext]_clientVars => ClientInv'
  BY ClientInvStep
<1>3. QED
  BY <1>1, <1>2, PTL DEF ClientSpec

-----------------------------------------------------------------------------
(* Registering with an e-mail address.                                     *)

LEMMA CodeRequests ==
  /\ Registers \subseteq Issuing /\ Resends \subseteq Issuing
  /\ Issuing \subseteq Asking /\ Verifies \subseteq Asking
  /\ \A q \in Registers : q \notin Resends
  /\ \A q \in Issuing : q \notin Verifies
  /\ \A q \in Asking : EmailOf[q] \in Emails /\ EmailOf[q] # Ip
  /\ \A e \in Emails : e # Ip
  /\ DailyLimit \in Nat /\ DailyLimit # 0 /\ MaxAttempts \in Nat /\ MaxAttempts # 0
  /\ NoCode \notin Issuing
BY CodesAssumption DEF Asking, Issuing, Emails

LEMMA CodesAre ==
  /\ Absent \in Code
  /\ \A q \in Issuing : /\ NewCode(q) \in Code /\ NewCode(q) # Absent
                        /\ NewCode(q).of = q /\ NewCode(q).left = MaxAttempts
  /\ \A c \in Code : c # Absent => c.of \in Issuing /\ c.left \in 1..MaxAttempts
  /\ \A c \in Code : c # Absent <=> c.of # NoCode
  /\ \A c \in Code : c.of \in Issuing \cup {NoCode}
<1>1. \A q \in Issuing : NewCode(q) \in [of : Issuing, left : 1..MaxAttempts]
  <2>1. MaxAttempts \in 1..MaxAttempts
    BY CodeRequests
  <2>2. QED
    BY <2>1 DEF NewCode
<1>2. \A c \in [of : Issuing, left : 1..MaxAttempts] : c.of \in Issuing /\ c.left \in 1..MaxAttempts
  OBVIOUS
<1>3. Absent.of = NoCode
  BY DEF Absent
<1>4. QED
  BY <1>1, <1>2, <1>3, CodeRequests DEF Code, NewCode

(* A missed code has a guess less, or is gone after its last.              *)
LEMMA MissedCode ==
  ASSUME NEW stored \in Code
  PROVE  /\ AfterMiss(stored) \in Code
         /\ AfterMiss(stored) # Absent =>
              /\ stored # Absent /\ AfterMiss(stored).of = stored.of
              /\ stored.left \in Nat /\ AfterMiss(stored).left \in Nat
              /\ AfterMiss(stored).left + 1 = stored.left
<1>1. CASE stored.left <= 1
  BY <1>1, CodesAre DEF AfterMiss
<1>2. CASE ~(stored.left <= 1)
  <2>1. stored # Absent
    BY <1>2 DEF Absent
  <2>2. stored \in [of : Issuing, left : 1..MaxAttempts]
    BY <2>1 DEF Code
  <2>3. AfterMiss(stored) = [stored EXCEPT !.left = stored.left - 1]
    BY <1>2 DEF AfterMiss
  <2>4. stored.left - 1 \in 1..MaxAttempts /\ stored.left - 1 + 1 = stored.left
    BY <1>2, <2>2, CodeRequests
  <2>5. /\ AfterMiss(stored) \in [of : Issuing, left : 1..MaxAttempts]
        /\ AfterMiss(stored).of = stored.of /\ AfterMiss(stored).left = stored.left - 1
    BY <2>2, <2>3, <2>4
  <2>6. QED
    BY <2>1, <2>2, <2>4, <2>5, CodeRequests DEF Code
<1>3. QED
  BY <1>1, <1>2

-----------------------------------------------------------------------------
(* One request moves on, the others stay where they are.                   *)
AskerGoes(q, to) ==
  /\ asking' \in [Asking -> AskingState]
  /\ asking'[q].pc = to /\ asking'[q].guess = asking[q].guess
  /\ asking'[q].held = asking[q].held /\ asking'[q].late = asking[q].late
  /\ \A r \in Asking : r # q => asking'[r] = asking[r]

LEMMA MovesGoes ==
  ASSUME CodesTypeOK, NEW q \in Asking, NEW from, NEW to \in Steps, Moves(q, from, to)
  PROVE  asking[q].pc = from /\ AskerGoes(q, to)
<1>1. asking[q] \in AskingState /\ asking \in [Asking -> AskingState]
  BY DEF CodesTypeOK
<1>2. /\ [asking[q] EXCEPT !.pc = to] \in AskingState
      /\ [asking[q] EXCEPT !.pc = to].pc = to
      /\ [asking[q] EXCEPT !.pc = to].guess = asking[q].guess
      /\ [asking[q] EXCEPT !.pc = to].held = asking[q].held
      /\ [asking[q] EXCEPT !.pc = to].late = asking[q].late
  BY <1>1 DEF AskingState
<1>3. asking' = [asking EXCEPT ![q] = [asking[q] EXCEPT !.pc = to]] /\ asking[q].pc = from
  BY DEF Moves
<1>4. QED
  BY <1>1, <1>2, <1>3 DEF AskerGoes

LEMMA StepsAre ==
  \A pc \in {"start", "creating", "checking", "emailKey", "ipKey", "counting", "saving",
             "mailing", "consuming", "deleting", "missed", "writing", "voiding",
             "activating", "answered", "refused", "failed"} : pc \in Steps
BY DEF Steps, Done

-----------------------------------------------------------------------------
(* The steps, by what they do to cooldowns, counts and rows: a request     *)
(* goes on before it holds anything, takes a cooldown, gives back those it *)
(* holds, is counted in, saves, mails, is interrupted; a cooldown ends; it *)
(* is midnight; or none of these.                                          *)
Early(q) ==
  /\ \/ /\ asking[q].pc = "start" /\ AskerGoes(q, "creating") /\ user' = user
     \/ /\ asking[q].pc \in {"start", "creating", "checking", "emailKey"}
        /\ AskerGoes(q, "refused") /\ user' = user
     \/ /\ asking[q].pc = "creating" /\ AskerGoes(q, "checking") /\ q \in Registers
        /\ user[EmailOf[q]] = "none" /\ user' = [user EXCEPT ![EmailOf[q]] = "pending"]
     \/ /\ asking[q].pc = "start" /\ q \in Resends /\ user' = user
        /\ AskerGoes(q, "checking") \/ AskerGoes(q, "answered")
     \/ /\ asking[q].pc = "checking" /\ AskerGoes(q, "emailKey") /\ user' = user
        /\ store = "redis"
  /\ UNCHANGED <<cooling, daily, latest>>

Takes(q) ==
  /\ user' = user /\ UNCHANGED <<daily, latest>>
  /\ \/ /\ asking[q].pc = "emailKey" /\ AskerGoes(q, "ipKey")
        /\ EmailOf[q] \notin cooling /\ cooling' = cooling \cup {EmailOf[q]}
     \/ /\ asking[q].pc = "ipKey" /\ AskerGoes(q, "counting")
        /\ Ip \notin cooling /\ cooling' = cooling \cup {Ip}

GivesBack(q) ==
  /\ asking[q].pc \in {"ipKey", "counting"} /\ AskerGoes(q, "refused")
  /\ cooling' = cooling \ Holds(q)
  /\ user' = user /\ UNCHANGED <<daily, latest>>

CountedIn(q) ==
  /\ asking[q].pc = "counting" /\ AskerGoes(q, "saving")
  /\ asking[q].late \/ WithinDaily(q)
  /\ user' = user /\ UNCHANGED <<cooling, daily, latest>>

SavesOne(q) ==
  /\ AskerGoes(q, "mailing") /\ Save(q) /\ user' = user
  /\ \/ /\ asking[q].pc = "checking" /\ store = "memory" /\ WithinDaily(q)
        /\ cooling' = cooling \cup Keys(q)
     \/ asking[q].pc = "saving" /\ cooling' = cooling

Mails(q) ==
  /\ asking[q].pc = "mailing"
  /\ AskerGoes(q, "answered") \/ AskerGoes(q, "failed")
  /\ user' = user /\ UNCHANGED <<cooling, daily, latest>>

Fails(q) ==
  /\ asking[q].pc \notin Done \cup {"start"} /\ AskerGoes(q, "failed")
  /\ user' = user /\ UNCHANGED <<cooling, daily, latest>>

IssuersRest ==
  /\ \A q \in Issuing : asking'[q] = asking[q]
  /\ user' = user \/ \E e \in Emails : user' = [user EXCEPT ![e] = "active"]
  /\ UNCHANGED <<cooling, daily, latest>>

Late(q) == asking[q].late \/ asking[q].pc \in {"emailKey", "ipKey", "counting", "saving"}

DayEnds ==
  /\ asking' \in [Asking -> AskingState]
  /\ \A q \in Asking : /\ asking'[q].pc = asking[q].pc /\ asking'[q].guess = asking[q].guess
                        /\ asking'[q].held = asking[q].held /\ asking'[q].late = Late(q)
  /\ daily' = [a \in Emails \cup {Ip} |-> 0]
  /\ user' = user /\ UNCHANGED <<cooling, latest>>

KeyStep ==
  \/ \E q \in Issuing :
       \/ Early(q) \/ Takes(q) \/ GivesBack(q) \/ CountedIn(q)
       \/ SavesOne(q) \/ Mails(q) \/ Fails(q)
  \/ IssuersRest
  \/ (\E a \in Emails \cup {Ip} : CooldownEnds(a))
  \/ DayEnds

LEMMA IssuerKeySteps ==
  ASSUME CodesTypeOK, NEW q \in Issuing,
         \/ q \in Registers /\ (FindNoUser(q) \/ CreateUser(q))
         \/ q \in Resends /\ FindPending(q)
         \/ Issue(q)
  PROVE  \/ Early(q) \/ Takes(q) \/ GivesBack(q) \/ CountedIn(q)
         \/ SavesOne(q) \/ Mails(q)
<1>q. q \in Asking
  BY CodeRequests
<1>1. ASSUME q \in Registers, FindNoUser(q)
      PROVE  Early(q)
  <2>1. CASE user[EmailOf[q]] = "none"
    BY <1>q, <1>1, <2>1, MovesGoes, StepsAre DEF FindNoUser, Early
  <2>2. CASE user[EmailOf[q]] # "none"
    BY <1>q, <1>1, <2>2, MovesGoes, StepsAre DEF FindNoUser, Early
  <2>3. QED
    BY <2>1, <2>2
<1>2. ASSUME q \in Registers, CreateUser(q)
      PROVE  Early(q)
  <2>1. CASE user[EmailOf[q]] = "none"
    BY <1>q, <1>2, <2>1, MovesGoes, StepsAre DEF CreateUser, Early
  <2>2. CASE user[EmailOf[q]] # "none"
    <3>1. user' = user
      BY <1>q, <1>2, <2>2, CodeRequests DEF CreateUser, CodesTypeOK
    <3>2. QED
      BY <1>q, <1>2, <2>2, <3>1, MovesGoes, StepsAre DEF CreateUser, Early
  <2>3. QED
    BY <2>1, <2>2
<1>3. ASSUME q \in Resends, FindPending(q)
      PROVE  Early(q)
  <2>1. CASE user[EmailOf[q]] = "pending"
    BY <1>q, <1>3, <2>1, MovesGoes, StepsAre DEF FindPending, Early
  <2>2. CASE user[EmailOf[q]] # "pending"
    BY <1>q, <1>3, <2>2, MovesGoes, StepsAre DEF FindPending, Early
  <2>3. QED
    BY <2>1, <2>2
<1>4. ASSUME IssueInMemory(q)
      PROVE  Early(q) \/ SavesOne(q)
  <2>1. CASE WithinLimits(q)
    BY <1>q, <1>4, <2>1, MovesGoes, StepsAre DEF IssueInMemory, SavesOne, WithinLimits
  <2>2. CASE ~WithinLimits(q)
    BY <1>q, <1>4, <2>2, MovesGoes, StepsAre DEF IssueInMemory, Early
  <2>3. QED
    BY <2>1, <2>2
<1>5. ASSUME CheckLimits(q)
      PROVE  Early(q)
  <2>1. CASE WithinLimits(q)
    BY <1>q, <1>5, <2>1, MovesGoes, StepsAre DEF CheckLimits, Early
  <2>2. CASE ~WithinLimits(q)
    BY <1>q, <1>5, <2>2, MovesGoes, StepsAre DEF CheckLimits, Early
  <2>3. QED
    BY <2>1, <2>2
<1>6. ASSUME TakeEmailKey(q)
      PROVE  Early(q) \/ Takes(q)
  <2>1. CASE EmailOf[q] \in cooling
    <3>1. cooling' = cooling
      BY <1>6, <2>1 DEF TakeEmailKey
    <3>2. QED
      BY <1>q, <1>6, <2>1, <3>1, MovesGoes, StepsAre DEF TakeEmailKey, Early
  <2>2. CASE EmailOf[q] \notin cooling
    BY <1>q, <1>6, <2>2, MovesGoes, StepsAre DEF TakeEmailKey, Takes
  <2>3. QED
    BY <2>1, <2>2
<1>7. ASSUME TakeIpKey(q)
      PROVE  Takes(q) \/ GivesBack(q)
  <2>1. CASE Ip \in cooling
    BY <1>q, <1>7, <2>1, MovesGoes, StepsAre DEF TakeIpKey, GivesBack, Holds
  <2>2. CASE Ip \notin cooling
    BY <1>q, <1>7, <2>2, MovesGoes, StepsAre DEF TakeIpKey, Takes
  <2>3. QED
    BY <2>1, <2>2
<1>8. ASSUME CheckCounts(q)
      PROVE  CountedIn(q) \/ GivesBack(q)
  <2>1. CASE asking[q].late \/ WithinDaily(q)
    BY <1>q, <1>8, <2>1, MovesGoes, StepsAre DEF CheckCounts, CountedIn
  <2>2. CASE ~(asking[q].late \/ WithinDaily(q))
    BY <1>q, <1>8, <2>2, MovesGoes, StepsAre DEF CheckCounts, GivesBack, Holds
  <2>3. QED
    BY <2>1, <2>2
<1>9. ASSUME SaveCode(q)
      PROVE  SavesOne(q)
  BY <1>q, <1>9, MovesGoes, StepsAre DEF SaveCode, SavesOne
<1>10. ASSUME QueueMail(q)
       PROVE  Mails(q)
  BY <1>q, <1>10, MovesGoes, StepsAre DEF QueueMail, Mails
<1>11. QED
  BY <1>1, <1>2, <1>3, <1>4, <1>5, <1>6, <1>7, <1>8, <1>9, <1>10 DEF Issue

LEMMA VerifierKeySteps ==
  ASSUME CodesTypeOK, NEW g \in Verifies, PresentCode(g) \/ Consume(g) \/ Activate(g)
  PROVE  IssuersRest
<1>1. \A q \in Issuing : q # g /\ q \in Asking
  BY CodeRequests
<1>2. asking \in [Asking -> AskingState] /\ g \in Asking /\ EmailOf[g] \in Emails
  BY CodeRequests DEF CodesTypeOK
<1>3. CASE PresentCode(g)
  BY <1>1, <1>2, <1>3 DEF PresentCode, IssuersRest
<1>4. CASE ConsumeInMemory(g)
  BY <1>1, <1>2, <1>4 DEF ConsumeInMemory, Moves, IssuersRest
<1>5. CASE GetCode(g)
  BY <1>1, <1>2, <1>5 DEF GetCode, IssuersRest
<1>6. CASE DeleteUsed(g)
  BY <1>1, <1>2, <1>6 DEF DeleteUsed, Moves, IssuersRest
<1>7. CASE ReadTtl(g)
  BY <1>1, <1>2, <1>7 DEF ReadTtl, Moves, IssuersRest
<1>8. CASE WriteBack(g)
  BY <1>1, <1>2, <1>8 DEF WriteBack, Moves, IssuersRest
<1>9. CASE Activate(g)
  BY <1>1, <1>2, <1>9 DEF Activate, Moves, IssuersRest
<1>10. QED
  BY <1>3, <1>4, <1>5, <1>6, <1>7, <1>8, <1>9 DEF Consume

LEMMA MidnightStep ==
  ASSUME CodesTypeOK, Midnight
  PROVE  DayEnds
<1>1. asking' = [q \in Asking |-> [asking[q] EXCEPT !.late = Late(q)]]
  BY DEF Midnight, Late
<1>2. ASSUME NEW q \in Asking
      PROVE  [asking[q] EXCEPT !.late = Late(q)] \in AskingState
  BY DEF CodesTypeOK, AskingState, Late
<1>3. ASSUME NEW q \in Asking
      PROVE  /\ asking'[q].pc = asking[q].pc /\ asking'[q].guess = asking[q].guess
             /\ asking'[q].held = asking[q].held /\ asking'[q].late = Late(q)
  <2>1. asking'[q] = [asking[q] EXCEPT !.late = Late(q)] /\ asking[q] \in AskingState
    BY <1>1 DEF CodesTypeOK
  <2>2. QED
    BY <2>1 DEF AskingState
<1>4. daily' = [a \in Emails \cup {Ip} |-> 0] /\ user' = user /\ UNCHANGED <<cooling, latest>>
  BY DEF Midnight, CodesTypeOK
<1>5. asking' \in [Asking -> AskingState]
  BY <1>1, <1>2
<1>6. QED
  BY <1>3, <1>4, <1>5 DEF DayEnds

LEMMA KeySteps ==
  ASSUME CodesTypeOK, CodesNext
  PROVE  KeyStep
<1>1. CASE \E q \in Registers : FindNoUser(q) \/ CreateUser(q)
  BY <1>1, IssuerKeySteps, CodeRequests DEF KeyStep
<1>2. CASE \E q \in Resends : FindPending(q)
  BY <1>2, IssuerKeySteps, CodeRequests DEF KeyStep
<1>3. CASE \E q \in Issuing : Issue(q)
  BY <1>3, IssuerKeySteps DEF KeyStep
<1>4. CASE \E q \in Issuing : SendMail(q)
  BY <1>4 DEF SendMail, KeyStep, IssuersRest
<1>5. CASE \E g \in Verifies : PresentCode(g) \/ Consume(g) \/ Activate(g)
  BY <1>5, VerifierKeySteps DEF KeyStep
<1>6. CASE \E q \in Asking : Interrupt(q)
  <2>1. PICK q \in Asking : Interrupt(q)
    BY <1>6
  <2>2. /\ asking[q].pc \notin Done \cup {"start"} /\ Moves(q, asking[q].pc, "failed")
        /\ user' = user /\ UNCHANGED <<cooling, daily, latest>>
    BY <2>1 DEF Interrupt, Moves
  <2>3. AskerGoes(q, "failed")
    BY <2>2, MovesGoes, StepsAre
  <2>4. CASE q \in Issuing
    BY <2>2, <2>3, <2>4 DEF Fails, KeyStep
  <2>5. CASE q \notin Issuing
    BY <2>2, <2>3, <2>5, CodeRequests DEF IssuersRest, KeyStep, AskerGoes
  <2>6. QED
    BY <2>4, <2>5
<1>7. CASE \E e \in Emails : CodeExpires(e)
  BY <1>7 DEF CodeExpires, KeyStep, IssuersRest
<1>8. CASE \E a \in Emails \cup {Ip} : CooldownEnds(a)
  BY <1>8 DEF KeyStep
<1>9. CASE Midnight
  BY <1>9, MidnightStep DEF KeyStep
<1>10. QED
  BY <1>1, <1>2, <1>3, <1>4, <1>5, <1>6, <1>7, <1>8, <1>9 DEF CodesNext

-----------------------------------------------------------------------------
(* Cooldowns, counts and rows under each step.                             *)

LEMMA HeldStep ==
  ASSUME CodesTypeOK, KeyStep, HeldAlone
  PROVE  HeldAlone'
<1> USE CodeRequests
<1>1. ASSUME NEW q \in Issuing, AskerGoes(q, "creating") \/ AskerGoes(q, "refused") \/ AskerGoes(q, "checking")
               \/ AskerGoes(q, "answered") \/ AskerGoes(q, "emailKey") \/ AskerGoes(q, "mailing") \/ AskerGoes(q, "failed")
      PROVE  Holds(q)' = {} /\ \A r \in Issuing : r # q => Holds(r)' = Holds(r)
  BY <1>1 DEF AskerGoes, Holds, Keys
<1>2. ASSUME \A r \in Issuing : Holds(r)' = {} \/ Holds(r)' = Holds(r), cooling \subseteq cooling'
      PROVE  HeldAlone'
  BY <1>2 DEF HeldAlone
<1>3. ASSUME NEW q \in Issuing, Early(q) \/ SavesOne(q) \/ Mails(q) \/ Fails(q)
      PROVE  HeldAlone'
  <2>1. \A r \in Issuing : Holds(r)' = {} \/ Holds(r)' = Holds(r)
    BY <1>1, <1>3 DEF Early, SavesOne, Mails, Fails
  <2>2. cooling \subseteq cooling'
    BY <1>3 DEF Early, SavesOne, Mails, Fails
  <2>3. QED
    BY <1>2, <2>1, <2>2
<1>4. ASSUME NEW q \in Issuing, Takes(q)
      PROVE  HeldAlone'
  <2>1. \A r \in Issuing : r # q => Holds(r)' = Holds(r)
    BY <1>4 DEF Takes, AskerGoes, Holds, Keys
  <2>2. PICK a \in {EmailOf[q], Ip} :
          a \notin cooling /\ cooling' = cooling \cup {a} /\ Holds(q)' = Holds(q) \cup {a}
    <3>1. CASE asking[q].pc = "emailKey"
      BY <1>4, <3>1 DEF Takes, AskerGoes, Holds, Keys
    <3>2. CASE asking[q].pc = "ipKey"
      BY <1>4, <3>2 DEF Takes, AskerGoes, Holds, Keys
    <3>3. QED
      BY <1>4, <3>1, <3>2 DEF Takes
  <2>3. QED
    BY <2>1, <2>2 DEF HeldAlone
<1>5. ASSUME NEW q \in Issuing, GivesBack(q)
      PROVE  HeldAlone'
  <2>1. Holds(q)' = {} /\ \A r \in Issuing : r # q => Holds(r)' = Holds(r)
    BY <1>1, <1>5 DEF GivesBack
  <2>2. cooling' = cooling \ Holds(q)
    BY <1>5 DEF GivesBack
  <2>3. QED
    BY <2>1, <2>2 DEF HeldAlone
<1>6. ASSUME NEW q \in Issuing, CountedIn(q)
      PROVE  HeldAlone'
  <2>1. \A r \in Issuing : Holds(r)' = Holds(r)
    BY <1>6 DEF CountedIn, AskerGoes, Holds, Keys
  <2>2. cooling' = cooling
    BY <1>6 DEF CountedIn
  <2>3. QED
    BY <1>2, <2>1, <2>2
<1>7. ASSUME IssuersRest \/ DayEnds
      PROVE  HeldAlone'
  <2>1. \A r \in Issuing : Holds(r)' = Holds(r)
    BY <1>7 DEF IssuersRest, DayEnds, Holds, Keys
  <2>2. cooling' = cooling
    BY <1>7 DEF IssuersRest, DayEnds
  <2>3. QED
    BY <1>2, <2>1, <2>2
<1>8. ASSUME NEW a \in Emails \cup {Ip}, CooldownEnds(a)
      PROVE  HeldAlone'
  <2>1. \A r \in Issuing : Holds(r)' = Holds(r) /\ a \notin Holds(r)
    BY <1>8 DEF CooldownEnds, Holds, Keys
  <2>2. cooling' = cooling \ {a}
    BY <1>8 DEF CooldownEnds
  <2>3. QED
    BY <2>1, <2>2 DEF HeldAlone
<1>9. QED
  BY <1>3, <1>4, <1>5, <1>6, <1>7, <1>8 DEF KeyStep

(* Only one request at a time is between its cooldowns and its code.       *)
LEMMA OneSaves ==
  ASSUME HeldAlone, NEW q \in Issuing, NEW r \in Issuing,
         asking[q].pc = "saving", asking[r].pc = "saving"
  PROVE  q = r
BY DEF HeldAlone, Holds, Keys

LEMMA SavedCounts ==
  ASSUME CodesTypeOK, NEW q \in Issuing, Save(q)
  PROVE  /\ latest' = [latest EXCEPT ![EmailOf[q]] = q]
         /\ \A a \in Emails \cup {Ip} :
              /\ daily[a] \in Nat /\ daily'[a] \in Nat
              /\ (daily'[a] = daily[a] \/ (~asking[q].late /\ a \in Keys(q) /\ daily'[a] = daily[a] + 1))
         /\ daily' \in [Emails \cup {Ip} -> Nat] /\ DOMAIN daily' = Emails \cup {Ip}
<1>1. DOMAIN daily = Emails \cup {Ip} /\ \A a \in Emails \cup {Ip} : daily[a] \in Nat /\ daily[a] + 1 \in Nat
  BY DEF CodesTypeOK
<1>2. latest' = [latest EXCEPT ![EmailOf[q]] = q]
  BY DEF Save
<1>3. CASE asking[q].late
  <2>1. daily' = daily
    BY <1>3 DEF Save
  <2>2. QED
    BY <1>1, <1>2, <2>1 DEF CodesTypeOK
<1>4. CASE ~asking[q].late
  <2>1. daily' = [a \in Emails \cup {Ip} |-> IF a \in Keys(q) THEN daily[a] + 1 ELSE daily[a]]
    BY <1>1, <1>4 DEF Save
  <2>2. \A a \in Emails \cup {Ip} :
          daily'[a] = daily[a] \/ (a \in Keys(q) /\ daily'[a] = daily[a] + 1)
    BY <2>1
  <2>3. daily' \in [Emails \cup {Ip} -> Nat]
    BY <1>1, <2>1
  <2>4. QED
    BY <1>1, <1>2, <1>4, <2>1, <2>2, <2>3
<1>5. QED
  BY <1>3, <1>4

LEMMA QuotaStep ==
  ASSUME CodesTypeOK, KeyStep, OneStepInMemory, HeldAlone, SavesWithin, DailyQuota
  PROVE  DailyQuota' /\ SavesWithin'
<1> USE CodeRequests
<1>1. ASSUME daily' = daily, \A q \in Issuing : asking'[q].pc = "saving" /\ ~asking'[q].late =>
                 (asking[q].pc = "saving" /\ ~asking[q].late) \/ WithinDaily(q)
      PROVE  DailyQuota' /\ SavesWithin'
  <2>1. \A q \in Issuing : WithinDaily(q)' = WithinDaily(q)
    BY <1>1 DEF WithinDaily, Keys
  <2>2. QED
    BY <1>1, <2>1 DEF DailyQuota, SavesWithin
<1>2. ASSUME NEW q \in Issuing, Early(q) \/ Takes(q) \/ GivesBack(q) \/ Mails(q) \/ Fails(q)
      PROVE  DailyQuota' /\ SavesWithin'
  <2>1. daily' = daily
    BY <1>2 DEF Early, Takes, GivesBack, Mails, Fails
  <2>2. \A r \in Issuing : asking'[r].pc = "saving" => asking[r].pc = "saving" /\ asking'[r].late = asking[r].late
    BY <1>2 DEF Early, Takes, GivesBack, Mails, Fails, AskerGoes
  <2>3. QED
    BY <1>1, <2>1, <2>2
<1>3. ASSUME NEW q \in Issuing, CountedIn(q)
      PROVE  DailyQuota' /\ SavesWithin'
  <2>1. \A r \in Issuing : asking'[r].pc = "saving" /\ ~asking'[r].late =>
               (asking[r].pc = "saving" /\ ~asking[r].late) \/ WithinDaily(r)
    BY <1>3 DEF CountedIn, AskerGoes
  <2>2. QED
    BY <1>1, <1>3, <2>1 DEF CountedIn
<1>4. ASSUME NEW q \in Issuing, SavesOne(q)
      PROVE  DailyQuota' /\ SavesWithin'
  <2>1. asking[q].late \/ WithinDaily(q)
    BY <1>4 DEF SavesOne, SavesWithin
  <2>2. \A r \in Issuing : asking'[r].pc # "saving"
    <3>1. TAKE r \in Issuing
    <3>2. CASE r = q
      BY <1>4, <3>2 DEF SavesOne, AskerGoes
    <3>3. CASE r # q /\ asking[q].pc = "checking"
      BY <1>4, <3>3 DEF SavesOne, AskerGoes, OneStepInMemory
    <3>4. CASE r # q /\ asking[q].pc = "saving"
      BY <1>4, <3>4, OneSaves DEF SavesOne, AskerGoes
    <3>5. QED
      BY <1>4, <3>2, <3>3, <3>4 DEF SavesOne
  <2>3. ASSUME NEW a \in Emails \cup {Ip}
        PROVE  daily'[a] <= DailyLimit
    <3>1. daily[a] <= DailyLimit /\ (asking[q].late \/ a \notin Keys(q) \/ daily[a] < DailyLimit)
      BY <2>1 DEF DailyQuota, WithinDaily, CodesTypeOK
    <3>2. /\ daily[a] \in Nat /\ daily'[a] \in Nat
          /\ (daily'[a] = daily[a] \/ (~asking[q].late /\ a \in Keys(q) /\ daily'[a] = daily[a] + 1))
      BY <1>4, SavedCounts DEF SavesOne
    <3>3. QED
      BY <3>1, <3>2
  <2>4. DailyQuota'
    BY <1>4, <2>3, SavedCounts DEF SavesOne, DailyQuota
  <2>5. SavesWithin'
    BY <2>2 DEF SavesWithin
  <2>6. QED
    BY <2>4, <2>5
<1>5. ASSUME IssuersRest
      PROVE  DailyQuota' /\ SavesWithin'
  <2>1. daily' = daily /\ \A q \in Issuing : asking'[q] = asking[q]
    BY <1>5 DEF IssuersRest
  <2>2. QED
    BY <1>1, <2>1
<1>6. ASSUME NEW a \in Emails \cup {Ip}, CooldownEnds(a)
      PROVE  DailyQuota' /\ SavesWithin'
  <2>1. daily' = daily /\ asking' = asking
    BY <1>6 DEF CooldownEnds
  <2>2. QED
    BY <1>1, <2>1
<1>7. ASSUME DayEnds
      PROVE  DailyQuota' /\ SavesWithin'
  <2>1. \A a \in Emails \cup {Ip} : daily'[a] = 0 /\ 0 <= DailyLimit /\ 0 < DailyLimit
    BY <1>7 DEF DayEnds
  <2>2. DOMAIN daily' = Emails \cup {Ip}
    BY <1>7 DEF DayEnds
  <2>3. DailyQuota'
    BY <2>1, <2>2 DEF DailyQuota
  <2>4. SavesWithin'
    BY <2>1 DEF SavesWithin, WithinDaily, Keys
  <2>5. QED
    BY <2>3, <2>4
<1>8. QED
  BY <1>2, <1>3, <1>4, <1>5, <1>6, <1>7 DEF KeyStep

LEMMA CooldownStep ==
  ASSUME CodesTypeOK, KeyStep, HeldAlone, CooldownMeansCode
  PROVE  CooldownMeansCode'
<1> USE CodeRequests
<1> DEFINE Excused(e) == latest[e] # NoCode
             \/ \E q \in Issuing : EmailOf[q] = e /\ (e \in Holds(q) \/ asking[q].pc = "failed")
<1>1. ASSUME \A e \in Emails : latest[e] # NoCode => latest'[e] # NoCode,
             NEW p \in Issuing,
             \A q \in Issuing : q # p => asking'[q].pc = asking[q].pc,
             \/ asking'[p].pc = "failed"
             \/ latest'[EmailOf[p]] # NoCode
             \/ EmailOf[p] \in Holds(p)'
             \/ EmailOf[p] \notin cooling'
             \/ EmailOf[p] \notin Holds(p) /\ asking[p].pc # "failed",
             cooling' \subseteq cooling \cup {EmailOf[p], Ip},
             \/ EmailOf[p] \in cooling
             \/ EmailOf[p] \notin cooling'
             \/ EmailOf[p] \in Holds(p)'
             \/ latest'[EmailOf[p]] # NoCode
      PROVE  CooldownMeansCode'
  <2>1. ASSUME NEW e \in cooling' \ {Ip}
        PROVE  Excused(e)'
    <3>1. CASE e = EmailOf[p] /\ (\/ asking'[p].pc = "failed" \/ latest'[EmailOf[p]] # NoCode
                                  \/ EmailOf[p] \in Holds(p)')
      BY <3>1
    <3>2. CASE e # EmailOf[p] \/ ~(\/ asking'[p].pc = "failed" \/ latest'[EmailOf[p]] # NoCode
                                   \/ EmailOf[p] \in Holds(p)')
      <4>1. e \in cooling \ {Ip} /\ e \in Emails
        BY <1>1, <2>1, <3>2 DEF CodesTypeOK
      <4>2. Excused(e)
        BY <4>1 DEF CooldownMeansCode
      <4>3. CASE latest[e] # NoCode
        BY <1>1, <4>1, <4>3
      <4>4. CASE latest[e] = NoCode
        <5>1. PICK q \in Issuing : EmailOf[q] = e /\ (e \in Holds(q) \/ asking[q].pc = "failed")
          BY <4>2, <4>4
        <5>2. q # p
          BY <1>1, <2>1, <3>2, <5>1
        <5>3. asking'[q].pc = asking[q].pc /\ Holds(q)' = Holds(q)
          BY <1>1, <5>2 DEF Holds, Keys
        <5>4. QED
          BY <5>1, <5>3
      <4>5. QED
        BY <4>3, <4>4
    <3>3. QED
      BY <3>1, <3>2
  <2>2. QED
    BY <2>1 DEF CooldownMeansCode
<1>2. ASSUME NEW q \in Issuing, \/ Early(q) \/ CountedIn(q) \/ Mails(q) \/ Fails(q)
      PROVE  CooldownMeansCode'
  <2>1. /\ cooling' = cooling /\ latest' = latest
        /\ \A r \in Issuing : r # q => asking'[r].pc = asking[r].pc
    BY <1>2 DEF Early, CountedIn, Mails, Fails, AskerGoes
  <2>2. \/ asking'[q].pc = "failed" \/ EmailOf[q] \in Holds(q)'
        \/ EmailOf[q] \notin Holds(q) /\ asking[q].pc # "failed"
    BY <1>2 DEF Early, CountedIn, Mails, Fails, AskerGoes, Holds, Keys
  <2>3. EmailOf[q] \in cooling \/ EmailOf[q] \notin cooling'
    BY <2>1
  <2>4. QED
    BY <1>1, <2>1, <2>2, <2>3
<1>3. ASSUME NEW q \in Issuing, Takes(q)
      PROVE  CooldownMeansCode'
  <2>1. /\ latest' = latest /\ cooling' \subseteq cooling \cup {EmailOf[q], Ip}
        /\ \A r \in Issuing : r # q => asking'[r].pc = asking[r].pc
    BY <1>3 DEF Takes, AskerGoes
  <2>2. EmailOf[q] \in Holds(q)'
    BY <1>3 DEF Takes, AskerGoes, Holds, Keys
  <2>3. QED
    BY <1>1, <2>1, <2>2
<1>4. ASSUME NEW q \in Issuing, GivesBack(q)
      PROVE  CooldownMeansCode'
  <2>1. /\ latest' = latest /\ cooling' \subseteq cooling
        /\ \A r \in Issuing : r # q => asking'[r].pc = asking[r].pc
    BY <1>4 DEF GivesBack, AskerGoes
  <2>2. EmailOf[q] \notin cooling'
    BY <1>4 DEF GivesBack, Holds, Keys
  <2>3. QED
    BY <1>1, <2>1, <2>2
<1>5. ASSUME NEW q \in Issuing, SavesOne(q)
      PROVE  CooldownMeansCode'
  <2>1. latest' = [latest EXCEPT ![EmailOf[q]] = q] /\ latest \in [Emails -> Issuing \cup {NoCode}]
    BY <1>5 DEF SavesOne, Save, CodesTypeOK
  <2>2. latest'[EmailOf[q]] # NoCode /\ \A e \in Emails : latest[e] # NoCode => latest'[e] # NoCode
    BY <2>1
  <2>3. /\ \A r \in Issuing : r # q => asking'[r].pc = asking[r].pc
        /\ cooling' \subseteq cooling \cup {EmailOf[q], Ip}
    BY <1>5 DEF SavesOne, AskerGoes, Keys
  <2>4. QED
    BY <1>1, <2>2, <2>3
<1>6. ASSUME cooling' \subseteq cooling, latest' = latest,
             \A q \in Issuing : asking'[q].pc = asking[q].pc
      PROVE  CooldownMeansCode'
  <2>1. \A q \in Issuing : Holds(q)' = Holds(q)
    BY <1>6 DEF Holds, Keys
  <2>2. QED
    BY <1>6, <2>1 DEF CooldownMeansCode
<1>7. ASSUME IssuersRest \/ DayEnds \/ \E a \in Emails \cup {Ip} : CooldownEnds(a)
      PROVE  CooldownMeansCode'
  BY <1>6, <1>7 DEF IssuersRest, DayEnds, CooldownEnds
<1>8. QED
  BY <1>2, <1>3, <1>4, <1>5, <1>7 DEF KeyStep

LEMMA RowStep ==
  ASSUME CodesTypeOK, KeyStep, RowOwnedOnce
  PROVE  RowOwnedOnce' /\ RegisteredOnce'
<1> USE CodeRequests
<1>1. ASSUME \A e \in Emails : user[e] # "none" => user'[e] # "none",
             \A q \in Registers : OwnsRow(q)' => OwnsRow(q)
      PROVE  RowOwnedOnce'
  BY <1>1 DEF RowOwnedOnce
<1>2. ASSUME NEW q \in Issuing, Early(q)
      PROVE  RowOwnedOnce'
  <2>1. CASE asking[q].pc = "creating" /\ AskerGoes(q, "checking")
    <3>1. user[EmailOf[q]] = "none" /\ user' = [user EXCEPT ![EmailOf[q]] = "pending"] /\ q \in Registers
      BY <1>2, <2>1 DEF Early, AskerGoes
    <3>2. user'[EmailOf[q]] # "none" /\ \A e \in Emails : user[e] # "none" => user'[e] # "none"
      BY <3>1 DEF CodesTypeOK
    <3>3. \A r \in Registers : OwnsRow(r)' => r = q \/ OwnsRow(r)
      BY <2>1 DEF AskerGoes, OwnsRow
    <3>4. \A r \in Registers : OwnsRow(r) => EmailOf[r] # EmailOf[q]
      BY <3>1 DEF RowOwnedOnce
    <3>5. QED
      BY <3>2, <3>3, <3>4 DEF RowOwnedOnce
  <2>2. CASE ~(asking[q].pc = "creating" /\ AskerGoes(q, "checking"))
    <3>1. user' = user
      BY <1>2, <2>2 DEF Early
    <3>2. \A r \in Registers : OwnsRow(r)' => OwnsRow(r)
      BY <1>2, <2>2 DEF Early, AskerGoes, OwnsRow
    <3>3. QED
      BY <1>1, <3>1, <3>2
  <2>3. QED
    BY <2>1, <2>2
<1>3. ASSUME NEW q \in Issuing,
             \/ Takes(q) \/ GivesBack(q) \/ CountedIn(q) \/ SavesOne(q) \/ Mails(q) \/ Fails(q)
      PROVE  RowOwnedOnce'
  <2>1. user' = user
    BY <1>3 DEF Takes, GivesBack, CountedIn, SavesOne, Mails, Fails
  <2>2. \A r \in Registers : OwnsRow(r)' => OwnsRow(r)
    BY <1>3 DEF Takes, GivesBack, CountedIn, SavesOne, Mails, Fails, AskerGoes, OwnsRow
  <2>3. QED
    BY <1>1, <2>1, <2>2
<1>4. ASSUME IssuersRest \/ DayEnds \/ \E a \in Emails \cup {Ip} : CooldownEnds(a)
      PROVE  RowOwnedOnce'
  <2>1. \A e \in Emails : user[e] # "none" => user'[e] # "none"
    BY <1>4 DEF IssuersRest, DayEnds, CooldownEnds, CodesTypeOK
  <2>2. \A r \in Registers : OwnsRow(r)' => OwnsRow(r)
    BY <1>4 DEF IssuersRest, DayEnds, CooldownEnds, OwnsRow
  <2>3. QED
    BY <1>1, <2>1, <2>2
<1>5. RowOwnedOnce'
  BY <1>2, <1>3, <1>4 DEF KeyStep
<1>6. QED
  BY <1>5 DEF RowOwnedOnce, RegisteredOnce, OwnsRow

-----------------------------------------------------------------------------
(* The steps, by what they do to codes and guesses: a code is saved, a     *)
(* guess is presented, consumed in one step, read, deleted or written      *)
(* back; a code expires; or a request goes on that touches none of them.   *)
InHand == Missing \cup {"deleting"}
Used == {"activating", "answered"}

CodesRest ==
  /\ asking' \in [Asking -> AskingState]
  /\ UNCHANGED <<code, latest, wrong, crossed>>
  /\ \A q \in Issuing :
       /\ Unsaved(q)' => Unsaved(q)
       /\ asking[q].pc \in Done => asking'[q].pc \in Done
       /\ mail'[q] # "none" => mail[q] # "none" \/ asking'[q].pc \in Done
       /\ mail[q] = "sent" => mail'[q] = "sent"
  /\ \A g \in Verifies :
       /\ asking'[g].held = asking[g].held /\ asking'[g].guess = asking[g].guess
       /\ asking'[g].pc \in Missing => asking[g].pc \in Missing
       /\ asking'[g].pc \in InHand => asking[g].pc \in InHand
       /\ asking'[g].pc \in Used => asking[g].pc \in Used

SavesCode(q) ==
  /\ AskerGoes(q, "mailing") /\ asking[q].pc \in {"checking", "saving"}
  /\ code' = [code EXCEPT ![EmailOf[q]] = NewCode(q)]
  /\ latest' = [latest EXCEPT ![EmailOf[q]] = q]
  /\ mail' = mail /\ wrong' = wrong /\ crossed \subseteq crossed' /\ crossed' \subseteq Emails
  /\ \/ EmailOf[q] \in crossed'
     \/ \A g \in Verifies : EmailOf[g] = EmailOf[q] => asking[g].pc \notin Missing

Presents(g) ==
  /\ asking[g].pc = "start" /\ asking' \in [Asking -> AskingState]
  /\ asking'[g].pc \in {"consuming", "refused"} /\ asking'[g].held = asking[g].held
  /\ asking'[g].guess \in Inbox(EmailOf[g]) \cup {NoCode}
  /\ \A r \in Asking : r # g => asking'[r] = asking[r]
  /\ UNCHANGED <<code, mail, latest, wrong, crossed>>

Hits(g) ==
  /\ asking[g].pc = "consuming" /\ store = "memory" /\ AskerGoes(g, "activating")
  /\ Matches(g, code[EmailOf[g]])
  /\ code' = [code EXCEPT ![EmailOf[g]] = Absent]
  /\ UNCHANGED <<mail, latest, wrong, crossed>>

Misses(g) ==
  /\ asking[g].pc = "consuming" /\ store = "memory" /\ AskerGoes(g, "refused")
  /\ code' = [code EXCEPT ![EmailOf[g]] = AfterMiss(code[EmailOf[g]])]
  /\ NoteMiss(code[EmailOf[g]])
  /\ UNCHANGED <<mail, latest, crossed>>

Reads(g) ==
  LET e == EmailOf[g]
  IN  /\ asking[g].pc = "consuming" /\ store = "redis"
      /\ asking' \in [Asking -> AskingState]
      /\ asking'[g].held = code[e] /\ asking'[g].guess = asking[g].guess
      /\ asking'[g].pc \in {"refused", "deleting", "missed"}
      /\ asking'[g].pc = "deleting" => Matches(g, code[e])
      /\ asking'[g].pc = "missed" => code[e] # Absent
      /\ \A r \in Asking : r # g => asking'[r] = asking[r]
      /\ crossed \subseteq crossed' /\ crossed' \subseteq Emails
      /\ \/ e \in crossed'
         \/ \A h \in Verifies : h # g /\ EmailOf[h] = e => asking[h].pc \notin InHand
      /\ UNCHANGED <<code, mail, latest, wrong>>

Deletes(g) ==
  /\ asking[g].pc = "deleting" /\ AskerGoes(g, "activating")
  /\ code' = [code EXCEPT ![EmailOf[g]] = Absent]
  /\ UNCHANGED <<mail, latest, wrong, crossed>>

Writes(g) ==
  /\ asking[g].pc \in {"writing", "voiding"} /\ AskerGoes(g, "refused")
  /\ \E c \in {AfterMiss(asking[g].held), Absent} : code' = [code EXCEPT ![EmailOf[g]] = c]
  /\ NoteMiss(asking[g].held)
  /\ UNCHANGED <<mail, latest, crossed>>

Expires(e) ==
  /\ code' = [code EXCEPT ![e] = Absent]
  /\ UNCHANGED <<mail, asking, latest, wrong, crossed>>

CodeStep ==
  \/ CodesRest
  \/ \E q \in Issuing : SavesCode(q)
  \/ \E g \in Verifies :
       Presents(g) \/ Hits(g) \/ Misses(g) \/ Reads(g) \/ Deletes(g) \/ Writes(g)
  \/ \E e \in Emails : Expires(e)

(* A request whose own step leaves the codes alone.                        *)
LEMMA IssuerRests ==
  ASSUME CodesTypeOK, CodesKnown, NEW q \in Issuing, NEW to, AskerGoes(q, to),
         UNCHANGED <<code, latest, wrong, crossed>>,
         asking[q].pc \notin Done, to \in Done \/ Unsaved(q),
         mail' = mail \/ (to \in Done /\ mail' = [mail EXCEPT ![q] = "queued"])
  PROVE  CodesRest
<1>1. ASSUME NEW r \in Issuing
      PROVE  /\ Unsaved(r)' => Unsaved(r)
             /\ asking[r].pc \in Done => asking'[r].pc \in Done
             /\ mail'[r] # "none" => mail[r] # "none" \/ asking'[r].pc \in Done
             /\ mail[r] = "sent" => mail'[r] = "sent"
  <2>1. CASE r # q
    <3>1. asking'[r] = asking[r] /\ mail'[r] = mail[r]
      BY <2>1, CodeRequests DEF AskerGoes, CodesTypeOK
    <3>2. QED
      BY <3>1 DEF Unsaved
  <2>2. CASE r = q
    <3>1. asking'[r].pc = to /\ mail[r] = "none"
      BY <2>2 DEF AskerGoes, CodesKnown
    <3>2. Unsaved(r)' => Unsaved(r)
      BY <2>2, <3>1 DEF Unsaved, Done
    <3>3. QED
      BY <2>2, <3>1, <3>2
  <2>3. QED
    BY <2>1, <2>2
<1>2. \A g \in Verifies : asking'[g] = asking[g]
  BY CodeRequests DEF AskerGoes
<1>3. QED
  BY <1>1, <1>2 DEF CodesRest, AskerGoes

LEMMA VerifierRests ==
  ASSUME CodesTypeOK, NEW g \in Verifies, NEW to, AskerGoes(g, to),
         UNCHANGED <<code, latest, wrong, crossed, mail>>,
         \/ to \in {"refused", "failed"}
         \/ asking[g].pc \in Missing /\ to \in Missing
         \/ asking[g].pc \in Used /\ to \in Used
  PROVE  CodesRest
<1>1. \A q \in Issuing : asking'[q] = asking[q]
  BY CodeRequests DEF AskerGoes
<1>2. ASSUME NEW h \in Verifies
      PROVE  /\ asking'[h].held = asking[h].held /\ asking'[h].guess = asking[h].guess
             /\ asking'[h].pc \in Missing => asking[h].pc \in Missing
             /\ asking'[h].pc \in InHand => asking[h].pc \in InHand
             /\ asking'[h].pc \in Used => asking[h].pc \in Used
  <2>1. CASE h # g
    BY <2>1, CodeRequests DEF AskerGoes
  <2>2. CASE h = g
    BY <2>2 DEF AskerGoes, Missing, InHand, Used
  <2>3. QED
    BY <2>1, <2>2
<1>3. QED
  BY <1>1, <1>2 DEF CodesRest, Unsaved, AskerGoes

LEMMA IssuerCodeSteps ==
  ASSUME CodesTypeOK, CodesKnown, OneStepInMemory, NEW q \in Issuing,
         \/ q \in Registers /\ (FindNoUser(q) \/ CreateUser(q))
         \/ q \in Resends /\ FindPending(q)
         \/ Issue(q)
  PROVE  CodesRest \/ SavesCode(q)
<1>q. q \in Asking /\ EmailOf[q] \in Emails
  BY CodeRequests
<1>1. ASSUME NEW from \in Steps, NEW to \in Steps, Moves(q, from, to), from \notin Done,
             to \in Done \/ from \in {"start", "creating", "checking", "emailKey", "ipKey",
                                     "counting", "saving"},
             UNCHANGED <<code, latest, wrong, crossed, mail>>
      PROVE  CodesRest
  BY <1>q, <1>1, MovesGoes, IssuerRests DEF Unsaved
<1>2. CASE q \in Registers /\ FindNoUser(q)
  BY <1>1, <1>2, StepsAre DEF FindNoUser, Done
<1>3. CASE q \in Registers /\ CreateUser(q)
  BY <1>1, <1>3, StepsAre DEF CreateUser, Done
<1>4. CASE q \in Resends /\ FindPending(q)
  BY <1>1, <1>4, StepsAre DEF FindPending, Done
<1>5. CASE IssueInMemory(q)
  <2>1. CASE WithinLimits(q)
    <3>1. /\ Moves(q, "checking", "mailing") /\ Save(q) /\ store = "memory"
          /\ UNCHANGED <<mail, wrong, crossed>>
      BY <1>5, <2>1 DEF IssueInMemory
    <3>2. asking[q].pc = "checking" /\ AskerGoes(q, "mailing")
      BY <1>q, <3>1, MovesGoes, StepsAre
    <3>3. \A g \in Verifies : asking[g].pc \notin Missing
      BY <3>1, CodeRequests DEF OneStepInMemory
    <3>4. QED
      BY <3>1, <3>2, <3>3 DEF SavesCode, Save, CodesTypeOK
  <2>2. CASE ~WithinLimits(q)
    BY <1>1, <1>5, <2>2, StepsAre DEF IssueInMemory, Done
  <2>3. QED
    BY <2>1, <2>2
<1>6. CASE CheckLimits(q)
  BY <1>1, <1>6, StepsAre DEF CheckLimits, Done
<1>7. CASE TakeEmailKey(q)
  BY <1>1, <1>7, StepsAre DEF TakeEmailKey, Done
<1>8. CASE TakeIpKey(q)
  BY <1>1, <1>8, StepsAre DEF TakeIpKey, Done
<1>9. CASE CheckCounts(q)
  BY <1>1, <1>9, StepsAre DEF CheckCounts, Done
<1>10. CASE SaveCode(q)
  <2>1. asking[q].pc = "saving" /\ AskerGoes(q, "mailing")
    BY <1>q, <1>10, MovesGoes, StepsAre DEF SaveCode
  <2>2. /\ crossed \subseteq crossed' /\ crossed' \subseteq Emails
        /\ \/ EmailOf[q] \in crossed'
           \/ \A g \in Verifies : EmailOf[g] = EmailOf[q] => asking[g].pc \notin Missing
    BY <1>q, <1>10 DEF SaveCode, CodesTypeOK
  <2>3. QED
    BY <1>10, <2>1, <2>2 DEF SaveCode, Save, SavesCode
<1>11. CASE QueueMail(q)
  <2>1. CASE mail' = mail
    <3>1. CASE Moves(q, "mailing", "answered")
      BY <1>1, <1>11, <2>1, <3>1, StepsAre DEF QueueMail, Done
    <3>2. CASE Moves(q, "mailing", "failed")
      BY <1>1, <1>11, <2>1, <3>2, StepsAre DEF QueueMail, Done
    <3>3. QED
      BY <1>11, <3>1, <3>2 DEF QueueMail
  <2>2. CASE mail' # mail
    <3>1. Moves(q, "mailing", "answered") /\ mail' = [mail EXCEPT ![q] = "queued"]
      BY <1>11, <2>2 DEF QueueMail
    <3>2. asking[q].pc = "mailing" /\ AskerGoes(q, "answered")
      BY <1>q, <3>1, MovesGoes, StepsAre
    <3>3. QED
      BY <1>11, <3>1, <3>2, IssuerRests DEF QueueMail, Done
  <2>3. QED
    BY <2>1, <2>2
<1>12. QED
  BY <1>2, <1>3, <1>4, <1>5, <1>6, <1>7, <1>8, <1>9, <1>10, <1>11 DEF Issue

LEMMA VerifierCodeSteps ==
  ASSUME CodesTypeOK, CodesKnown, NEW g \in Verifies,
         PresentCode(g) \/ Consume(g) \/ Activate(g)
  PROVE  \/ CodesRest \/ Presents(g) \/ Hits(g) \/ Misses(g) \/ Reads(g)
         \/ Deletes(g) \/ Writes(g)
<1>q. /\ g \in Asking /\ EmailOf[g] \in Emails /\ asking \in [Asking -> AskingState]
      /\ asking[g] \in AskingState /\ code[EmailOf[g]] \in Code
  BY CodeRequests DEF CodesTypeOK
<1>1. CASE PresentCode(g)
  <2>1. PICK guess \in Inbox(EmailOf[g]) \cup {NoCode} :
          asking' = [asking EXCEPT
            ![g].pc = IF user[EmailOf[g]] = "pending" THEN "consuming" ELSE "refused",
            ![g].guess = guess]
    BY <1>1 DEF PresentCode
  <2>2. guess \in Issuing \cup {NoCode}
    BY DEF Inbox
  <2>3. PICK pc \in {"consuming", "refused"} :
          asking' = [asking EXCEPT ![g].pc = pc, ![g].guess = guess]
    BY <2>1
  <2>4. DEFINE next == [[asking[g] EXCEPT !.pc = pc] EXCEPT !.guess = guess]
  <2>5. /\ next \in AskingState /\ next.pc = pc /\ next.guess = guess
        /\ next.held = asking[g].held /\ next.late = asking[g].late
    BY <1>q, <2>2, StepsAre DEF AskingState
  <2>6. asking' = [asking EXCEPT ![g] = next]
    BY <1>q, <2>3
  <2>7. /\ asking' \in [Asking -> AskingState] /\ asking'[g] = next
        /\ \A r \in Asking : r # g => asking'[r] = asking[r]
    <3> HIDE DEF next
    <3>1. QED
      BY <1>q, <2>5, <2>6
  <2>8. QED
    BY <1>1, <2>5, <2>7 DEF PresentCode, Presents
<1>2. CASE ConsumeInMemory(g)
  <2>1. CASE Matches(g, code[EmailOf[g]])
    BY <1>q, <1>2, <2>1, MovesGoes, StepsAre DEF ConsumeInMemory, Hits
  <2>2. CASE ~Matches(g, code[EmailOf[g]])
    BY <1>q, <1>2, <2>2, MovesGoes, StepsAre DEF ConsumeInMemory, Misses
  <2>3. QED
    BY <2>1, <2>2
<1>3. CASE GetCode(g)
  <2>1. PICK pc \in {"refused", "deleting", "missed"} :
          /\ asking' = [asking EXCEPT ![g].held = code[EmailOf[g]], ![g].pc = pc]
          /\ pc = "deleting" => Matches(g, code[EmailOf[g]])
          /\ pc = "missed" => code[EmailOf[g]] # Absent
    BY <1>3 DEF GetCode
  <2>2. DEFINE next == [[asking[g] EXCEPT !.held = code[EmailOf[g]]] EXCEPT !.pc = pc]
  <2>3. /\ next \in AskingState /\ next.pc = pc /\ next.guess = asking[g].guess
        /\ next.held = code[EmailOf[g]]
    BY <1>q, StepsAre DEF AskingState
  <2>4. asking' = [asking EXCEPT ![g] = next]
    BY <1>q, <2>1
  <2>5. /\ asking' \in [Asking -> AskingState] /\ asking'[g] = next
        /\ \A r \in Asking : r # g => asking'[r] = asking[r]
    <3> HIDE DEF next
    <3>1. QED
      BY <1>q, <2>3, <2>4
  <2>6. /\ crossed \subseteq crossed' /\ crossed' \subseteq Emails
        /\ \/ EmailOf[g] \in crossed'
           \/ \A h \in Verifies : h # g /\ EmailOf[h] = EmailOf[g] => asking[h].pc \notin InHand
    BY <1>q, <1>3 DEF GetCode, CodesTypeOK, InHand
  <2>7. QED
    BY <1>3, <2>1, <2>3, <2>5, <2>6 DEF GetCode, Reads
<1>4. CASE DeleteUsed(g)
  BY <1>q, <1>4, MovesGoes, StepsAre DEF DeleteUsed, Deletes
<1>5. CASE ReadTtl(g)
  <2>1. PICK to \in {"writing", "voiding"} : Moves(g, "missed", to)
    BY <1>5 DEF ReadTtl
  <2>2. asking[g].pc = "missed" /\ AskerGoes(g, to)
    BY <1>q, <2>1, MovesGoes, StepsAre
  <2>3. QED
    BY <1>5, <2>2, VerifierRests DEF ReadTtl, Missing
<1>6. CASE WriteBack(g)
  BY <1>q, <1>6, MovesGoes, StepsAre DEF WriteBack, Writes
<1>7. CASE Activate(g)
  <2>1. asking[g].pc = "activating" /\ AskerGoes(g, "answered")
    BY <1>q, <1>7, MovesGoes, StepsAre DEF Activate
  <2>2. QED
    BY <1>7, <2>1, VerifierRests DEF Activate, Used
<1>8. QED
  BY <1>1, <1>2, <1>3, <1>4, <1>5, <1>6, <1>7 DEF Consume

LEMMA CodeSteps ==
  ASSUME CodesTypeOK, CodesKnown, OneStepInMemory, CodesNext
  PROVE  CodeStep
<1>1. CASE \E q \in Registers : FindNoUser(q) \/ CreateUser(q)
  BY <1>1, IssuerCodeSteps, CodeRequests DEF CodeStep
<1>2. CASE \E q \in Resends : FindPending(q)
  BY <1>2, IssuerCodeSteps, CodeRequests DEF CodeStep
<1>3. CASE \E q \in Issuing : Issue(q)
  BY <1>3, IssuerCodeSteps DEF CodeStep
<1>4. CASE \E q \in Issuing : SendMail(q)
  <2>1. PICK q \in Issuing : SendMail(q)
    BY <1>4
  <2>2. \A r \in Issuing : mail[r] = "sent" => mail'[r] = "sent"
    BY <2>1 DEF SendMail, CodesTypeOK
  <2>3. \A r \in Issuing : mail'[r] # "none" => mail[r] # "none"
    BY <2>1 DEF SendMail, CodesTypeOK
  <2>4. UNCHANGED <<asking, code, latest, wrong, crossed>>
    BY <2>1 DEF SendMail
  <2>5. QED
    BY <2>2, <2>3, <2>4 DEF CodesRest, CodeStep, Unsaved, CodesTypeOK
<1>5. CASE \E g \in Verifies : PresentCode(g) \/ Consume(g) \/ Activate(g)
  BY <1>5, VerifierCodeSteps DEF CodeStep
<1>6. CASE \E q \in Asking : Interrupt(q)
  <2>1. PICK q \in Asking : Interrupt(q)
    BY <1>6
  <2>2. /\ asking[q].pc \notin Done \cup {"start"} /\ Moves(q, asking[q].pc, "failed")
        /\ UNCHANGED <<code, latest, wrong, crossed, mail>>
    BY <2>1 DEF Interrupt, Moves
  <2>3. AskerGoes(q, "failed")
    BY <2>2, MovesGoes, StepsAre
  <2>4. CASE q \in Issuing
    BY <2>2, <2>3, <2>4, IssuerRests DEF CodeStep, Done
  <2>5. CASE q \in Verifies
    BY <2>2, <2>3, <2>5, VerifierRests DEF CodeStep
  <2>6. QED
    BY <2>4, <2>5 DEF Asking
<1>7. CASE \E e \in Emails : CodeExpires(e)
  BY <1>7 DEF CodeExpires, CodeStep, Expires
<1>8. CASE \E a \in Emails \cup {Ip} : CooldownEnds(a)
  BY <1>8 DEF CooldownEnds, CodesRest, CodeStep, Unsaved, CodesTypeOK
<1>9. CASE Midnight
  <2>1. /\ asking' \in [Asking -> AskingState]
        /\ \A q \in Asking : /\ asking'[q].pc = asking[q].pc /\ asking'[q].guess = asking[q].guess
                             /\ asking'[q].held = asking[q].held
    BY <1>9, MidnightStep DEF DayEnds
  <2>2. UNCHANGED <<code, latest, wrong, crossed, mail>>
    BY <1>9 DEF Midnight
  <2>3. QED
    BY <2>1, <2>2, CodeRequests DEF CodesRest, CodeStep, Unsaved
<1>10. QED
  BY <1>1, <1>2, <1>3, <1>4, <1>5, <1>6, <1>7, <1>8, <1>9 DEF CodesNext

-----------------------------------------------------------------------------
(* Codes and guesses under each step.                                      *)

(* What a code that is known in this state must be to be known in the next. *)
KnownNext(stored, e) ==
  stored # Absent => EmailOf[stored.of] = e /\ asking'[stored.of].pc \notin
    {"start", "creating", "checking", "emailKey", "ipKey", "counting", "saving"}

LEMMA StaysKnown ==
  ASSUME NEW stored \in Code, NEW e, KnownFor(stored, e),
         \A q \in Issuing : Unsaved(q)' => Unsaved(q)
  PROVE  KnownNext(stored, e) /\ KnownNext(AfterMiss(stored), e)
<1>1. stored # Absent => stored.of \in Issuing
  BY CodesAre
<1>2. AfterMiss(stored) # Absent => stored # Absent /\ AfterMiss(stored).of = stored.of
  BY MissedCode
<1>3. QED
  BY <1>1, <1>2 DEF KnownFor, KnownNext, Unsaved

(* The count of what is missed goes up for a code that has been saved.     *)
LEMMA MissNoted ==
  ASSUME CodesTypeOK, NEW stored \in Code, NoteMiss(stored)
  PROVE  /\ wrong' \in [Issuing -> Nat]
         /\ \A c \in Issuing : (stored = Absent \/ c # stored.of) => wrong'[c] = wrong[c]
         /\ stored # Absent => wrong[stored.of] \in Nat /\ wrong'[stored.of] = wrong[stored.of] + 1
<1>1. CASE stored = Absent
  <2>1. wrong' = wrong
    BY <1>1 DEF NoteMiss, Absent
  <2>2. QED
    BY <1>1, <2>1 DEF CodesTypeOK
<1>2. CASE stored # Absent
  <2>1. stored.of \in Issuing /\ stored.of # NoCode
    BY <1>2, CodesAre
  <2>2. wrong' = [wrong EXCEPT ![stored.of] = wrong[stored.of] + 1] /\ wrong \in [Issuing -> Nat]
    BY <2>1 DEF NoteMiss, CodesTypeOK
  <2>3. QED
    BY <1>2, <2>1, <2>2
<1>3. QED
  BY <1>1, <1>2

LEMMA KnownStep ==
  ASSUME CodesTypeOK, CodesTypeOK', CodesKnown, CodeStep
  PROVE  CodesKnown'
<1> USE CodeRequests
<1>t. /\ \A e \in Emails : code[e] \in Code /\ code'[e] \in Code
      /\ \A g \in Verifies : /\ asking[g].held \in Code /\ asking[g].guess \in Issuing \cup {NoCode}
                             /\ g \in Asking /\ EmailOf[g] \in Emails
      /\ code \in [Emails -> Code] /\ mail \in [Issuing -> {"none", "queued", "sent", "lost"}]
      /\ wrong \in [Issuing -> Nat]
  BY DEF CodesTypeOK, AskingState
<1>1. ASSUME \A q \in Issuing : Unsaved(q)' => Unsaved(q) /\ wrong'[q] = wrong[q],
             \A q \in Issuing : /\ asking[q].pc \in Done => asking'[q].pc \in Done
                                /\ mail'[q] # "none" => mail[q] # "none" \/ asking'[q].pc \in Done
                                /\ mail[q] = "sent" => mail'[q] = "sent",
             \A e \in Emails : KnownNext(code'[e], e),
             \A g \in Verifies : KnownNext(asking'[g].held, EmailOf[g]),
             \A g \in Verifies : asking'[g].guess = asking[g].guess \/ asking'[g].guess = NoCode
                \/ (/\ asking'[g].guess \in Issuing /\ mail[asking'[g].guess] = "sent"
                     /\ EmailOf[asking'[g].guess] = EmailOf[g])
      PROVE  CodesKnown'
  <2>1. \A q \in Issuing : Unsaved(q)' => wrong'[q] = 0
    BY <1>1 DEF CodesKnown
  <2>2. \A q \in Issuing : mail'[q] # "none" => asking'[q].pc \in Done
    BY <1>1 DEF CodesKnown
  <2>3. \A g \in Verifies : asking'[g].guess # NoCode =>
          mail'[asking'[g].guess] = "sent" /\ EmailOf[asking'[g].guess] = EmailOf[g]
    BY <1>1, <1>t DEF CodesKnown
  <2>4. \A e \in Emails : KnownFor(code[e], e)'
    BY <1>1 DEF KnownNext, KnownFor, Unsaved
  <2>5. \A g \in Verifies : KnownFor(asking[g].held, EmailOf[g])'
    BY <1>1 DEF KnownNext, KnownFor, Unsaved
  <2>6. QED
    BY <2>1, <2>2, <2>3, <2>4, <2>5 DEF CodesKnown
<1>2. ASSUME \A q \in Issuing : Unsaved(q)' => Unsaved(q)
      PROVE  /\ \A e \in Emails : KnownNext(code[e], e) /\ KnownNext(AfterMiss(code[e]), e)
             /\ \A g \in Verifies : /\ KnownNext(asking[g].held, EmailOf[g])
                                    /\ KnownNext(AfterMiss(asking[g].held), EmailOf[g])
  BY <1>2, <1>t, StaysKnown DEF CodesKnown
<1>3. \A e : KnownNext(Absent, e)
  BY DEF KnownNext
<1>4. CASE CodesRest
  <2>1. \A q \in Issuing : Unsaved(q)' => Unsaved(q) /\ wrong'[q] = wrong[q]
    BY <1>4 DEF CodesRest
  <2>2. \A e \in Emails : KnownNext(code'[e], e)
    BY <1>2, <1>4, <2>1 DEF CodesRest
  <2>3. \A g \in Verifies : KnownNext(asking'[g].held, EmailOf[g])
    BY <1>2, <1>4, <2>1 DEF CodesRest
  <2>4. QED
    BY <1>1, <1>4, <2>1, <2>2, <2>3 DEF CodesRest
<1>5. ASSUME NEW q \in Issuing, SavesCode(q)
      PROVE  CodesKnown'
  <2>1. /\ \A r \in Issuing : Unsaved(r)' => Unsaved(r) /\ wrong'[r] = wrong[r]
        /\ asking'[q].pc = "mailing" /\ mail' = mail
        /\ \A g \in Verifies : asking'[g] = asking[g]
    BY <1>5 DEF SavesCode, AskerGoes, Unsaved
  <2>2. \A r \in Issuing : asking[r].pc \in Done => asking'[r].pc \in Done
    BY <1>5 DEF SavesCode, AskerGoes, Done
  <2>3. ASSUME NEW e \in Emails
        PROVE  KnownNext(code'[e], e)
    <3>1. CASE e = EmailOf[q]
      <4>1. code'[e] = NewCode(q) /\ NewCode(q).of = q
        BY <1>5, <1>t, <3>1, CodesAre DEF SavesCode
      <4>2. QED
        BY <2>1, <3>1, <4>1 DEF KnownNext
    <3>2. CASE e # EmailOf[q]
      BY <1>2, <1>5, <1>t, <2>1, <3>2 DEF SavesCode
    <3>3. QED
      BY <3>1, <3>2
  <2>4. \A g \in Verifies : KnownNext(asking'[g].held, EmailOf[g])
    BY <1>2, <2>1
  <2>5. QED
    BY <1>1, <2>1, <2>2, <2>3, <2>4
<1>6. ASSUME NEW g \in Verifies, \A r \in Asking : r # g => asking'[r] = asking[r], mail' = mail,
             \A q \in Issuing : Unsaved(q) => wrong'[q] = wrong[q],
             \A e \in Emails : e # EmailOf[g] => code'[e] = code[e],
             code'[EmailOf[g]] \in {code[EmailOf[g]], AfterMiss(code[EmailOf[g]]),
                                   AfterMiss(asking[g].held), Absent},
             asking'[g].held \in {asking[g].held, code[EmailOf[g]]},
             \/ asking'[g].guess = asking[g].guess
             \/ asking'[g].guess \in Inbox(EmailOf[g]) \cup {NoCode}
      PROVE  CodesKnown'
  <2>1. \A q \in Issuing : asking'[q] = asking[q]
    BY <1>6
  <2>2. \A q \in Issuing : Unsaved(q)' => Unsaved(q) /\ wrong'[q] = wrong[q]
    BY <1>6, <2>1 DEF Unsaved
  <2>3. \A e \in Emails : KnownNext(code'[e], e)
    BY <1>2, <1>3, <1>6, <1>t, <2>2
  <2>4. \A h \in Verifies : KnownNext(asking'[h].held, EmailOf[h])
    BY <1>2, <1>6, <1>t, <2>2
  <2>5. ASSUME NEW h \in Verifies
        PROVE  asking'[h].guess = asking[h].guess \/ asking'[h].guess = NoCode
                \/ (/\ asking'[h].guess \in Issuing /\ mail[asking'[h].guess] = "sent"
                     /\ EmailOf[asking'[h].guess] = EmailOf[h])
    <3>1. CASE h # g
      BY <1>6, <3>1
    <3>2. CASE h = g
      BY <1>6, <3>2, Zenon DEF Inbox
    <3>3. QED
      BY <3>1, <3>2
  <2>6. QED
    BY <1>1, <1>6, <2>1, <2>2, <2>3, <2>4, <2>5
<1>7. ASSUME NEW g \in Verifies, Presents(g) \/ Hits(g) \/ Reads(g) \/ Deletes(g)
      PROVE  CodesKnown'
  <2>1. /\ \A r \in Asking : r # g => asking'[r] = asking[r]
        /\ mail' = mail /\ wrong' = wrong
    BY <1>7 DEF Presents, Hits, Reads, Deletes, AskerGoes
  <2>2. /\ \A e \in Emails : e # EmailOf[g] => code'[e] = code[e]
        /\ code'[EmailOf[g]] \in {code[EmailOf[g]], Absent}
    BY <1>7, <1>t DEF Presents, Hits, Reads, Deletes
  <2>3. /\ asking'[g].held \in {asking[g].held, code[EmailOf[g]]}
        /\ asking'[g].guess = asking[g].guess \/ asking'[g].guess \in Inbox(EmailOf[g]) \cup {NoCode}
    BY <1>7 DEF Presents, Hits, Reads, Deletes, AskerGoes
  <2>4. QED
    BY <1>6, <2>1, <2>2, <2>3
<1>8. ASSUME NEW g \in Verifies, NEW stored \in {code[EmailOf[g]], asking[g].held},
             NoteMiss(stored), Misses(g) \/ Writes(g)
      PROVE  CodesKnown'
  <2>1. /\ \A r \in Asking : r # g => asking'[r] = asking[r]
        /\ mail' = mail
        /\ asking'[g].held = asking[g].held /\ asking'[g].guess = asking[g].guess
    BY <1>8 DEF Misses, Writes, AskerGoes
  <2>2. KnownFor(stored, EmailOf[g]) /\ stored \in Code
    BY <1>8, <1>t DEF CodesKnown
  <2>3. \A q \in Issuing : Unsaved(q) => wrong'[q] = wrong[q]
    BY <1>8, <2>2, MissNoted DEF KnownFor
  <2>4. /\ \A e \in Emails : e # EmailOf[g] => code'[e] = code[e]
        /\ code'[EmailOf[g]] \in {AfterMiss(code[EmailOf[g]]), AfterMiss(asking[g].held), Absent}
    BY <1>8, <1>t DEF Misses, Writes
  <2>5. QED
    BY <1>6, <2>1, <2>3, <2>4
<1>9. ASSUME NEW e \in Emails, Expires(e)
      PROVE  CodesKnown'
  <2>1. \A q \in Issuing : Unsaved(q)' => Unsaved(q) /\ wrong'[q] = wrong[q]
    BY <1>9 DEF Expires, Unsaved
  <2>2. \A f \in Emails : KnownNext(code'[f], f)
    BY <1>2, <1>3, <1>9, <1>t, <2>1 DEF Expires
  <2>3. QED
    BY <1>1, <1>2, <1>9, <2>1, <2>2 DEF Expires
<1>10. QED
  BY <1>4, <1>5, <1>7, <1>8, <1>9 DEF CodeStep, Misses, Writes

(* What a code that is fresh in this state must be to be fresh in the next. *)
FreshNext(stored, e) ==
  stored # Absent =>
    /\ stored.of = latest'[e]
    /\ stored.left + wrong'[stored.of] = MaxAttempts
    /\ \A h \in Verifies : asking'[h].guess = stored.of => asking'[h].pc \notin Used

LEMMA StaysFresh ==
  ASSUME NEW stored \in Code, NEW e, Fresh(stored, e), latest'[e] = latest[e],
         stored # Absent => wrong'[stored.of] = wrong[stored.of],
         \A h \in Verifies :
           stored # Absent /\ asking'[h].guess = stored.of /\ asking'[h].pc \in Used =>
             asking[h].guess = stored.of /\ asking[h].pc \in Used
  PROVE  FreshNext(stored, e)
BY DEF Fresh, FreshNext, Used

LEMMA MissedStaysFresh ==
  ASSUME CodesTypeOK, NEW stored \in Code, NEW e, Fresh(stored, e), latest'[e] = latest[e],
         NoteMiss(stored),
         \A h \in Verifies : asking'[h].guess = asking[h].guess
                             /\ (asking'[h].pc \in Used => asking[h].pc \in Used)
  PROVE  FreshNext(AfterMiss(stored), e)
<1> SUFFICES ASSUME AfterMiss(stored) # Absent PROVE FreshNext(AfterMiss(stored), e)
  BY DEF FreshNext
<1>1. /\ stored # Absent /\ AfterMiss(stored).of = stored.of
      /\ stored.left \in Nat /\ AfterMiss(stored).left \in Nat
      /\ AfterMiss(stored).left + 1 = stored.left
  BY MissedCode
<1>2. wrong[stored.of] \in Nat /\ wrong'[stored.of] = wrong[stored.of] + 1
  BY <1>1, MissNoted
<1>3. stored.of = latest[e] /\ stored.left + wrong[stored.of] = MaxAttempts
  BY <1>1 DEF Fresh
<1>4. AfterMiss(stored).left + wrong'[stored.of] = MaxAttempts
  BY <1>1, <1>2, <1>3, CodeRequests
<1>5. \A h \in Verifies : asking'[h].guess = stored.of => asking'[h].pc \notin Used
  BY <1>1 DEF Fresh, Used
<1>6. QED
  BY <1>1, <1>3, <1>4, <1>5 DEF FreshNext

LEMMA FreshAssembled ==
  ASSUME \A e \in Emails : e \notin crossed' => FreshNext(code'[e], e),
         \A g \in Verifies : asking'[g].pc \in Missing /\ EmailOf[g] \notin crossed' =>
           /\ FreshNext(asking'[g].held, EmailOf[g])
           /\ code'[EmailOf[g]] \in {asking'[g].held, Absent},
         \A g, h \in Verifies :
           EmailOf[g] = EmailOf[h] /\ EmailOf[g] \notin crossed'
             /\ asking'[g].pc \in InHand /\ asking'[h].pc \in InHand => g = h
  PROVE  FreshUnlessCrossed'
<1>1. \A e \in Emails \ crossed' : Fresh(code[e], e)'
  BY DEF FreshNext, Fresh, Used
<1>2. \A g \in Verifies : asking'[g].pc \in Missing /\ EmailOf[g] \notin crossed' =>
         Fresh(asking[g].held, EmailOf[g])'
  BY DEF FreshNext, Fresh, Used
<1>3. QED
  BY <1>1, <1>2 DEF FreshUnlessCrossed, InHand

LEMMA FreshStep ==
  ASSUME CodesTypeOK, CodesTypeOK', OneStepInMemory, CodesKnown, FreshUnlessCrossed, CodeStep
  PROVE  FreshUnlessCrossed'
<1> USE CodeRequests
<1>t. /\ \A e \in Emails : code[e] \in Code
      /\ \A g \in Verifies : /\ asking[g].held \in Code /\ g \in Asking /\ EmailOf[g] \in Emails
      /\ code \in [Emails -> Code] /\ latest \in [Emails -> Issuing \cup {NoCode}]
  BY DEF CodesTypeOK, AskingState
(* What a code is known by keeps those of other addresses apart from it.   *)
<1>f. /\ \A e \in Emails \ crossed : Fresh(code[e], e) /\ KnownFor(code[e], e)
      /\ \A g \in Verifies : asking[g].pc \in Missing /\ EmailOf[g] \notin crossed =>
            /\ Fresh(asking[g].held, EmailOf[g]) /\ KnownFor(asking[g].held, EmailOf[g])
            /\ code[EmailOf[g]] \in {asking[g].held, Absent}
      /\ \A g, h \in Verifies :
            EmailOf[g] = EmailOf[h] /\ EmailOf[g] \notin crossed
              /\ asking[g].pc \in InHand /\ asking[h].pc \in InHand => g = h
  BY DEF FreshUnlessCrossed, CodesKnown, InHand
<1>h. \A pc : pc \in Missing => pc \in InHand
  BY DEF InHand
<1>a. \A e : FreshNext(Absent, e)
  BY DEF FreshNext
<1>1. CASE CodesRest
  <2>1. ASSUME NEW stored \in Code, NEW e, Fresh(stored, e)
        PROVE  FreshNext(stored, e)
    BY <1>1, <2>1, StaysFresh DEF CodesRest
  <2>2. \A e \in Emails : e \notin crossed' => FreshNext(code'[e], e)
    BY <1>1, <1>t, <1>f, <2>1 DEF CodesRest
  <2>3. \A g \in Verifies : asking'[g].pc \in Missing /\ EmailOf[g] \notin crossed' =>
           /\ FreshNext(asking'[g].held, EmailOf[g])
           /\ code'[EmailOf[g]] \in {asking'[g].held, Absent}
    BY <1>1, <1>t, <1>f, <2>1 DEF CodesRest
  <2>4. \A g, h \in Verifies :
           EmailOf[g] = EmailOf[h] /\ EmailOf[g] \notin crossed'
             /\ asking'[g].pc \in InHand /\ asking'[h].pc \in InHand => g = h
    BY <1>1, <1>f DEF CodesRest
  <2>5. QED
    BY <2>2, <2>3, <2>4, FreshAssembled
<1>2. ASSUME NEW q \in Issuing, SavesCode(q)
      PROVE  FreshUnlessCrossed'
  <2>1. /\ \A g \in Verifies : asking'[g] = asking[g]
        /\ \A e : e \notin crossed' => e \notin crossed
        /\ wrong' = wrong /\ EmailOf[q] \in Emails
        /\ latest'[EmailOf[q]] = q /\ code'[EmailOf[q]] = NewCode(q)
        /\ \A e \in Emails : e # EmailOf[q] => latest'[e] = latest[e] /\ code'[e] = code[e]
    BY <1>2, <1>t DEF SavesCode, AskerGoes
  <2>2. FreshNext(NewCode(q), EmailOf[q])
    <3>1. wrong[q] = 0 /\ mail[q] # "sent"
      BY <1>2 DEF SavesCode, CodesKnown, Unsaved, Done
    <3>2. \A h \in Verifies : asking[h].guess # q
      BY <3>1 DEF CodesKnown
    <3>3. MaxAttempts + 0 = MaxAttempts
      OBVIOUS
    <3>4. QED
      BY <2>1, <3>1, <3>2, <3>3, CodesAre DEF FreshNext
  <2>3. ASSUME NEW stored \in Code, NEW e \in Emails, e # EmailOf[q], Fresh(stored, e)
        PROVE  FreshNext(stored, e)
    BY <2>1, <2>3, StaysFresh
  <2>4. \A e \in Emails : e \notin crossed' => FreshNext(code'[e], e)
    BY <1>t, <1>f, <2>1, <2>2, <2>3
  <2>5. \A g \in Verifies : asking'[g].pc \in Missing /\ EmailOf[g] \notin crossed' =>
           /\ FreshNext(asking'[g].held, EmailOf[g])
           /\ code'[EmailOf[g]] \in {asking'[g].held, Absent}
    <3>1. TAKE g \in Verifies
    <3>2. HAVE asking'[g].pc \in Missing /\ EmailOf[g] \notin crossed'
    <3>3. EmailOf[g] # EmailOf[q]
      BY <1>2, <2>1, <3>2 DEF SavesCode
    <3>4. QED
      BY <1>t, <1>f, <2>1, <2>3, <3>2, <3>3
  <2>6. \A g, h \in Verifies :
           EmailOf[g] = EmailOf[h] /\ EmailOf[g] \notin crossed'
             /\ asking'[g].pc \in InHand /\ asking'[h].pc \in InHand => g = h
    BY <1>f, <2>1
  <2>7. QED
    BY <2>4, <2>5, <2>6, FreshAssembled
<1>3. ASSUME NEW g \in Verifies, Presents(g)
      PROVE  FreshUnlessCrossed'
  <2>1. /\ \A h \in Verifies : h # g => asking'[h] = asking[h]
        /\ asking'[g].pc \notin InHand /\ asking'[g].pc \notin Used
        /\ UNCHANGED <<code, latest, wrong, crossed>>
    BY <1>3 DEF Presents, InHand, Missing, Used
  <2>2. ASSUME NEW stored \in Code, NEW e, Fresh(stored, e)
        PROVE  FreshNext(stored, e)
    BY <2>1, <2>2, StaysFresh
  <2>3. \A e \in Emails : e \notin crossed' => FreshNext(code'[e], e)
    BY <1>t, <1>f, <2>1, <2>2
  <2>4. \A h \in Verifies : asking'[h].pc \in Missing /\ EmailOf[h] \notin crossed' =>
           /\ FreshNext(asking'[h].held, EmailOf[h])
           /\ code'[EmailOf[h]] \in {asking'[h].held, Absent}
    BY <1>t, <1>f, <1>h, <2>1, <2>2
  <2>5. \A h, k \in Verifies :
           EmailOf[h] = EmailOf[k] /\ EmailOf[h] \notin crossed'
             /\ asking'[h].pc \in InHand /\ asking'[k].pc \in InHand => h = k
    BY <1>f, <2>1
  <2>6. QED
    BY <2>3, <2>4, <2>5, FreshAssembled
<1>4. ASSUME NEW g \in Verifies, Reads(g)
      PROVE  FreshUnlessCrossed'
  <2>1. /\ \A h \in Verifies : h # g => asking'[h] = asking[h]
        /\ asking'[g].pc \notin Used /\ asking'[g].held = code[EmailOf[g]]
        /\ UNCHANGED <<code, latest, wrong>> /\ \A e : e \notin crossed' => e \notin crossed
    BY <1>4 DEF Reads, Used
  <2>2. ASSUME NEW stored \in Code, NEW e, Fresh(stored, e)
        PROVE  FreshNext(stored, e)
    BY <2>1, <2>2, StaysFresh
  <2>3. \A e \in Emails : e \notin crossed' => FreshNext(code'[e], e)
    BY <1>t, <1>f, <2>1, <2>2
  <2>4. \A h \in Verifies : asking'[h].pc \in Missing /\ EmailOf[h] \notin crossed' =>
           /\ FreshNext(asking'[h].held, EmailOf[h])
           /\ code'[EmailOf[h]] \in {asking'[h].held, Absent}
    BY <1>t, <1>f, <2>1, <2>2
  <2>5. \A h, k \in Verifies :
           EmailOf[h] = EmailOf[k] /\ EmailOf[h] \notin crossed'
             /\ asking'[h].pc \in InHand /\ asking'[k].pc \in InHand => h = k
    BY <1>4, <1>f, <2>1 DEF Reads
  <2>6. QED
    BY <2>3, <2>4, <2>5, FreshAssembled
<1>5. ASSUME NEW g \in Verifies, Hits(g) \/ Deletes(g)
      PROVE  FreshUnlessCrossed'
  <2>1. /\ \A h \in Verifies : h # g => asking'[h] = asking[h]
        /\ asking'[g].pc \notin InHand /\ asking'[g].guess = asking[g].guess
        /\ UNCHANGED <<latest, wrong, crossed>>
        /\ code'[EmailOf[g]] = Absent
        /\ \A e \in Emails : e # EmailOf[g] => code'[e] = code[e]
    BY <1>5, <1>t DEF Hits, Deletes, AskerGoes, InHand, Missing
  <2>2. ASSUME NEW stored \in Code, NEW e, Fresh(stored, e), KnownFor(stored, e), e # EmailOf[g]
        PROVE  FreshNext(stored, e)
    <3>1. stored # Absent => asking[g].guess # stored.of
      <4>1. stored # Absent => stored.of \in Issuing /\ EmailOf[stored.of] = e
        BY <2>2, CodesAre DEF KnownFor
      <4>2. asking[g].guess # NoCode => EmailOf[asking[g].guess] = EmailOf[g]
        BY DEF CodesKnown
      <4>3. QED
        BY <2>2, <4>1, <4>2
    <3>2. QED
      BY <2>1, <2>2, <3>1, StaysFresh
  <2>3. \A h \in Verifies : h # g /\ asking[h].pc \in Missing /\ EmailOf[h] \notin crossed =>
          EmailOf[h] # EmailOf[g]
    <3>1. CASE Hits(g)
      BY <3>1 DEF Hits, OneStepInMemory
    <3>2. CASE Deletes(g)
      <4>1. asking[g].pc \in InHand
        BY <3>2 DEF Deletes, InHand
      <4>2. QED
        BY <1>f, <1>h, <4>1
    <3>3. QED
      BY <1>5, <3>1, <3>2
  <2>4. \A e \in Emails : e \notin crossed' => FreshNext(code'[e], e)
    BY <1>a, <1>t, <1>f, <2>1, <2>2
  <2>5. \A h \in Verifies : asking'[h].pc \in Missing /\ EmailOf[h] \notin crossed' =>
           /\ FreshNext(asking'[h].held, EmailOf[h])
           /\ code'[EmailOf[h]] \in {asking'[h].held, Absent}
    BY <1>t, <1>f, <1>h, <2>1, <2>2, <2>3
  <2>6. \A h, k \in Verifies :
           EmailOf[h] = EmailOf[k] /\ EmailOf[h] \notin crossed'
             /\ asking'[h].pc \in InHand /\ asking'[k].pc \in InHand => h = k
    BY <1>f, <2>1
  <2>7. QED
    BY <2>4, <2>5, <2>6, FreshAssembled
<1>6. ASSUME NEW g \in Verifies, NEW stored \in Code, NoteMiss(stored), KnownFor(stored, EmailOf[g]),
             EmailOf[g] \notin crossed => Fresh(stored, EmailOf[g]),
             code'[EmailOf[g]] \in {AfterMiss(stored), Absent},
             \A e \in Emails : e # EmailOf[g] => code'[e] = code[e],
             \A h \in Verifies : h # g /\ asking[h].pc \in Missing /\ EmailOf[h] \notin crossed =>
               EmailOf[h] # EmailOf[g],
             AskerGoes(g, "refused"), UNCHANGED <<latest, crossed>>
      PROVE  FreshUnlessCrossed'
  <2>1. /\ \A h \in Verifies : h # g => asking'[h] = asking[h]
        /\ asking'[g].pc \notin InHand /\ asking'[g].pc \notin Used
        /\ asking'[g].guess = asking[g].guess
    BY <1>6 DEF AskerGoes, InHand, Missing, Used
  <2>2. ASSUME NEW other \in Code, NEW e, Fresh(other, e), KnownFor(other, e), e # EmailOf[g]
        PROVE  FreshNext(other, e)
    <3>1. other # Absent => wrong'[other.of] = wrong[other.of]
      <4>1. other # Absent => other.of \in Issuing /\ EmailOf[other.of] = e
        BY <2>2, CodesAre DEF KnownFor
      <4>2. stored # Absent => EmailOf[stored.of] = EmailOf[g]
        BY <1>6 DEF KnownFor
      <4>3. QED
        BY <1>6, <2>2, <4>1, <4>2, MissNoted
    <3>2. QED
      BY <1>6, <2>1, <2>2, <3>1, StaysFresh
  <2>3. EmailOf[g] \notin crossed' => FreshNext(code'[EmailOf[g]], EmailOf[g])
    <3>1. HAVE EmailOf[g] \notin crossed'
    <3>2. FreshNext(AfterMiss(stored), EmailOf[g])
      BY <1>6, <2>1, <3>1, MissedStaysFresh
    <3>3. QED
      BY <1>6, <1>a, <3>2
  <2>4. \A e \in Emails : e \notin crossed' => FreshNext(code'[e], e)
    BY <1>6, <1>t, <1>f, <2>2, <2>3
  <2>5. \A h \in Verifies : asking'[h].pc \in Missing /\ EmailOf[h] \notin crossed' =>
           /\ FreshNext(asking'[h].held, EmailOf[h])
           /\ code'[EmailOf[h]] \in {asking'[h].held, Absent}
    BY <1>6, <1>t, <1>f, <1>h, <2>1, <2>2
  <2>6. \A h, k \in Verifies :
           EmailOf[h] = EmailOf[k] /\ EmailOf[h] \notin crossed'
             /\ asking'[h].pc \in InHand /\ asking'[k].pc \in InHand => h = k
    BY <1>6, <1>f, <2>1
  <2>7. QED
    BY <2>4, <2>5, <2>6, FreshAssembled
<1>7. ASSUME NEW g \in Verifies, Misses(g)
      PROVE  FreshUnlessCrossed'
  <2>1. /\ NoteMiss(code[EmailOf[g]]) /\ AskerGoes(g, "refused") /\ UNCHANGED <<latest, crossed>>
        /\ code'[EmailOf[g]] = AfterMiss(code[EmailOf[g]])
        /\ \A e \in Emails : e # EmailOf[g] => code'[e] = code[e]
    BY <1>7, <1>t DEF Misses
  <2>2. \A h \in Verifies : asking[h].pc \notin Missing
    BY <1>7 DEF Misses, OneStepInMemory
  <2>3. code[EmailOf[g]] \in Code /\ KnownFor(code[EmailOf[g]], EmailOf[g])
    BY <1>t DEF CodesKnown
  <2>4. EmailOf[g] \notin crossed => Fresh(code[EmailOf[g]], EmailOf[g])
    BY <1>t, <1>f
  <2>5. QED
    BY <1>6, <2>1, <2>2, <2>3, <2>4
<1>8. ASSUME NEW g \in Verifies, Writes(g)
      PROVE  FreshUnlessCrossed'
  <2>1. /\ NoteMiss(asking[g].held) /\ AskerGoes(g, "refused") /\ UNCHANGED <<latest, crossed>>
        /\ code'[EmailOf[g]] \in {AfterMiss(asking[g].held), Absent}
        /\ \A e \in Emails : e # EmailOf[g] => code'[e] = code[e]
        /\ asking[g].pc \in Missing
    BY <1>8, <1>t DEF Writes, Missing
  <2>2. \A h \in Verifies : h # g /\ asking[h].pc \in Missing /\ EmailOf[h] \notin crossed =>
          EmailOf[h] # EmailOf[g]
    BY <1>f, <1>h, <2>1
  <2>3. asking[g].held \in Code /\ KnownFor(asking[g].held, EmailOf[g])
    BY <1>t DEF CodesKnown
  <2>4. EmailOf[g] \notin crossed => Fresh(asking[g].held, EmailOf[g])
    BY <1>f, <2>1
  <2>5. QED
    BY <1>6, <2>1, <2>2, <2>3, <2>4
<1>9. ASSUME NEW f \in Emails, Expires(f)
      PROVE  FreshUnlessCrossed'
  <2>1. /\ UNCHANGED <<asking, latest, wrong, crossed>> /\ code'[f] = Absent
        /\ \A e \in Emails : e # f => code'[e] = code[e]
    BY <1>9, <1>t DEF Expires
  <2>2. ASSUME NEW stored \in Code, NEW e, Fresh(stored, e)
        PROVE  FreshNext(stored, e)
    BY <2>1, <2>2, StaysFresh
  <2>3. \A e \in Emails : e \notin crossed' => FreshNext(code'[e], e)
    BY <1>a, <1>t, <1>f, <2>1, <2>2
  <2>4. \A h \in Verifies : asking'[h].pc \in Missing /\ EmailOf[h] \notin crossed' =>
           /\ FreshNext(asking'[h].held, EmailOf[h])
           /\ code'[EmailOf[h]] \in {asking'[h].held, Absent}
    BY <1>t, <1>f, <2>1, <2>2
  <2>5. \A h, k \in Verifies :
           EmailOf[h] = EmailOf[k] /\ EmailOf[h] \notin crossed'
             /\ asking'[h].pc \in InHand /\ asking'[k].pc \in InHand => h = k
    BY <1>f, <2>1
  <2>6. QED
    BY <2>3, <2>4, <2>5, FreshAssembled
<1>10. QED
  BY <1>1, <1>2, <1>3, <1>4, <1>5, <1>7, <1>8, <1>9 DEF CodeStep

-----------------------------------------------------------------------------
(* The types, and what no request does when the store is in memory.        *)

LEMMA StoreStep ==
  ASSUME CodesTypeOK, CodesNext
  PROVE  store' = store /\ mail' \in [Issuing -> {"none", "queued", "sent", "lost"}]
<1>m. mail \in [Issuing -> {"none", "queued", "sent", "lost"}]
  BY DEF CodesTypeOK
<1>1. ASSUME NEW q \in Issuing,
             \/ FindNoUser(q) \/ CreateUser(q) \/ FindPending(q) \/ IssueInMemory(q)
             \/ CheckLimits(q) \/ TakeEmailKey(q) \/ TakeIpKey(q) \/ CheckCounts(q) \/ SaveCode(q)
      PROVE  store' = store /\ mail' = mail
  BY <1>1 DEF FindNoUser, CreateUser, FindPending, IssueInMemory, CheckLimits, TakeEmailKey,
              TakeIpKey, CheckCounts, SaveCode
<1>2. ASSUME NEW q \in Issuing, QueueMail(q) \/ SendMail(q)
      PROVE  store' = store /\ mail' \in [Issuing -> {"none", "queued", "sent", "lost"}]
  BY <1>m, <1>2 DEF QueueMail, SendMail
<1>3. ASSUME NEW g \in Verifies,
             \/ PresentCode(g) \/ ConsumeInMemory(g) \/ GetCode(g) \/ DeleteUsed(g) \/ ReadTtl(g)
             \/ WriteBack(g) \/ Activate(g)
      PROVE  store' = store /\ mail' = mail
  BY <1>3 DEF PresentCode, ConsumeInMemory, GetCode, DeleteUsed, ReadTtl, WriteBack, Activate
<1>4. ASSUME \/ \E q \in Asking : Interrupt(q)
             \/ \E e \in Emails : CodeExpires(e)
             \/ \E a \in Emails \cup {Ip} : CooldownEnds(a)
             \/ Midnight
      PROVE  store' = store /\ mail' = mail
  BY <1>4 DEF Interrupt, CodeExpires, CooldownEnds, Midnight
<1>5. QED
  BY <1>m, <1>1, <1>2, <1>3, <1>4, CodeRequests DEF CodesNext, Issue, Consume

LEMMA RowTypes ==
  ASSUME CodesTypeOK, KeyStep
  PROVE  /\ user' \in [Emails -> {"none", "pending", "active"}]
         /\ cooling' \subseteq Emails \cup {Ip} /\ daily' \in [Emails \cup {Ip} -> Nat]
         /\ latest' \in [Emails -> Issuing \cup {NoCode}]
<1>t. /\ user \in [Emails -> {"none", "pending", "active"}]
      /\ cooling \subseteq Emails \cup {Ip} /\ daily \in [Emails \cup {Ip} -> Nat]
      /\ latest \in [Emails -> Issuing \cup {NoCode}]
      /\ \A q \in Issuing : EmailOf[q] \in Emails
  BY CodeRequests DEF CodesTypeOK
<1>1. ASSUME NEW q \in Issuing, \/ Early(q) \/ Takes(q) \/ GivesBack(q) \/ CountedIn(q)
                               \/ Mails(q) \/ Fails(q)
      PROVE  /\ user' \in [Emails -> {"none", "pending", "active"}]
             /\ cooling' \subseteq Emails \cup {Ip} /\ daily' = daily /\ latest' = latest
  BY <1>t, <1>1 DEF Early, Takes, GivesBack, CountedIn, Mails, Fails
<1>2. ASSUME NEW q \in Issuing, SavesOne(q)
      PROVE  /\ user' = user /\ cooling' \subseteq Emails \cup {Ip}
             /\ daily' \in [Emails \cup {Ip} -> Nat]
             /\ latest' \in [Emails -> Issuing \cup {NoCode}]
  BY <1>t, <1>2, SavedCounts DEF SavesOne, Keys
<1>3. ASSUME IssuersRest
      PROVE  /\ user' \in [Emails -> {"none", "pending", "active"}]
             /\ UNCHANGED <<cooling, daily, latest>>
  BY <1>t, <1>3 DEF IssuersRest
<1>4. ASSUME DayEnds \/ \E a \in Emails \cup {Ip} : CooldownEnds(a)
      PROVE  /\ user' = user /\ cooling' \subseteq cooling /\ latest' = latest
             /\ daily' \in [Emails \cup {Ip} -> Nat]
  BY <1>t, <1>4 DEF DayEnds, CooldownEnds
<1>5. QED
  BY <1>t, <1>1, <1>2, <1>3, <1>4 DEF KeyStep

LEMMA CodeTypes ==
  ASSUME CodesTypeOK, CodeStep
  PROVE  /\ code' \in [Emails -> Code] /\ asking' \in [Asking -> AskingState]
         /\ wrong' \in [Issuing -> Nat] /\ crossed' \subseteq Emails
<1>t. /\ code \in [Emails -> Code] /\ asking \in [Asking -> AskingState]
      /\ wrong \in [Issuing -> Nat] /\ crossed \subseteq Emails
      /\ \A q \in Asking : EmailOf[q] \in Emails /\ asking[q].held \in Code
      /\ Absent \in Code /\ \A q \in Issuing : NewCode(q) \in Code
      /\ Issuing \subseteq Asking /\ Verifies \subseteq Asking
  BY CodeRequests, CodesAre DEF CodesTypeOK, AskingState
<1>1. CASE CodesRest
  BY <1>t, <1>1 DEF CodesRest
<1>2. ASSUME NEW q \in Issuing, SavesCode(q)
      PROVE  /\ code' \in [Emails -> Code] /\ asking' \in [Asking -> AskingState]
             /\ wrong' = wrong /\ crossed' \subseteq Emails
  BY <1>t, <1>2 DEF SavesCode, AskerGoes
<1>3. ASSUME NEW g \in Verifies, Presents(g) \/ Hits(g) \/ Reads(g) \/ Deletes(g)
      PROVE  /\ code' \in [Emails -> Code] /\ asking' \in [Asking -> AskingState]
             /\ wrong' = wrong /\ crossed' \subseteq Emails
  BY <1>t, <1>3 DEF Presents, Hits, Reads, Deletes, AskerGoes
<1>4. ASSUME NEW g \in Verifies, Misses(g) \/ Writes(g)
      PROVE  /\ code' \in [Emails -> Code] /\ asking' \in [Asking -> AskingState]
             /\ wrong' \in [Issuing -> Nat] /\ crossed' = crossed
  <2>1. PICK stored \in {code[EmailOf[g]], asking[g].held} :
          /\ NoteMiss(stored)
          /\ \E c \in {AfterMiss(stored), Absent} : code' = [code EXCEPT ![EmailOf[g]] = c]
    BY <1>4 DEF Misses, Writes
  <2>2. stored \in Code /\ AfterMiss(stored) \in Code
    BY <1>t, MissedCode
  <2>3. QED
    BY <1>t, <1>4, <2>1, <2>2, MissNoted DEF Misses, Writes, AskerGoes
<1>5. ASSUME NEW e \in Emails, Expires(e)
      PROVE  code' \in [Emails -> Code] /\ UNCHANGED <<asking, wrong, crossed>>
  BY <1>t, <1>5 DEF Expires
<1>6. QED
  BY <1>t, <1>1, <1>2, <1>3, <1>4, <1>5 DEF CodeStep

LEMMA CodeTypesStep ==
  ASSUME CodesTypeOK, KeyStep, CodeStep, CodesNext
  PROVE  CodesTypeOK'
<1>1. store' \in Stores
  BY StoreStep DEF CodesTypeOK
<1>2. QED
  BY <1>1, StoreStep, RowTypes, CodeTypes DEF CodesTypeOK

LEMMA MemoryStep ==
  ASSUME OneStepInMemory, KeyStep, CodeStep, store' = store
  PROVE  OneStepInMemory'
<1> SUFFICES ASSUME store = "memory" PROVE OneStepInMemory'
  BY DEF OneStepInMemory
<1> DEFINE Between == {"emailKey", "ipKey", "counting", "saving"}
<1> USE CodeRequests
<1>1. ASSUME NEW q \in Issuing
      PROVE  asking'[q].pc \notin Between
  <2>1. asking[q].pc \notin Between
    BY DEF OneStepInMemory
  <2>2. ASSUME NEW r \in Issuing, \/ Early(r) \/ Takes(r) \/ GivesBack(r) \/ CountedIn(r)
                                 \/ SavesOne(r) \/ Mails(r) \/ Fails(r)
        PROVE  asking'[q].pc \notin Between
    <3>1. asking[r].pc \notin Between
      BY DEF OneStepInMemory
    <3>2. CASE r = q
      BY <2>2, <3>1, <3>2 DEF Early, Takes, GivesBack, CountedIn, SavesOne, Mails, Fails, AskerGoes
    <3>3. CASE r # q
      BY <2>1, <2>2, <3>3 DEF Early, Takes, GivesBack, CountedIn, SavesOne, Mails, Fails, AskerGoes
    <3>4. QED
      BY <3>2, <3>3
  <2>3. CASE IssuersRest \/ DayEnds \/ \E a \in Emails \cup {Ip} : CooldownEnds(a)
    BY <2>1, <2>3 DEF IssuersRest, DayEnds, CooldownEnds
  <2>4. QED
    BY <2>2, <2>3 DEF KeyStep
<1>2. ASSUME NEW g \in Verifies
      PROVE  asking'[g].pc \notin InHand
  <2>1. \A h \in Verifies : asking[h].pc \notin InHand
    BY DEF OneStepInMemory, InHand
  <2>2. CASE CodesRest
    BY <2>1, <2>2 DEF CodesRest
  <2>3. CASE \E q \in Issuing : SavesCode(q)
    BY <2>1, <2>3 DEF SavesCode, AskerGoes
  <2>4. ASSUME NEW h \in Verifies,
               Presents(h) \/ Hits(h) \/ Misses(h) \/ Reads(h) \/ Deletes(h) \/ Writes(h)
        PROVE  asking'[g].pc \notin InHand
    <3>1. CASE h = g
      BY <2>1, <2>4, <3>1 DEF Presents, Hits, Misses, Reads, Deletes, Writes, AskerGoes, InHand, Missing
    <3>2. CASE h # g
      BY <2>1, <2>4, <3>2 DEF Presents, Hits, Misses, Reads, Deletes, Writes, AskerGoes
    <3>3. QED
      BY <3>1, <3>2
  <2>5. CASE \E e \in Emails : Expires(e)
    BY <2>1, <2>5 DEF Expires
  <2>6. QED
    BY <2>2, <2>3, <2>4, <2>5 DEF CodeStep
<1>3. QED
  BY <1>1, <1>2 DEF OneStepInMemory, InHand

-----------------------------------------------------------------------------
(* The theorems.                                                           *)

LEMMA CodesInvInit == CodesInit => CodesInv
<1> SUFFICES ASSUME CodesInit PROVE CodesInv
  OBVIOUS
<1> USE CodeRequests
<1>1. /\ store \in Stores /\ cooling = {} /\ crossed = {}
      /\ user \in [Emails -> {"none", "pending", "active"}]
      /\ code = [e \in Emails |-> Absent]
      /\ daily = [a \in Emails \cup {Ip} |-> 0]
      /\ mail = [q \in Issuing |-> "none"]
      /\ latest = [e \in Emails |-> NoCode]
      /\ wrong = [c \in Issuing |-> 0]
  BY DEF CodesInit
<1>2. PICK cast \in Casts : asking = [q \in Asking |->
        [pc |-> IF q \in cast THEN "start" ELSE "refused", guess |-> NoCode, held |-> Absent, late |-> FALSE]]
  BY DEF CodesInit
<1>3. \A q \in Asking : /\ asking[q].pc \in {"start", "refused"} /\ asking[q].guess = NoCode
                        /\ asking[q].held = Absent
  BY <1>2
<1>4. asking \in [Asking -> AskingState]
  BY <1>2, CodesAre, StepsAre DEF AskingState
<1>5. CodesTypeOK
  BY <1>1, <1>4, CodesAre DEF CodesTypeOK
<1>6. DailyQuota
  BY <1>1 DEF DailyQuota
<1>7. CooldownMeansCode
  BY <1>1 DEF CooldownMeansCode
<1>8. RegisteredOnce /\ RowOwnedOnce
  BY <1>3 DEF RegisteredOnce, RowOwnedOnce, OwnsRow
<1>9. OneStepInMemory /\ SavesWithin
  BY <1>3 DEF OneStepInMemory, SavesWithin, Missing
<1>10. HeldAlone
  BY <1>3 DEF HeldAlone, Holds
<1>11. CodesKnown
  BY <1>1, <1>3 DEF CodesKnown, KnownFor
<1>12. FreshUnlessCrossed
  BY <1>1, <1>3 DEF FreshUnlessCrossed, Fresh, Missing
<1>13. QED
  BY <1>5, <1>6, <1>7, <1>8, <1>9, <1>10, <1>11, <1>12 DEF CodesInv

LEMMA CodesInvStep ==
  ASSUME CodesInv, [CodesNext]_codeVars
  PROVE  CodesInv'
<1>1. CASE CodesNext
  <2>1. /\ CodesTypeOK /\ DailyQuota /\ CooldownMeansCode /\ RegisteredOnce
        /\ OneStepInMemory /\ HeldAlone /\ SavesWithin /\ RowOwnedOnce
        /\ CodesKnown /\ FreshUnlessCrossed
    BY DEF CodesInv
  <2>2. KeyStep /\ CodeStep
    BY <1>1, <2>1, KeySteps, CodeSteps
  <2>3. CodesTypeOK' /\ store' = store
    BY <1>1, <2>1, <2>2, CodeTypesStep, StoreStep
  <2>4. DailyQuota' /\ SavesWithin' /\ HeldAlone' /\ CooldownMeansCode'
    BY <2>1, <2>2, QuotaStep, HeldStep, CooldownStep
  <2>5. RowOwnedOnce' /\ RegisteredOnce' /\ OneStepInMemory'
    BY <2>1, <2>2, <2>3, RowStep, MemoryStep
  <2>6. CodesKnown' /\ FreshUnlessCrossed'
    BY <2>1, <2>2, <2>3, KnownStep, FreshStep
  <2>7. QED
    BY <2>3, <2>4, <2>5, <2>6 DEF CodesInv
<1>2. CASE UNCHANGED codeVars
  <2>1. UNCHANGED <<store, user, code, cooling, daily, mail, asking, latest, wrong, crossed>>
    BY <1>2 DEF codeVars
  <2>2. CodesTypeOK' /\ DailyQuota' /\ CooldownMeansCode' /\ RegisteredOnce'
    BY <2>1 DEF CodesInv, CodesTypeOK, DailyQuota, CooldownMeansCode, RegisteredOnce, Holds, Keys
  <2>3. OneStepInMemory' /\ HeldAlone' /\ SavesWithin' /\ RowOwnedOnce'
    BY <2>1 DEF CodesInv, OneStepInMemory, HeldAlone, SavesWithin, RowOwnedOnce, Holds, Keys,
                WithinDaily, OwnsRow
  <2>4. CodesKnown' /\ FreshUnlessCrossed'
    BY <2>1 DEF CodesInv, CodesKnown, FreshUnlessCrossed, KnownFor, Fresh, Unsaved
  <2>5. QED
    BY <2>2, <2>3, <2>4 DEF CodesInv
<1>3. QED
  BY <1>1, <1>2

(* For any number of requests about any addresses, however they race and   *)
(* wherever they are interrupted (issue_code, consume_code): no address    *)
(* gets more codes in a day than it may, none waits without a code or an   *)
(* interrupted request, and of the registrations of one address one goes   *)
(* through.                                                                *)
THEOREM CodesInvariant == CodesSpec => []CodesInv
<1>1. CodesInit => CodesInv
  BY CodesInvInit
<1>2. CodesInv /\ [CodesNext]_codeVars => CodesInv'
  BY CodesInvStep
<1>3. QED
  BY <1>1, <1>2, PTL DEF CodesSpec

(* A code is accepted by a read of what the store holds.                   *)
LEMMA AcceptsFresh ==
  ASSUME CodesInv, CodesNext, NEW g \in Verifies, Accepts(g), EmailOf[g] \notin crossed
  PROVE  /\ asking[g].guess = latest[EmailOf[g]]
         /\ wrong[asking[g].guess] < MaxAttempts
         /\ \A h \in Verifies \ {g} :
              asking[h].guess = asking[g].guess => asking[h].pc \notin {"activating", "answered"}
<1> DEFINE stored == code[EmailOf[g]]
<1>1. Matches(g, stored)
  <2>1. asking[g].pc = "consuming" /\ asking'[g].pc \in {"deleting", "activating"} /\ g \in Asking
    BY CodeRequests DEF Accepts
  <2>2. CodeStep
    BY CodeSteps DEF CodesInv
  <2>3. ~CodesRest
    BY <2>1 DEF CodesRest, InHand, Missing, Used
  <2>4. ASSUME NEW q \in Issuing, SavesCode(q)
        PROVE  FALSE
    BY <2>1, <2>4, CodeRequests DEF SavesCode, AskerGoes
  <2>5. ASSUME NEW h \in Verifies,
               Presents(h) \/ Hits(h) \/ Misses(h) \/ Reads(h) \/ Deletes(h) \/ Writes(h)
        PROVE  Matches(g, stored)
    <3>1. h = g
      BY <2>1, <2>5 DEF Presents, Hits, Misses, Reads, Deletes, Writes, AskerGoes
    <3>2. Hits(g) \/ Reads(g)
      BY <2>1, <2>5, <3>1 DEF Presents, Hits, Misses, Reads, Deletes, Writes, AskerGoes
    <3>3. QED
      BY <2>1, <3>2 DEF Hits, Reads
  <2>6. \A e \in Emails : ~Expires(e)
    BY <2>1 DEF Expires
  <2>7. QED
    BY <2>2, <2>3, <2>4, <2>5, <2>6 DEF CodeStep
<1>2. stored \in Code /\ stored # Absent /\ stored.of = asking[g].guess /\ EmailOf[g] \in Emails
  BY <1>1, CodesAre, CodeRequests DEF CodesInv, CodesTypeOK, Matches
<1>3. Fresh(stored, EmailOf[g])
  BY <1>2 DEF CodesInv, FreshUnlessCrossed
<1>4. stored.left \in 1..MaxAttempts /\ wrong[stored.of] \in Nat
  BY <1>2, CodesAre DEF CodesInv, CodesTypeOK
<1>5. stored.left + wrong[stored.of] = MaxAttempts
  BY <1>2, <1>3 DEF Fresh
<1>6. wrong[stored.of] < MaxAttempts
  BY <1>4, <1>5, CodeRequests
<1>7. QED
  BY <1>2, <1>3, <1>6 DEF Fresh

(* A code that opens an account is the last one saved for it, has guesses  *)
(* left and has not been used before (verify_email, consume_code), unless  *)
(* commands of Redis have crossed over its payload.                        *)
THEOREM AcceptedCodeIsGood == CodesSpec => CodeIsGood
<1>1. CodesInv /\ [CodesNext]_codeVars =>
        [\A g \in Verifies : Accepts(g) /\ EmailOf[g] \notin crossed =>
           /\ asking[g].guess = latest[EmailOf[g]]
           /\ wrong[asking[g].guess] < MaxAttempts
           /\ \A h \in Verifies \ {g} :
                asking[h].guess = asking[g].guess => asking[h].pc \notin {"activating", "answered"}]_codeVars
  BY AcceptsFresh
<1>2. QED
  BY <1>1, CodesInvariant, PTL DEF CodesSpec, CodeIsGood
=============================================================================
