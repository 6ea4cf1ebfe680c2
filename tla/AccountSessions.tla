-------------------------- MODULE AccountSessions --------------------------
(***************************************************************************)
(* The sessions of one account: login, refresh, logout, the link that      *)
(* resets a password and its use, many requests at once                    *)
(* (src/api/services/auth_service.py).                                     *)
(*                                                                         *)
(* A refresh token and a reset link are both rows that may be redeemed     *)
(* once (src/api/db/auth_db.py): a request looks the row up, claims it     *)
(* with an UPDATE that names the state it expects, and commits.  The       *)
(* UPDATE takes the row's lock, and waits for whoever holds it.            *)
(***************************************************************************)
EXTENDS Naturals

CONSTANTS
  Logins, Refreshes, Logouts,  \* requests for and with a refresh token
  Forgots, Resets,             \* requests for and with a reset link
  NoOne                        \* no request

Issuers  == Logins \cup Refreshes
Requests == Issuers \cup Logouts \cup Forgots \cup Resets

(* A refresh token or a reset link is known by the request that made it.   *)
Items == Issuers \cup Forgots

ASSUME AccountAssumption ==
  /\ Logins \cap Refreshes = {}
  /\ (Logins \cup Refreshes) \cap (Logouts \cup Forgots \cup Resets) = {}
  /\ Logouts \cap (Forgots \cup Resets) = {}
  /\ Forgots \cap Resets = {}
  /\ NoOne \notin Requests

VARIABLES
  item,       \* item[i]: revoked_at / consumed_at of a row: good or spent
  lock,       \* lock[i]: the request whose open transaction updated the row
  password,   \* the reset the password is from, NoOne at first
  request,    \* request[q]: how far request q has got
  chain,      \* history: the login a refresh token goes back to
  closed,     \* history: logins whose token a logout or a reset revoked
  redeemed    \* history: the requests that have redeemed something

vars == <<item, lock, password, request, chain, closed, redeemed>>
rows == <<item, lock, password, chain, closed, redeemed>>

Ends == {"answered", "refused", "failed"}
RequestState ==
  [pc : {"waiting", "checked", "stamping", "stamped", "found", "claimed", "redeemed",
         "changed", "updating", "issued"} \cup Ends,
   of : Items \cup {NoOne},          \* what it presents
   seen : SUBSET Items,              \* the rows its bulk UPDATE has found
   hash : Resets \cup {NoOne}]       \* the password it has loaded

Init ==
  /\ item = [i \in Items |-> "absent"]
  /\ lock = [i \in Items |-> NoOne]
  /\ password = NoOne
  /\ request = [q \in Requests |-> [pc |-> "waiting", of |-> NoOne, seen |-> {}, hash |-> NoOne]]
  /\ chain = [i \in Issuers |-> NoOne]
  /\ closed = {}
  /\ redeemed = {}

Good(items) == {i \in items : item[i] = "good"}

(* What clients have been given: a cookie, or a link in a mail.            *)
Known(items) == {i \in items : request[i].pc = "answered"}

Goes(q, from, to) ==
  /\ request[q].pc = from
  /\ request' = [request EXCEPT ![q].pc = to]

Unlocked(q) == [i \in Items |-> IF lock[i] = q THEN NoOne ELSE lock[i]]

-----------------------------------------------------------------------------
(* Redeeming a row: rotate_refresh_token, consume_auth_action_token.       *)

(* The row is looked up.  One that is too old is refused like a spent one. *)
Present(q, items) ==
  /\ request[q].pc = "waiting"
  /\ \E i \in Known(items) :
     \E expired \in BOOLEAN :
       request' = [request EXCEPT
         ![q].pc = IF item[i] = "good" /\ ~expired THEN "found" ELSE "refused",
         ![q].of = i]
  /\ UNCHANGED rows

(* A slip: the row is looked at, as by a SELECT, and not locked.           *)
ClaimWithoutLock(q) ==
  LET i == request[q].of
  IN  /\ request[q].pc = "found"
      /\ request' = [request EXCEPT ![q].pc = IF item[i] = "good" THEN "claimed" ELSE "refused"]
      /\ UNCHANGED <<item, lock, password, chain, closed, redeemed>>

(* The UPDATE waits for the lock, then looks at the row again.             *)
Claim(q) ==
  LET i == request[q].of
  IN  /\ request[q].pc = "found"
      /\ lock[i] = NoOne
      /\ lock' = IF item[i] = "good" THEN [lock EXCEPT ![i] = q] ELSE lock
      /\ request' = [request EXCEPT ![q].pc = IF item[i] = "good" THEN "claimed" ELSE "refused"]
      /\ UNCHANGED <<item, password, chain, closed, redeemed>>

-----------------------------------------------------------------------------
(* refresh and logout.                                                     *)

PresentToken(r) == Present(r, Issuers)

(* The token is revoked and its replacement added, by one transaction.     *)
Rotate(r) ==
  LET t == request[r].of
  IN  /\ Goes(r, "claimed", "redeemed")
      /\ item' = [item EXCEPT ![t] = "spent", ![r] = "good"]
      /\ chain' = [chain EXCEPT ![r] = chain[t]]
      /\ redeemed' = redeemed \cup {r}
      /\ lock' = Unlocked(r)
      /\ UNCHANGED <<password, closed>>

AnswerRefresh(r) ==
  /\ Goes(r, "redeemed", "answered")
  /\ UNCHANGED rows

FindToken(o) ==
  /\ request[o].pc = "waiting"
  /\ \E t \in Known(Issuers) :
       request' = [request EXCEPT ![o].pc = "found", ![o].of = t]
  /\ UNCHANGED rows

(* revoke_refresh_token stamps the row whatever has become of it.          *)
RevokeToken(o) ==
  LET t == request[o].of
  IN  /\ Goes(o, "found", "answered")
      /\ lock[t] = NoOne
      /\ item' = [item EXCEPT ![t] = "spent"]
      /\ closed' = IF item[t] = "good" THEN closed \cup {chain[t]} ELSE closed
      /\ UNCHANGED <<lock, password, chain, redeemed>>

-----------------------------------------------------------------------------
(* login.                                                                  *)

CheckPassword(l) ==
  /\ Goes(l, "waiting", "checked") \/ Goes(l, "waiting", "refused")
  /\ UNCHANGED rows

(* update_last_login loads the credential row ...                          *)
LoadCredential(l) ==
  /\ request[l].pc = "checked"
  /\ request' = [request EXCEPT ![l].pc = "stamping", ![l].hash = password]
  /\ UNCHANGED rows

(* A slip: the whole row is written, with the password that was loaded.    *)
StampWholeRow(l) ==
  /\ Goes(l, "stamping", "stamped")
  /\ password' = request[l].hash
  /\ UNCHANGED <<item, lock, chain, closed, redeemed>>

(* ... and writes the columns it has changed, the password is not one.     *)
StampLogin(l) ==
  /\ Goes(l, "stamping", "stamped")
  /\ UNCHANGED rows

SaveToken(l) ==
  /\ Goes(l, "stamped", "issued")
  /\ item' = [item EXCEPT ![l] = "good"]
  /\ chain' = [chain EXCEPT ![l] = l]
  /\ UNCHANGED <<lock, password, closed, redeemed>>

AnswerLogin(l) ==
  /\ Goes(l, "issued", "answered")
  /\ UNCHANGED rows

-----------------------------------------------------------------------------
(* forgot_password and reset_password.                                     *)

(* An UPDATE of many rows takes those that are good when it starts, waits  *)
(* for the locks and looks at each again.                                  *)
OpenBulk(q, from, items) ==
  /\ request[q].pc = from
  /\ request' = [request EXCEPT ![q].pc = "updating", ![q].seen = Good(items)]
  /\ UNCHANGED rows

Spend(seen) == [i \in Items |-> IF i \in seen /\ item[i] = "good" THEN "spent" ELSE item[i]]

OpenSupersede(f) == OpenBulk(f, "waiting", Forgots)

SaveLink(f) ==
  /\ Goes(f, "updating", "issued")
  /\ \A i \in request[f].seen : lock[i] = NoOne
  /\ item' = [Spend(request[f].seen) EXCEPT ![f] = "good"]
  /\ UNCHANGED <<lock, password, chain, closed, redeemed>>

MailLink(f) ==
  /\ Goes(f, "issued", "answered")
  /\ UNCHANGED rows

PresentLink(x) == Present(x, Forgots)

ConsumeLink(x) ==
  /\ Goes(x, "claimed", "redeemed")
  /\ item' = [item EXCEPT ![request[x].of] = "spent"]
  /\ redeemed' = redeemed \cup {x}
  /\ lock' = Unlocked(x)
  /\ UNCHANGED <<password, chain, closed>>

ChangePassword(x) ==
  /\ Goes(x, "redeemed", "changed")
  /\ password' = x
  /\ UNCHANGED <<item, lock, chain, closed, redeemed>>

OpenRevokeAll(x) == OpenBulk(x, "changed", Issuers)

RevokeAll(x) ==
  LET seen == request[x].seen
  IN  /\ Goes(x, "updating", "answered")
      /\ \A i \in seen : lock[i] = NoOne
      /\ item' = Spend(seen)
      /\ closed' = closed \cup {chain[i] : i \in Good(seen)}
      /\ UNCHANGED <<lock, password, chain, redeemed>>

-----------------------------------------------------------------------------
(* A slip: the connection goes back with its transaction open.             *)
FailHoldingLocks(q) ==
  /\ request[q].pc \notin Ends \cup {"waiting"}
  /\ request' = [request EXCEPT ![q].pc = "failed"]
  /\ UNCHANGED rows

(* A request may fail between any two steps, its transaction rolls back.   *)
Fail(q) ==
  /\ request[q].pc \notin Ends \cup {"waiting"}
  /\ request' = [request EXCEPT ![q].pc = "failed"]
  /\ lock' = Unlocked(q)
  /\ UNCHANGED <<item, password, chain, closed, redeemed>>

LoginStep(l) ==
  CheckPassword(l) \/ LoadCredential(l) \/ StampLogin(l) \/ SaveToken(l) \/ AnswerLogin(l)
RefreshStep(r) == PresentToken(r) \/ Claim(r) \/ Rotate(r) \/ AnswerRefresh(r)
LogoutStep(o) == FindToken(o) \/ RevokeToken(o)
ForgotStep(f) == OpenSupersede(f) \/ SaveLink(f) \/ MailLink(f)
ResetStep(x) ==
  \/ PresentLink(x) \/ Claim(x) \/ ConsumeLink(x) \/ ChangePassword(x)
  \/ OpenRevokeAll(x) \/ RevokeAll(x)

Progress ==
  \/ \E l \in Logins : LoginStep(l)
  \/ \E r \in Refreshes : RefreshStep(r)
  \/ \E o \in Logouts : LogoutStep(o)
  \/ \E f \in Forgots : ForgotStep(f)
  \/ \E x \in Resets : ResetStep(x)

Ended(q) == request[q].pc \in Ends \cup {"waiting"}

Next ==
  \/ Progress
  \/ \E q \in Requests : Fail(q)
  \/ (\A q \in Requests : Ended(q)) /\ UNCHANGED vars

Spec == Init /\ [][Next]_vars

(* A request that has started goes on: queries come back, locks are freed. *)
Started(q) == request[q].pc # "waiting"

Fairness ==
  /\ \A l \in Logins : WF_vars(Started(l) /\ LoginStep(l))
  /\ \A r \in Refreshes : WF_vars(Started(r) /\ RefreshStep(r))
  /\ \A o \in Logouts : WF_vars(Started(o) /\ LogoutStep(o))
  /\ \A f \in Forgots : WF_vars(Started(f) /\ ForgotStep(f))
  /\ \A x \in Resets : WF_vars(Started(x) /\ ResetStep(x))

FairSpec == Spec /\ Fairness

-----------------------------------------------------------------------------
AccountTypeOK ==
  /\ item \in [Items -> {"absent", "good", "spent"}]
  /\ lock \in [Items -> Requests \cup {NoOne}]
  /\ password \in Resets \cup {NoOne}
  /\ request \in [Requests -> RequestState]
  /\ chain \in [Issuers -> Logins \cup {NoOne}]
  /\ closed \in SUBSET Logins
  /\ redeemed \in SUBSET Requests

(* However many requests present the same refresh token or the same reset  *)
(* link at once, one of them redeems it.                                   *)
RedeemedOnce ==
  \A p, q \in redeemed : request[p].of = request[q].of => p = q

(* The tokens that go back to a login.                                     *)
ChainOf(l) == {i \in Issuers : chain[i] = l}

(* A login that has been saved has exactly one good refresh token, through *)
(* all rotations, refused and failed ones among them, until a logout or a  *)
(* reset revokes it; after that it has none.  (A browser whose answer got  *)
(* lost may not know the token; the row is there.)                         *)
ChainHasOneToken ==
  \A l \in Logins : item[l] # "absent" =>
    IF l \in closed THEN Good(ChainOf(l)) = {}
    ELSE \E t \in ChainOf(l) : Good(ChainOf(l)) = {t}

(* A lock is held by the request that has claimed the row, and by no other. *)
LockIsClaim ==
  /\ \A i \in Items : lock[i] # NoOne =>
       /\ item[i] = "good"
       /\ request[lock[i]].pc = "claimed" /\ request[lock[i]].of = i
  /\ \A q \in Requests : request[q].pc = "claimed" => lock[request[q].of] = q

(* Refreshes and logouts are about refresh tokens, resets about links; a   *)
(* newer link supersedes links, the end of a reset revokes tokens.         *)
OwnKind ==
  /\ \A q \in Requests : request[q].pc \in {"found", "claimed", "redeemed"} =>
       /\ q \in Refreshes \cup Logouts => request[q].of \in Issuers
       /\ q \in Resets => request[q].of \in Forgots
       /\ q \in Refreshes \cup Logouts \cup Resets
       /\ item[request[q].of] # "absent"
  /\ \A q \in Requests : request[q].pc = "updating" =>
       /\ q \in Forgots => request[q].seen \subseteq Forgots
       /\ q \in Resets => request[q].seen \subseteq Issuers

(* A row is there from the commit of the request that makes it.            *)
StoredByCommit ==
  /\ \A r \in Refreshes : item[r] # "absent" <=> r \in redeemed
  /\ \A l \in Logins : item[l] # "absent" => request[l].pc \in {"issued", "answered", "failed"}
  /\ \A f \in Forgots : item[f] # "absent" => request[f].pc \in {"issued", "answered", "failed"}
  /\ \A i \in Issuers : item[i] # "absent" <=> chain[i] # NoOne
  /\ \A i \in Issuers : chain[i] # NoOne => item[chain[i]] # "absent"
  /\ \A i \in Items : request[i].pc \in {"issued", "redeemed", "answered"} => item[i] # "absent"
  /\ \A l \in closed : item[l] # "absent"

(* What has been redeemed is spent.                                        *)
RedeemedIsSpent ==
  \A q \in redeemed :
    /\ q \in Refreshes \cup Resets
    /\ request[q].pc \in {"redeemed", "changed", "updating", "answered", "failed"}
    /\ request[q].of \in Items /\ item[request[q].of] = "spent"

(* The inductive invariant behind RedeemedOnce and ChainHasOneToken.       *)
AccountInv ==
  /\ AccountTypeOK
  /\ LockIsClaim
  /\ OwnKind
  /\ StoredByCommit
  /\ RedeemedIsSpent
  /\ RedeemedOnce
  /\ ChainHasOneToken

(* Nothing is redeemed that was spent in the meantime, by a logout, a      *)
(* reset, a newer link or another request.                                 *)
OnlyGoodRedeemed ==
  [][\A q \in redeemed' \ redeemed : item[request[q].of] = "good"]_vars

(* Only a reset that has consumed its link changes the password: a login   *)
(* at the same time does not put an older one back.                        *)
PasswordFromReset ==
  [][password' # password =>
       \E x \in redeemed \cap Resets : password' = x /\ request[x].pc = "redeemed"]_vars

(* Again and again no request is in progress: those that have started come *)
(* to their ends, waiting for row locks is never waiting for each other.   *)
RequestsEnd == []<>(\A q \in Requests : Ended(q))
=============================================================================
