------------------------------ MODULE AuthClient ------------------------------
(***************************************************************************)
(* The account as the browser keeps it: AuthProvider, authApi and          *)
(* apiClient.  Every tab holds an access token of its own; the refresh     *)
(* token is a cookie all tabs share, which the server exchanges for a new  *)
(* one at each refresh.  A tab refreshes when it is loaded and, once for   *)
(* all the calls that wait, when a call is answered 401; requests of one   *)
(* tab and of several overlap, and answers get lost.                       *)
(*                                                                         *)
(* The server's side is what AccountSessions comes to: a token that is     *)
(* good is exchanged once.                                                 *)
(***************************************************************************)
EXTENDS Naturals

CONSTANTS
  Tabs,
  Calls,      \* protected calls
  TabOf,      \* the tab that makes each of them
  MaxTokens,  \* refresh tokens the server issues
  MaxLosses   \* answers that get lost

ASSUME AuthClientAssumption ==
  TabOf \in [Calls -> Tabs] /\ MaxTokens \in Nat /\ MaxLosses \in Nat

(* Tokens are numbered, an access token like the refresh token it came     *)
(* with; 0 is none.  What a tab may have under way besides calls: the      *)
(* refresh of the mount effect, the refresh that calls share               *)
(* (activeRefresh), a login and a logout.                                  *)
Kinds == {"mount", "shared", "login", "logout"}

VARIABLES
  cookie,     \* the refresh token in the cookie jar
  issued,     \* tokens issued so far
  good,       \* refresh tokens the server would exchange
  tab,        \* what each tab shows and the access token it holds
  inFlight,   \* the requests under way, with the token sent or returned
  active,     \* tabs whose activeRefresh is set
  call,       \* the calls, with the access token of the last attempt
  losses,     \* answers lost so far
  loggedOut   \* a logout was sent

accountVars == << cookie, issued, good >>
clientVars ==
  << accountVars, tab, inFlight, active, call, losses, loggedOut >>

TabState == [status : {"closed", "refreshing", "anonymous", "authenticated"}, access : Nat]
Request == [at : {"no", "sent", "answered"}, token : Nat]
CallState == [at : {"no", "sent", "waiting", "again", "done"}, token : Nat]

NoRequest == [at |-> "no", token |-> 0]
Sent == [at |-> "sent", token |-> cookie]
Answer(n) == [at |-> "answered", token |-> n]

ClientInit ==
  /\ cookie = 0 /\ issued = 0 /\ good = {}
  /\ tab = [t \in Tabs |-> [status |-> "closed", access |-> 0]]
  /\ inFlight = [t \in Tabs |-> [k \in Kinds |-> NoRequest]]
  /\ active = {}
  /\ call = [c \in Calls |-> [at |-> "no", token |-> 0]]
  /\ losses = 0 /\ loggedOut = FALSE

Send(t, k) == inFlight' = [inFlight EXCEPT ![t][k] = Sent]

(* The mount effect: the handlers are installed and the session restored.  *)
OpenTab(t) ==
  /\ tab[t].status = "closed"
  /\ tab' = [tab EXCEPT ![t].status = "refreshing"]
  /\ Send(t, "mount")
  /\ UNCHANGED << accountVars, active, call, losses, loggedOut >>

Login(t) ==
  /\ tab[t].status = "anonymous" /\ inFlight[t]["login"] = NoRequest
  /\ issued < MaxTokens
  /\ Send(t, "login")
  /\ UNCHANGED << accountVars, tab, active, call, losses, loggedOut >>

Logout(t) ==
  /\ tab[t].status = "authenticated" /\ inFlight[t]["logout"] = NoRequest
  /\ Send(t, "logout")
  /\ loggedOut' = TRUE
  /\ UNCHANGED << accountVars, tab, active, call, losses >>

----------------------------------------------------------------------------
(* The server.                                                             *)

Answered(t, k, n) == inFlight' = [inFlight EXCEPT ![t][k] = Answer(n)]

IssueFor(t, k, others) ==
  /\ issued < MaxTokens
  /\ issued' = issued + 1 /\ good' = others \cup {issued + 1}
  /\ Answered(t, k, issued + 1)

Serve(t, k) ==
  /\ inFlight[t][k].at = "sent"
  /\ LET token == inFlight[t][k].token
     IN \/ k = "login" /\ IssueFor(t, k, good)
        \/ k \in {"mount", "shared"} /\ token \in good /\ IssueFor(t, k, good \ {token})
        \/ /\ k \in {"mount", "shared"} /\ token \notin good
           /\ Answered(t, k, 0) /\ UNCHANGED << issued, good >>
        \/ /\ k = "logout" /\ good' = good \ {token}
           /\ Answered(t, k, token) /\ UNCHANGED issued
  /\ UNCHANGED << cookie, tab, active, call, losses, loggedOut >>

(* The connection breaks before or after the server has seen the request.  *)
Lose(t, k) ==
  /\ inFlight[t][k].at # "no" /\ losses < MaxLosses
  /\ inFlight[t][k] # Answer(0)
  /\ losses' = losses + 1
  /\ Answered(t, k, 0)
  /\ UNCHANGED << accountVars, tab, active, call, loggedOut >>

----------------------------------------------------------------------------
(* The answers.                                                            *)

Waiting(t) == {c \in Calls : TabOf[c] = t /\ call[c].at = "waiting"}

ApplyAuthenticatedState(t, n) ==
  tab' = [tab EXCEPT ![t] = [status |-> "authenticated", access |-> n]]

(* A slip: the page turns anonymous while the token stays in the client.   *)
ShowAnonymous(t) == tab' = [tab EXCEPT ![t].status = "anonymous"]

ApplyAnonymousState(t) ==
  tab' = [tab EXCEPT ![t] = [status |-> "anonymous", access |-> 0]]

(* What becomes of a call that waited: it goes out again with the new      *)
(* token, or returns the 401 it had and reports the failure.               *)
Resumed(c, n) ==
  IF n = 0 THEN [call[c] EXCEPT !.at = "done"] ELSE [at |-> "again", token |-> n]

RefreshSettles(t, n) ==
  /\ active' = active \ {t}
  /\ call' = [c \in Calls |-> IF c \in Waiting(t) THEN Resumed(c, n) ELSE call[c]]

(* Only an answer that succeeds changes the cookie.                        *)
SetCookie(n) == cookie' = IF n = 0 THEN cookie ELSE n

Deliver(t, k) ==
  /\ inFlight[t][k].at = "answered"
  /\ inFlight' = [inFlight EXCEPT ![t][k] = NoRequest]
  /\ LET n == inFlight[t][k].token
     IN \/ /\ k \in {"mount", "shared"}
           /\ SetCookie(n)
           /\ IF n = 0 THEN ApplyAnonymousState(t) ELSE ApplyAuthenticatedState(t, n)
           /\ IF k = "shared" THEN RefreshSettles(t, n) ELSE UNCHANGED << active, call >>
        \/ /\ k = "login"
           /\ SetCookie(n)
           /\ IF n = 0 THEN UNCHANGED tab ELSE ApplyAuthenticatedState(t, n)
           /\ UNCHANGED << active, call >>
        \/ /\ k = "logout"
           /\ cookie' = IF n = 0 THEN cookie ELSE 0
           /\ IF n = 0 THEN UNCHANGED tab ELSE ApplyAnonymousState(t)
           /\ UNCHANGED << active, call >>
  /\ UNCHANGED << issued, good, losses, loggedOut >>

----------------------------------------------------------------------------
(* apiFetch: a visitor's call goes out as well, without a token (0).       *)

ApiFetch(c) ==
  /\ call[c].at = "no" /\ tab[TabOf[c]].status # "closed"
  /\ call' = [call EXCEPT ![c] = [at |-> "sent", token |-> tab[TabOf[c]].access]]
  /\ UNCHANGED << accountVars, tab, inFlight, active, losses, loggedOut >>

(* getRefreshSession: the refresh that is under way, or a new one.         *)
GetRefreshSession(t) ==
  /\ active' = active \cup {t}
  /\ IF t \in active THEN UNCHANGED inFlight ELSE Send(t, "shared")

(* The first attempt: served, or answered 401, since an access token may   *)
(* run out at any time.                                                    *)
FirstAnswer(c) ==
  /\ call[c].at = "sent"
  /\ \/ /\ call' = [call EXCEPT ![c].at = "done"]
        /\ UNCHANGED << active, inFlight >>
     \/ /\ GetRefreshSession(TabOf[c])
        /\ call' = [call EXCEPT ![c].at = "waiting"]
  /\ UNCHANGED << accountVars, tab, losses, loggedOut >>

(* The second is returned whatever it says.                                *)
SecondAnswer(c) ==
  /\ call[c].at = "again"
  /\ call' = [call EXCEPT ![c].at = "done"]
  /\ UNCHANGED << accountVars, tab, inFlight, active, losses, loggedOut >>

ClientNext ==
  \/ \E t \in Tabs :
       \/ OpenTab(t) \/ Login(t) \/ Logout(t)
       \/ \E k \in Kinds : Serve(t, k) \/ Lose(t, k) \/ Deliver(t, k)
  \/ \E c \in Calls : ApiFetch(c) \/ FirstAnswer(c) \/ SecondAnswer(c)

ClientSpec == ClientInit /\ [][ClientNext]_clientVars

----------------------------------------------------------------------------
(* Properties.                                                             *)

(* The state is well formed, and a tab holds an access token exactly while *)
(* it shows the user (applyAuthenticatedState, applyAnonymousState).       *)
ClientTypeOK ==
  /\ issued \in 0..MaxTokens /\ cookie \in 0..issued /\ good \subseteq 1..issued
  /\ tab \in [Tabs -> TabState]
  /\ \A t \in Tabs : (tab[t].access # 0) = (tab[t].status = "authenticated")
  /\ inFlight \in [Tabs -> [Kinds -> Request]]
  /\ call \in [Calls -> CallState]
  /\ active \subseteq Tabs /\ losses \in 0..MaxLosses /\ loggedOut \in BOOLEAN

(* However the refreshes of the tabs overlap, the browser does not lose    *)
(* the login: when all is quiet, and nobody has logged out and no answer   *)
(* was lost, the cookie is a token the server takes (_with_refresh_cookie, *)
(* refreshSession), so that a reload restores even a tab that a lost race  *)
(* has turned anonymous.                                                   *)
LoginIsKept ==
  (/\ good # {} /\ ~loggedOut /\ losses = 0
   /\ \A t \in Tabs, k \in Kinds : inFlight[t][k] = NoRequest)
  => cookie \in good

(* A call waits only for a refresh that is really under way: a promise     *)
(* that has settled is not kept for later calls (getRefreshSession).       *)
WaitsForRefresh ==
  \A t \in Tabs :
    t \in active \/ Waiting(t) # {} => t \in active /\ inFlight[t]["shared"] # NoRequest

(* Why: a request is made where there is none;                             *)
RequestsApart ==
  \A t \in Tabs :
    /\ tab[t].status = "closed" => inFlight[t]["mount"].at = "no"
    /\ t \in active <=> inFlight[t]["shared"].at # "no"
    /\ inFlight[t]["logout"].at # "no" => loggedOut
    /\ \A k \in Kinds : inFlight[t][k].token <= issued

(* and a token on its way to the browser is known to nobody but the server *)
(* until it arrives, so that the answer that is delivered last leaves a    *)
(* cookie that nobody has exchanged.                                       *)
Returned(t, k) == k # "logout" /\ inFlight[t][k].at = "answered" /\ inFlight[t][k].token # 0

ReturnedUnused ==
  \A t \in Tabs, k \in Kinds : Returned(t, k) =>
    /\ inFlight[t][k].token # cookie
    /\ ~loggedOut => inFlight[t][k].token \in good
    /\ \A u \in Tabs, l \in Kinds :
         inFlight[u][l].token = inFlight[t][k].token => u = t /\ l = k

LoginOnItsWay ==
  good # {} /\ ~loggedOut /\ losses = 0 =>
    cookie \in good \/ \E t \in Tabs, k \in Kinds : Returned(t, k)

(* What the runs check of the browser's account, part by part.             *)
ClientInv ==
  /\ ClientTypeOK /\ LoginIsKept /\ WaitsForRefresh
  /\ RequestsApart /\ ReturnedUnused /\ LoginOnItsWay

=============================================================================
