----------------------------- MODULE ThinkProxy -----------------------------
(***************************************************************************)
(* The proxy through which the voice service reaches the language model    *)
(* while a conversation goes on: proxy_deepgram_think_chat_completions in  *)
(* src/api/routes/v1/deepgram.py.  A call brings a token minted by a       *)
(* bootstrap; it is counted against the quota of its session before the    *)
(* database is asked whether the session exists and the token is still     *)
(* the current one, and only then goes to the model.                       *)
(*                                                                         *)
(* Bootstraps and closeouts are single steps here; VoiceSessions has the   *)
(* transactions they consist of.                                           *)
(***************************************************************************)
EXTENDS Naturals, FiniteSets

CONSTANTS
  ProxyCalls,     \* requests that reach the proxy
  Talks,          \* sessions
  NoTalk,         \* a session id without a session, also "unknown"
  Quota,          \* calls per session and window
  MaxGeneration,  \* bootstraps of a session (a bound)
  MaxWindows      \* windows of the limiter (a bound)

ASSUME ProxyAssumption ==
  /\ {Quota, MaxGeneration, MaxWindows} \subseteq Nat \ {0}
  /\ NoTalk \notin Talks

(* A claim of the token: a generation, or none in tokens of old.           *)
NoClaim == 0
Forged == [sid |-> NoTalk, generation |-> NoClaim, genuine |-> FALSE]

Bodies == {"invalid", "plain", "stream"}

VARIABLES
  configured,  \* the upstream's address and key are set
  voiceFact,   \* the voice fact of each session
  window,      \* the limiter's current window
  used,        \* what it has counted in this window
  proxied      \* the requests

proxyVars == << configured, voiceFact, window, used, proxied >>

(* status is what was answered, 0 before that; upstream is the response of *)
(* a streaming call.  The other fields are history: `current' says whether *)
(* the token was good when the request came in, `counted' the window that  *)
(* counted it, `asked' that the database was asked on its behalf, and      *)
(* `forwarded' that the model was called.                                  *)
NotArrived ==
  [pc |-> "none", token |-> Forged, body |-> "invalid", status |-> 0,
   upstream |-> "none", current |-> FALSE, counted |-> 0,
   asked |-> FALSE, forwarded |-> FALSE]

ProxyInit ==
  /\ configured \in BOOLEAN
  /\ voiceFact = [s \in Talks |-> [status |-> "none", generation |-> 0]]
  /\ window = 1
  /\ used = [s \in Talks \cup {NoTalk} |-> 0]
  /\ proxied = [r \in ProxyCalls |-> NotArrived]

IsCurrent(token) ==
  /\ token.genuine /\ token.generation # NoClaim
  /\ token.sid \in Talks
  /\ voiceFact[token.sid] = [status |-> "active", generation |-> token.generation]

----------------------------------------------------------------------------
(* What goes on beside the proxy.                                          *)

BootstrapTalk(s) ==
  /\ voiceFact[s].generation < MaxGeneration
  /\ voiceFact' = [voiceFact EXCEPT ![s] = [status |-> "active", generation |-> @.generation + 1]]
  /\ UNCHANGED << configured, window, used, proxied >>

CompleteTalk(s) ==
  /\ voiceFact[s].status = "active"
  /\ voiceFact' = [voiceFact EXCEPT ![s].status = "completed"]
  /\ UNCHANGED << configured, window, used, proxied >>

NextWindow ==
  /\ window < MaxWindows
  /\ window' = window + 1
  /\ used' = [s \in DOMAIN used |-> 0]
  /\ UNCHANGED << configured, voiceFact, proxied >>

----------------------------------------------------------------------------
(* A request.                                                              *)

(* Whatever token has been minted so far, a forged one or none.            *)
Presented ==
  {Forged} \cup
  {t \in [sid : Talks \cup {NoTalk}, generation : 0..MaxGeneration, genuine : {TRUE}] :
     t.sid \in Talks => t.generation <= voiceFact[t.sid].generation}

Goes(r, pc) == proxied' = [proxied EXCEPT ![r].pc = pc]

(* _error_response, or the answer of the model.                            *)
Says(r, status) ==
  proxied' = [proxied EXCEPT ![r] = [@ EXCEPT !.pc = "answered", !.status = status]]

(* The header is decoded and the settings are looked at.                   *)
CallArrives(r) ==
  /\ proxied[r].pc = "none"
  /\ \E token \in Presented, body \in Bodies :
       proxied' = [proxied EXCEPT ![r] =
         [@ EXCEPT !.token = token, !.body = body, !.current = IsCurrent(token),
                   !.pc = IF token.genuine /\ configured THEN "arrived" ELSE "answered",
                   !.status = CASE ~token.genuine -> 401
                                [] token.genuine /\ ~configured -> 500
                                [] OTHER -> 0]]
  /\ UNCHANGED << configured, voiceFact, window, used >>

(* The body has been read and is well formed; the session's quota is next. *)
Admit(r) ==
  LET sid == proxied[r].token.sid
  IN /\ proxied[r].pc = "arrived" /\ proxied[r].body # "invalid"
     /\ used[sid] < Quota
     /\ used' = [used EXCEPT ![sid] = @ + 1]
     /\ proxied' = [proxied EXCEPT ![r] = [@ EXCEPT !.pc = "counted", !.counted = window]]
     /\ UNCHANGED << configured, voiceFact, window >>

RefuseCall(r) ==
  /\ proxied[r].pc = "arrived"
  /\ \/ proxied[r].body = "invalid" /\ Says(r, 400)
     \/ /\ proxied[r].body # "invalid" /\ used[proxied[r].token.sid] >= Quota
        /\ Says(r, 429)
  /\ UNCHANGED << configured, voiceFact, window, used >>

ReadHead(r) ==
  LET exists == proxied[r].token.sid \in Talks
  IN /\ proxied[r].pc = "counted"
     /\ proxied' = [proxied EXCEPT ![r] =
          [@ EXCEPT !.asked = TRUE,
                    !.pc = IF exists THEN "known" ELSE "answered",
                    !.status = IF exists THEN 0 ELSE 401]]
     /\ UNCHANGED << configured, voiceFact, window, used >>

(* A slip: any active conversation will do.                                *)
ActiveEnough(token) == voiceFact[token.sid].status = "active"

(* The fact is read by a transaction of its own.                           *)
Honours(token) ==
  /\ token.generation # NoClaim
  /\ voiceFact[token.sid].status = "active"
  /\ voiceFact[token.sid].generation = token.generation

ReadFact(r) ==
  /\ proxied[r].pc = "known"
  /\ IF Honours(proxied[r].token)
       THEN proxied' = [proxied EXCEPT ![r] = [@ EXCEPT !.pc = proxied[r].body, !.forwarded = TRUE]]
       ELSE Says(r, 401)
  /\ UNCHANGED << configured, voiceFact, window, used >>

(* The call that does not stream: JSON is passed on with its status, and   *)
(* everything else is a 502.                                               *)
PostUpstream(r) ==
  /\ proxied[r].pc = "plain"
  /\ \E status \in {200, 429, 502} : Says(r, status)
  /\ UNCHANGED << configured, voiceFact, window, used >>

----------------------------------------------------------------------------
(* _stream_think_response.                                                 *)

OpenUpstream(r) ==
  /\ proxied[r].pc = "stream"
  /\ \/ Says(r, 502)
     \/ \E pc \in {"offered", "buffering"} :
          proxied' = [proxied EXCEPT ![r] = [@ EXCEPT !.pc = pc, !.upstream = "open"]]
  /\ UNCHANGED << configured, voiceFact, window, used >>

(* The response is closed, and the call answered.                          *)
Releases(r, status) ==
  proxied' = [proxied EXCEPT ![r] =
    [@ EXCEPT !.pc = "answered", !.status = status, !.upstream = "closed"]]

(* An answer that is no event stream is read to its end and closed; that   *)
(* fails (500), or the answer is JSON, or it is not (502).                 *)
BufferUpstream(r) ==
  /\ proxied[r].pc = "buffering"
  /\ \E status \in {200, 429, 500, 502} : Releases(r, status)
  /\ UNCHANGED << configured, voiceFact, window, used >>

(* The server starts to send the stream.  A client that has left before    *)
(* that cancels the answer and the generator never begins, nor does its    *)
(* finally clause.                                                         *)
StartRelay(r) ==
  /\ proxied[r].pc = "offered"
  /\ Goes(r, "relaying") \/ Goes(r, "abandoned")
  /\ UNCHANGED << configured, voiceFact, window, used >>

(* The stream ends or breaks, or the client leaves.                        *)
EndRelay(r) ==
  /\ proxied[r].pc = "relaying"
  /\ Releases(r, 200)
  /\ UNCHANGED << configured, voiceFact, window, used >>

ProxyStep(r) ==
  \/ CallArrives(r) \/ Admit(r) \/ RefuseCall(r) \/ ReadHead(r) \/ ReadFact(r)
  \/ PostUpstream(r) \/ OpenUpstream(r) \/ BufferUpstream(r)
  \/ StartRelay(r) \/ EndRelay(r)

ProxyNext ==
  \/ \E s \in Talks : BootstrapTalk(s) \/ CompleteTalk(s)
  \/ NextWindow
  \/ \E r \in ProxyCalls : ProxyStep(r)

ProxySpec == ProxyInit /\ [][ProxyNext]_proxyVars

----------------------------------------------------------------------------
(* Properties.                                                             *)

(* Counters stay within their bounds, and a request is answered exactly    *)
(* when it is over (proxy_deepgram_think_chat_completions).                *)
ProxyTypeOK ==
  /\ used \in [Talks \cup {NoTalk} -> 0..Quota] /\ window \in 1..MaxWindows
  /\ voiceFact \in [Talks -> [status : {"none", "active", "completed"},
                               generation : 0..MaxGeneration]]
  /\ \A r \in ProxyCalls :
       (proxied[r].pc = "answered") = (proxied[r].status # 0)

(* A token that another bootstrap or a closeout had already replaced when  *)
(* the request came in never reaches the model, whatever is bootstrapped   *)
(* or completed while the request makes its two queries (the lifecycle     *)
(* binding of lines 146-177).                                              *)
StaleNeverForwarded ==
  \A r \in ProxyCalls : proxied[r].forwarded => proxied[r].current

(* However many calls come for one session, existing or not, those that    *)
(* cost a query are at most the quota of a window (lines 120-124: the      *)
(* flood is stopped before the database).                                  *)
FloodStopsAtQuota ==
  \A s \in Talks \cup {NoTalk} : \A w \in 0..MaxWindows :
    LET asking == {r \in ProxyCalls : /\ proxied[r].asked /\ proxied[r].token.sid = s
                                      /\ proxied[r].counted = w}
    IN Cardinality(asking) <= IF w = 0 THEN 0 ELSE Quota

(* The model's response is not left open behind an answer, also when it    *)
(* breaks while it is read; only an answer nobody waited for any more is   *)
(* (_stream_think_response, _iter_sse_bytes).                              *)
UpstreamReleased ==
  \A r \in ProxyCalls :
    proxied[r].forwarded /\ proxied[r].status # 0 => proxied[r].upstream # "open"

(* What the runs check of the proxy, part by part.                         *)
ProxyInv ==
  ProxyTypeOK /\ StaleNeverForwarded /\ FloodStopsAtQuota /\ UpstreamReleased

=============================================================================
