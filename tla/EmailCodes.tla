----------------------------- MODULE EmailCodes -----------------------------
(***************************************************************************)
(* Registering with an e-mail address: a code is mailed, and presented.    *)
(*                                                                         *)
(*   register, resend_verification,                                        *)
(*   verify_email              src/api/services/auth_service.py            *)
(*   the users table           src/api/db/auth_db.py                       *)
(*   codes, cooldowns, counts  src/api/services/email_verification_store.py *)
(*   the mail                  src/api/services/auth_mail_queue.py,        *)
(*                             src/api/tasks/auth_mail_tasks.py            *)
(*                                                                         *)
(* The store is a dictionary under a lock, each operation one step, or     *)
(* Redis, each command a step.  All requests come from one address.        *)
(***************************************************************************)
EXTENDS Naturals

CONSTANTS
  Registers, Resends, Verifies,  \* requests
  Casts,                         \* the sets of them that are tried together
  EmailOf,                       \* EmailOf[q]: the address request q is about
  Registered,                    \* addresses registered before, not verified
  Ip,                            \* where all requests come from
  Stores,                        \* which of "memory" and "redis" are tried
  DailyLimit, MaxAttempts,
  NoCode                         \* no code; as a guess, one nobody was sent

Issuing == Registers \cup Resends
Asking == Issuing \cup Verifies
Emails == {EmailOf[q] : q \in Asking}

ASSUME CodesAssumption ==
  /\ DailyLimit \in Nat \ {0} /\ MaxAttempts \in Nat \ {0}
  /\ EmailOf \in [Asking -> Emails]
  /\ Registers \cap Resends = {} /\ Issuing \cap Verifies = {}
  /\ Ip \notin Emails /\ NoCode \notin Issuing
  /\ Stores \subseteq {"memory", "redis"}
  /\ Casts \subseteq SUBSET Asking

VARIABLES
  store,     \* which store is configured
  user,      \* user[e]: the row of the users table
  code,      \* code[e]: the code of e and the guesses it has left
  cooling,   \* the addresses, e-mail or network, that must wait
  daily,     \* daily[a]: codes counted for a today
  mail,      \* mail[q]: what became of the mail of request q
  asking,    \* asking[q]: how far request q has got
  latest,    \* history: latest[e], the last code saved for e
  wrong,     \* history: wrong[c], guesses that missed while c was the code
  crossed    \* history: codes whose payload two commands have crossed over

codeVars == <<store, user, code, cooling, daily, mail, asking, latest, wrong, crossed>>

(* A code is known by the request that made it: those of two requests are  *)
(* taken to differ.                                                        *)
Absent == [of |-> NoCode, left |-> 0]
Code == [of : Issuing, left : 1..MaxAttempts] \cup {Absent}
NewCode(q) == [of |-> q, left |-> MaxAttempts]

Done == {"answered", "refused", "failed"}
Steps == {"start", "creating", "checking", "emailKey", "ipKey", "counting", "saving",
          "mailing", "consuming", "deleting", "missed", "writing", "voiding",
          "activating"} \cup Done

AskingState == [pc : Steps, guess : Issuing \cup {NoCode}, held : Code, late : BOOLEAN]

(* Between the GET of a wrong guess and what is written back for it.       *)
Missing == {"missed", "writing", "voiding"}

CodesInit ==
  /\ store \in Stores
  /\ user = [e \in Emails |-> IF e \in Registered THEN "pending" ELSE "none"]
  /\ code = [e \in Emails |-> Absent]
  /\ cooling = {}
  /\ daily = [a \in Emails \cup {Ip} |-> 0]
  /\ mail = [q \in Issuing |-> "none"]
  /\ \E cast \in Casts : asking = [q \in Asking |->
       [pc |-> IF q \in cast THEN "start" ELSE "refused", guess |-> NoCode, held |-> Absent, late |-> FALSE]]
  /\ latest = [e \in Emails |-> NoCode]
  /\ wrong = [c \in Issuing |-> 0]
  /\ crossed = {}

Moves(q, from, to) ==
  /\ asking[q].pc = from
  /\ asking' = [asking EXCEPT ![q].pc = to]

Keys(q) == {EmailOf[q], Ip}

(* The request has set cooldowns and may yet delete them: it is shorter    *)
(* than they are.                                                          *)
Holds(q) == IF asking[q].pc = "ipKey" THEN {EmailOf[q]}
            ELSE IF asking[q].pc \in {"counting", "saving"} THEN Keys(q) ELSE {}

-----------------------------------------------------------------------------
(* register: the row is looked for, then inserted; the e-mail is unique.   *)

FindNoUser(q) ==
  /\ Moves(q, "start", IF user[EmailOf[q]] = "none" THEN "creating" ELSE "refused")
  /\ UNCHANGED <<store, user, code, cooling, daily, mail, latest, wrong, crossed>>

CreateUser(q) ==
  LET e == EmailOf[q]
  IN  /\ Moves(q, "creating", IF user[e] = "none" THEN "checking" ELSE "refused")
      /\ user' = [user EXCEPT ![e] = IF @ = "none" THEN "pending" ELSE @]
      /\ UNCHANGED <<store, code, cooling, daily, mail, latest, wrong, crossed>>

(* resend_verification answers alike whether there is anything to send.    *)
FindPending(q) ==
  /\ Moves(q, "start", IF user[EmailOf[q]] = "pending" THEN "checking" ELSE "answered")
  /\ UNCHANGED <<store, user, code, cooling, daily, mail, latest, wrong, crossed>>

-----------------------------------------------------------------------------
(* issue_code                                                              *)

WithinDaily(q) == \A a \in Keys(q) : daily[a] < DailyLimit
WithinLimits(q) == Keys(q) \cap cooling = {} /\ WithinDaily(q)

Save(q) ==
  LET e == EmailOf[q]
  IN  /\ code' = [code EXCEPT ![e] = NewCode(q)]
      /\ latest' = [latest EXCEPT ![e] = q]
      /\ daily' = IF asking[q].late THEN daily
                  ELSE [a \in DOMAIN daily |-> IF a \in Keys(q) THEN daily[a] + 1 ELSE daily[a]]

IssueInMemory(q) ==
  /\ store = "memory"
  /\ Moves(q, "checking", IF WithinLimits(q) THEN "mailing" ELSE "refused")
  /\ IF WithinLimits(q)
       THEN Save(q) /\ cooling' = cooling \cup Keys(q)
       ELSE UNCHANGED <<code, latest, daily, cooling>>
  /\ UNCHANGED <<store, user, mail, wrong, crossed>>

CheckLimits(q) ==
  /\ store = "redis"
  /\ Moves(q, "checking", IF WithinLimits(q) THEN "emailKey" ELSE "refused")
  /\ UNCHANGED <<store, user, code, cooling, daily, mail, latest, wrong, crossed>>

(* SET NX *)
TakeEmailKey(q) ==
  /\ Moves(q, "emailKey", IF EmailOf[q] \in cooling THEN "refused" ELSE "ipKey")
  /\ cooling' = cooling \cup {EmailOf[q]}
  /\ UNCHANGED <<store, user, code, daily, mail, latest, wrong, crossed>>

(* A slip: the cooldown of the e-mail is left behind.                      *)
TakeIpKeyOnly(q) ==
  /\ Moves(q, "ipKey", IF Ip \in cooling THEN "refused" ELSE "counting")
  /\ cooling' = cooling \cup {Ip}
  /\ UNCHANGED <<store, user, code, daily, mail, latest, wrong, crossed>>

(* Refused, it takes back the cooldown of the e-mail.                      *)
TakeIpKey(q) ==
  /\ Moves(q, "ipKey", IF Ip \in cooling THEN "refused" ELSE "counting")
  /\ cooling' = IF Ip \in cooling THEN cooling \ {EmailOf[q]} ELSE cooling \cup {Ip}
  /\ UNCHANGED <<store, user, code, daily, mail, latest, wrong, crossed>>

(* The counts of the day the request began on: that day may be over.       *)
CheckCounts(q) ==
  LET within == asking[q].late \/ WithinDaily(q)
  IN  /\ Moves(q, "counting", IF within THEN "saving" ELSE "refused")
      /\ cooling' = IF within THEN cooling ELSE cooling \ Keys(q)
      /\ UNCHANGED <<store, user, code, daily, mail, latest, wrong, crossed>>

(* One pipeline.  Whoever has read a code before and writes it back later  *)
(* crosses over this one.                                                  *)
SaveCode(q) ==
  /\ Moves(q, "saving", "mailing")
  /\ Save(q)
  /\ crossed' = IF \E g \in Verifies : EmailOf[g] = EmailOf[q] /\ asking[g].pc \in Missing
                  THEN crossed \cup {EmailOf[q]} ELSE crossed
  /\ UNCHANGED <<store, user, cooling, mail, wrong>>

(* The queue takes the mail or not.                                        *)
QueueMail(q) ==
  /\ \/ Moves(q, "mailing", "answered") /\ mail' = [mail EXCEPT ![q] = "queued"]
     \/ Moves(q, "mailing", "failed") /\ UNCHANGED mail
  /\ UNCHANGED <<store, user, code, cooling, daily, latest, wrong, crossed>>

(* The worker sends it, in whatever order, or gives up after its retries.  *)
SendMail(q) ==
  /\ mail[q] = "queued"
  /\ mail' \in {[mail EXCEPT ![q] = end] : end \in {"sent", "lost"}}
  /\ UNCHANGED <<store, user, code, cooling, daily, asking, latest, wrong, crossed>>

-----------------------------------------------------------------------------
(* verify_email and consume_code                                           *)

Inbox(e) == {q \in Issuing : EmailOf[q] = e /\ mail[q] = "sent"}

(* The learner types a code that was mailed, an older one perhaps, or errs. *)
PresentCode(g) ==
  /\ asking[g].pc = "start"
  /\ \E guess \in Inbox(EmailOf[g]) \cup {NoCode} :
       asking' = [asking EXCEPT
         ![g].pc = IF user[EmailOf[g]] = "pending" THEN "consuming" ELSE "refused",
         ![g].guess = guess]
  /\ UNCHANGED <<store, user, code, cooling, daily, mail, latest, wrong, crossed>>

Matches(g, stored) == stored.of # NoCode /\ stored.of = asking[g].guess

AfterMiss(stored) == IF stored.left <= 1 THEN Absent ELSE [stored EXCEPT !.left = @ - 1]

NoteMiss(stored) ==
  wrong' = IF stored.of = NoCode THEN wrong ELSE [wrong EXCEPT ![stored.of] = @ + 1]

(* A slip: a code stays when it is used.                                   *)
KeepInMemory(g) ==
  LET e == EmailOf[g]
      yes == Matches(g, code[e])
  IN  /\ store = "memory"
      /\ Moves(g, "consuming", IF yes THEN "activating" ELSE "refused")
      /\ code' = [code EXCEPT ![e] = IF yes THEN code[e] ELSE AfterMiss(code[e])]
      /\ IF yes THEN UNCHANGED wrong ELSE NoteMiss(code[e])
      /\ UNCHANGED <<store, user, cooling, daily, mail, latest, crossed>>

ConsumeInMemory(g) ==
  LET e == EmailOf[g]
      yes == Matches(g, code[e])
  IN  /\ store = "memory"
      /\ Moves(g, "consuming", IF yes THEN "activating" ELSE "refused")
      /\ code' = [code EXCEPT ![e] = IF yes THEN Absent ELSE AfterMiss(code[e])]
      /\ IF yes THEN UNCHANGED wrong ELSE NoteMiss(code[e])
      /\ UNCHANGED <<store, user, cooling, daily, mail, latest, crossed>>

(* GET.  Two that hold what they have read cross as well.                  *)
GetCode(g) ==
  LET e == EmailOf[g]
      others == {h \in Verifies \ {g} : EmailOf[h] = e /\ asking[h].pc \in Missing \cup {"deleting"}}
  IN  /\ store = "redis"
      /\ asking[g].pc = "consuming"
      /\ asking' = [asking EXCEPT
           ![g].held = code[e],
           ![g].pc = IF code[e] = Absent THEN "refused"
                     ELSE IF Matches(g, code[e]) THEN "deleting" ELSE "missed"]
      /\ crossed' = IF others = {} THEN crossed ELSE crossed \cup {e}
      /\ UNCHANGED <<store, user, code, cooling, daily, mail, latest, wrong>>

DeleteUsed(g) ==
  /\ Moves(g, "deleting", "activating")
  /\ code' = [code EXCEPT ![EmailOf[g]] = Absent]
  /\ UNCHANGED <<store, user, cooling, daily, mail, latest, wrong, crossed>>

(* TTL: of whatever code is there now; it may be gone.                     *)
ReadTtl(g) ==
  /\ \/ code[EmailOf[g]] # Absent /\ Moves(g, "missed", "writing")
     \/ Moves(g, "missed", "voiding")
  /\ UNCHANGED <<store, user, code, cooling, daily, mail, latest, wrong, crossed>>

(* SET or DELETE: the code that was read, whatever has come in its place.  *)
WriteBack(g) ==
  /\ \/ Moves(g, "writing", "refused")
        /\ code' = [code EXCEPT ![EmailOf[g]] = AfterMiss(asking[g].held)]
     \/ Moves(g, "voiding", "refused")
        /\ code' = [code EXCEPT ![EmailOf[g]] = Absent]
  /\ NoteMiss(asking[g].held)
  /\ UNCHANGED <<store, user, cooling, daily, mail, latest, crossed>>

Activate(g) ==
  /\ Moves(g, "activating", "answered")
  /\ user' = [user EXCEPT ![EmailOf[g]] = "active"]
  /\ UNCHANGED <<store, code, cooling, daily, mail, latest, wrong, crossed>>

-----------------------------------------------------------------------------
(* Time: a code is too old, a cooldown ends, it is midnight in Shanghai.   *)
CodeExpires(e) ==
  /\ code[e] # Absent
  /\ code' = [code EXCEPT ![e] = Absent]
  /\ UNCHANGED <<store, user, cooling, daily, mail, asking, latest, wrong, crossed>>

CooldownEnds(a) ==
  /\ a \in cooling
  /\ \A q \in Issuing : a \notin Holds(q)
  /\ cooling' = cooling \ {a}
  /\ UNCHANGED <<store, user, code, daily, mail, asking, latest, wrong, crossed>>

Midnight ==
  /\ \E a \in DOMAIN daily : daily[a] > 0
  /\ daily' = [a \in DOMAIN daily |-> 0]
  /\ asking' = [q \in Asking |-> [asking[q] EXCEPT !.late = @ \/ asking[q].pc \in
                  {"emailKey", "ipKey", "counting", "saving"}]]
  /\ UNCHANGED <<store, user, code, cooling, mail, latest, wrong, crossed>>

(* The process ends, or Redis or the database fails it.                    *)
Interrupt(q) ==
  /\ asking[q].pc \notin Done \cup {"start"}
  /\ asking' = [asking EXCEPT ![q].pc = "failed"]
  /\ UNCHANGED <<store, user, code, cooling, daily, mail, latest, wrong, crossed>>

Issue(q) ==
  \/ IssueInMemory(q) \/ CheckLimits(q) \/ TakeEmailKey(q) \/ TakeIpKey(q)
  \/ CheckCounts(q) \/ SaveCode(q) \/ QueueMail(q)

Consume(g) ==
  \/ ConsumeInMemory(g) \/ GetCode(g) \/ DeleteUsed(g) \/ ReadTtl(g) \/ WriteBack(g)

CodesNext ==
  \/ \E q \in Registers : FindNoUser(q) \/ CreateUser(q)
  \/ \E q \in Resends : FindPending(q)
  \/ \E q \in Issuing : Issue(q) \/ SendMail(q)
  \/ \E g \in Verifies : PresentCode(g) \/ Consume(g) \/ Activate(g)
  \/ \E q \in Asking : Interrupt(q)
  \/ \E e \in Emails : CodeExpires(e)
  \/ \E a \in Emails \cup {Ip} : CooldownEnds(a)
  \/ Midnight

CodesSpec == CodesInit /\ [][CodesNext]_codeVars

-----------------------------------------------------------------------------
CodesTypeOK ==
  /\ store \in Stores
  /\ user \in [Emails -> {"none", "pending", "active"}]
  /\ code \in [Emails -> Code] /\ latest \in [Emails -> Issuing \cup {NoCode}]
  /\ cooling \subseteq Emails \cup {Ip} /\ daily \in [Emails \cup {Ip} -> Nat]
  /\ mail \in [Issuing -> {"none", "queued", "sent", "lost"}]
  /\ asking \in [Asking -> AskingState]
  /\ wrong \in [Issuing -> Nat] /\ crossed \subseteq Emails

(* No address gets more codes in a day than it may, whatever requests race *)
(* for the last one: the cooldowns shut out all but one of them.           *)
DailyQuota == \A a \in DOMAIN daily : daily[a] <= DailyLimit

(* A request that is refused leaves nothing behind: an e-mail address      *)
(* waits only because a code was saved for it, or while a request is at    *)
(* it, or after one was interrupted there.                                 *)
CooldownMeansCode ==
  \A e \in cooling \ {Ip} :
    \/ latest[e] # NoCode
    \/ \E q \in Issuing : EmailOf[q] = e /\ (e \in Holds(q) \/ asking[q].pc = "failed")

(* Registering the same address at the same time succeeds once.            *)
RegisteredOnce ==
  \A q, r \in Registers :
    /\ EmailOf[q] = EmailOf[r]
    /\ asking[q].pc \in {"mailing", "answered"} /\ asking[r].pc \in {"mailing", "answered"}
    => q = r

Accepts(g) ==
  asking[g].pc = "consuming" /\ asking'[g].pc \in {"deleting", "activating"}

(* The code that opens an account is the last one that was saved for it,   *)
(* has been missed fewer times than it may, and nobody has used it before, *)
(* unless commands of Redis have crossed.                                  *)
CodeIsGood ==
  [][\A g \in Verifies : Accepts(g) /\ EmailOf[g] \notin crossed =>
       /\ asking[g].guess = latest[EmailOf[g]]
       /\ wrong[asking[g].guess] < MaxAttempts
       /\ \A h \in Verifies \ {g} :
            asking[h].guess = asking[g].guess => asking[h].pc \notin {"activating", "answered"}]_codeVars

(* What these rest on.  Only Redis lets others in between two commands;    *)
(* requests that hold a cooldown hold it alone, and one that is about to   *)
(* save a code has room for it in the counts of today;                     *)
OneStepInMemory ==
  store = "memory" =>
    /\ \A q \in Issuing : asking[q].pc \notin {"emailKey", "ipKey", "counting", "saving"}
    /\ \A g \in Verifies : asking[g].pc \notin Missing \cup {"deleting"}

HeldAlone ==
  /\ \A q \in Issuing : Holds(q) \subseteq cooling
  /\ \A q, r \in Issuing : q # r => Holds(q) \cap Holds(r) = {}

SavesWithin ==
  \A q \in Issuing : asking[q].pc = "saving" /\ ~asking[q].late => WithinDaily(q)

(* a registration that goes on has the row of its address to itself;       *)
OwnsRow(q) == asking[q].pc \in
  {"checking", "emailKey", "ipKey", "counting", "saving", "mailing", "answered"}

RowOwnedOnce ==
  /\ \A q \in Registers : OwnsRow(q) => user[EmailOf[q]] # "none"
  /\ \A q, r \in Registers : EmailOf[q] = EmailOf[r] /\ OwnsRow(q) /\ OwnsRow(r) => q = r

(* nobody knows a code before it is saved, and who types one has got it by *)
(* mail;                                                                   *)
Unsaved(q) == asking[q].pc \in
  {"start", "creating", "checking", "emailKey", "ipKey", "counting", "saving"}

KnownFor(stored, e) ==
  stored # Absent => ~Unsaved(stored.of) /\ EmailOf[stored.of] = e

CodesKnown ==
  /\ \A e \in Emails : KnownFor(code[e], e)
  /\ \A g \in Verifies : KnownFor(asking[g].held, EmailOf[g])
  /\ \A q \in Issuing : Unsaved(q) => wrong[q] = 0
  /\ \A q \in Issuing : mail[q] # "none" => asking[q].pc \in Done
  /\ \A g \in Verifies : asking[g].guess # NoCode =>
       mail[asking[g].guess] = "sent" /\ EmailOf[asking[g].guess] = EmailOf[g]

(* and a code, in the store or in the hands of a request that has missed   *)
(* it, is the last one, has its guesses counted and has not been used.     *)
Fresh(stored, e) ==
  stored # Absent =>
    /\ stored.of = latest[e]
    /\ stored.left + wrong[stored.of] = MaxAttempts
    /\ \A h \in Verifies :
         asking[h].guess = stored.of => asking[h].pc \notin {"activating", "answered"}

FreshUnlessCrossed ==
  /\ \A e \in Emails \ crossed : Fresh(code[e], e)
  /\ \A g \in Verifies : asking[g].pc \in Missing /\ EmailOf[g] \notin crossed =>
       /\ Fresh(asking[g].held, EmailOf[g])
       /\ code[EmailOf[g]] \in {asking[g].held, Absent}
  /\ \A g, h \in Verifies :
       /\ EmailOf[g] = EmailOf[h] /\ EmailOf[g] \notin crossed
       /\ asking[g].pc \in Missing \cup {"deleting"} /\ asking[h].pc \in Missing \cup {"deleting"}
       => g = h

(* What the runs check of registrations and codes, part by part.           *)
CodesInv ==
  /\ CodesTypeOK /\ DailyQuota /\ CooldownMeansCode /\ RegisteredOnce
  /\ OneStepInMemory /\ HeldAlone /\ SavesWithin /\ RowOwnedOnce
  /\ CodesKnown /\ FreshUnlessCrossed

-----------------------------------------------------------------------------
(* What the documents say and the code does not keep.                      *)

(* "重发后旧验证码会立即失效": once a code has been sent again the old one  *)
(* is void (the text of the mail, src/api/services/auth_mailer.py).        *)
OldCodesVoid ==
  [][\A g \in Verifies : Accepts(g) => asking[g].guess = latest[EmailOf[g]]]_codeVars
=============================================================================
