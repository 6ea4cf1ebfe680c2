----------------------------- MODULE AccountsMC -----------------------------
(***************************************************************************)
(* Small instances of the three parts of an account for TLC.  They share   *)
(* no state, so that nothing is lost by letting one of them move at a      *)
(* time, while the others rest as they were at first.                      *)
(***************************************************************************)
EXTENDS AccountSessions, EmailCodes, AuthClient

CONSTANTS
  f2, r2, o1,          \* a second link, a second refresh, the logout
  anna, ben,           \* two addresses, the second registered before
  n1, n2,              \* registrations of anna
  s1, s2, g1, g2, g3,  \* codes sent again to ben, and guesses
  t1, c1, c2           \* a tab and its calls

(* Of the second link, the second refresh and the logout, the one that is  *)
(* left out: each two of them come together.                               *)
LeftOut == [rotation |-> f2, links |-> r2, reset |-> o1]
Sessions == DOMAIN LeftOut

(* Which requests about codes come together.                               *)
Together == {{n1, n2, s1}, {s1, s2, g1}, {s1, g1, g2, g3}}
About == [q \in {n1, n2, s1, s2, g1, g2, g3} |-> IF q \in {n1, n2} THEN anna ELSE ben]
OldUsers == {ben}

OneTab == [c \in {c1, c2} |-> t1]

VARIABLE part

partVars == <<vars, codeVars, clientVars, part>>

PartInit ==
  /\ part \in Sessions \cup {"codes", "browser"}
  /\ Init /\ CodesInit /\ ClientInit
  /\ part # "codes" => store = "memory" /\ {q \in Asking : asking[q].pc = "start"} = {n1, n2, s1}

(* Browsers and registrations may come to rest, also half way.             *)
PartNext ==
  /\ UNCHANGED part
  /\ \/ /\ part \in Sessions /\ Next /\ UNCHANGED <<codeVars, clientVars>>
        /\ request'[LeftOut[part]] = request[LeftOut[part]]
     \/ part = "codes" /\ CodesNext /\ UNCHANGED <<vars, clientVars>>
     \/ part = "browser" /\ ClientNext /\ UNCHANGED <<vars, codeVars>>
     \/ part \notin Sessions /\ UNCHANGED <<vars, codeVars, clientVars>>

PartSpec == PartInit /\ [][PartNext]_partVars /\ Fairness
=============================================================================
