------------------------------ MODULE VoiceMC ------------------------------
(***************************************************************************)
(* Small instances of a voice conversation for TLC: the requests about it  *)
(* and their rows, the page that runs it, the proxy between the voice      *)
(* service and the model, and the limiters in front of all of them.  One   *)
(* of them moves at a time: the page and the proxy have what the rows make *)
(* of a bootstrap or a closeout in a step of their own, and the limiter's  *)
(* answer as a count or a choice.                                          *)
(***************************************************************************)
EXTENDS SessionServiceMC, VoiceAgent, ThinkProxy, RateLimits

VARIABLE part

partVars == <<vars, voice, proxyVars, limitVars, part>>

PartInit ==
  /\ part \in {"rows", "page", "proxy", "limits"}
  /\ Init /\ AgentInit /\ ProxyInit /\ LimitsInit
  /\ part # "proxy" => configured
  /\ part # "limits" => setup = [limiter |-> "llm", shared |-> FALSE, capacity |-> 0]

(* All but the rows may come to rest. *)
PartNext ==
  /\ UNCHANGED part
  /\ \/ part = "rows" /\ Next /\ UNCHANGED <<voice, proxyVars, limitVars>>
     \/ part = "page" /\ AgentNext /\ UNCHANGED <<vars, proxyVars, limitVars>>
     \/ part = "proxy" /\ ProxyNext /\ UNCHANGED <<vars, voice, limitVars>>
     \/ part = "limits" /\ LimitsNext /\ UNCHANGED <<vars, voice, proxyVars>>
     \/ part # "rows" /\ UNCHANGED <<vars, voice, proxyVars, limitVars>>

PartSpec == PartInit /\ [][PartNext]_partVars
=============================================================================
