--------------------------- MODULE ReplyStreamsMC ---------------------------
(***************************************************************************)
(* A small instance of ReplyStreams for TLC.                               *)
(***************************************************************************)
EXTENDS ReplyStreams

CONSTANT hi
=============================================================================
