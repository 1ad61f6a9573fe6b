----------------------------- MODULE MCCompanion -----------------------------
(* The instance of Companion for TLC.  Sessions meet in the files and not  *)
(* in their tool calls: several calls, or several sessions.                *)
EXTENDS Companion

OneOrOther == agent.calls' <= 1 \/ session'.n <= 1
==============================================================================
