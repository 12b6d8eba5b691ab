----------------------------- MODULE MCAskTool -----------------------------
(* Instance of AskTool for TLC: two parallel calls, one that asks a human  *)
(* and one that is stubborn.                                               *)
EXTENDS AskTool

MCCalls == {"ask", "store"}
MCAsking == {"ask"}
MCAnswers == {"ok", "NETWORK"}
MCStubborn == {"store"}
MCMarkers == {"timeout", "401"}
=============================================================================
