---------------------------- MODULE MCA2AHandler ----------------------------
(* Two requests of either kind, on the same id or on different ones.       *)
EXTENDS A2AHandler

MCRequests == {"first", "second"}
MCIds == {"a", "b"}
=============================================================================
