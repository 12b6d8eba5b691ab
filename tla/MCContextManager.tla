-------------------------- MODULE MCContextManager --------------------------
(* Instance of ContextManager for TLC: one long and one short session.     *)
EXTENDS ContextManager

MCSessions == {"long", "short"}
MCMaxLength == [s \in MCSessions |-> IF s = "long" THEN 6 ELSE 4]
MCWindows == {2, 8, 20}
=============================================================================
