----------------------------- MODULE MCTaskPool -----------------------------
(* Instance of TaskPool for TLC: one worker, and two calls of the          *)
(* application, under one of which the tool is called again.               *)
EXTENDS TaskPool

MCCalls == {"outer", "inner", "other"}
MCParent == [c \in MCCalls |-> IF c = "inner" THEN "outer" ELSE "app"]
MCQuestions == {"colour"}
MCReplies == {"red"}
=============================================================================
