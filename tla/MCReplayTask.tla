---------------------------- MODULE MCReplayTask ----------------------------
(* Instance of ReplayTask for TLC: up to three rounds of two questions.    *)
EXTENDS ReplayTask

MCQuestions == {"colour", "size"}
MCReplies == {"yes", "no"}
=============================================================================
