--------------------------- MODULE MCMemoryStore ---------------------------
(* Instance of MemoryStore for TLC: two writers of one key, one of another. *)
EXTENDS MemoryStore

MCWriters == {"w1", "w2", "w3"}
MCKeys == {"likes", "name"}
MCKeyOf == [w \in MCWriters |-> IF w = "w3" THEN "name" ELSE "likes"]
=============================================================================
