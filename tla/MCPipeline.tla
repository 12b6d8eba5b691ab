----------------------------- MODULE MCPipeline -----------------------------
(* Instances of Pipeline for TLC: two steps, two invocations per fan-out,  *)
(* plans of up to three calls in up to three priority groups.              *)
EXTENDS Pipeline

MCModes == {"abort", "continue", "escalate_hitl"}
MCBranches == {"b1", "b2"}

Planned(id, prio, registered) ==
  [id |-> id, prio |-> prio, registered |-> registered]

MCPlans ==
  { <<>>,
    << Planned("x", 2, TRUE), Planned("y", 1, TRUE), Planned("z", 2, TRUE) >>,
    << Planned("x", 3, TRUE), Planned("y", 1, FALSE), Planned("z", 1, TRUE) >>,
    << Planned("x", 1, FALSE), Planned("y", 2, TRUE), Planned("z", 3, TRUE) >> }
=============================================================================
