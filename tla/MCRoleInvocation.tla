-------------------------- MODULE MCRoleInvocation --------------------------
(* Instances of RoleInvocation for TLC: a role with two distinct calls.    *)
EXTENDS RoleInvocation

MCCalls == {"fetch", "store"}
MCOneCall == {"fetch"}
MCRaises == {"RAISED"}
MCAnswers == {"ok"}
MCStubborn == {"store"}
MCAnyRaise == {"RAISED", "TIMEOUT_RAISED"}
=============================================================================
