------------------------- MODULE MCAgentInvocation -------------------------
(***************************************************************************)
(* Instance of AgentInvocation for TLC.                                    *)
(***************************************************************************)
EXTENDS AgentInvocation
=============================================================================
