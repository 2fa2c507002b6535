-------------------------- MODULE MCAgentAuthoring --------------------------
(***************************************************************************)
(* AgentAuthoring on small instances.  Requests and tenants are            *)
(* interchangeable.                                                        *)
(***************************************************************************)
EXTENDS AgentAuthoring, TLC

Symmetry == Permutations(Requests) \union Permutations(Tenants)
=============================================================================
