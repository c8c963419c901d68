----------------------------- MODULE MCHubAgent -----------------------------
(* Constants of the run of HubAgentLive: one agent, two jobs, a store of   *)
(* one entry; no symmetry, which would not be sound for liveness.          *)
EXTENDS HubAgentLive

MCEligible(p, b) == Node

=============================================================================
