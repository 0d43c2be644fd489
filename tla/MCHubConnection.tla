-------------------------- MODULE MCHubConnection --------------------------
(* An instance of HubConnection for TLC. *)
EXTENDS HubConnection

CONSTANTS r1, s1, s2

MCServe == <<s1, s2>>
=============================================================================
