------------------------- MODULE MCGroupMembership --------------------------
(* Model checking of GroupMembership on small instances. *)
EXTENDS GroupMembership
=============================================================================
