------------------------- MODULE MCAssignmentClaim -------------------------
(* Two installations elect one owner: left alone in the first configuration, *)
(* while people delete comments and operators rotate identities, recover and *)
(* reroute in the second.                                                    *)
EXTENDS AssignmentClaim

CONSTANTS i1, i2, r1, r2
=============================================================================
