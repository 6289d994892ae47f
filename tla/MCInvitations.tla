--------------------------- MODULE MCInvitations ----------------------------
(***************************************************************************)
(* Instances of Invitations for TLC: the invitations i1 and i2 that two    *)
(* tenants send to the same person.                                        *)
(***************************************************************************)
EXTENDS Invitations

EachItsTenant == [i \in Invs |-> IF i = "i1" THEN "t1" ELSE "t2"]
=============================================================================
