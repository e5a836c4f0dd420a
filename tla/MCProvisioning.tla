--------------------------- MODULE MCProvisioning ---------------------------
(* Small instances of Provisioning for TLC: whose creates they are. *)
EXTENDS Provisioning
CONSTANTS c1, c2, t1, t2

\* Every create belongs to the one workspace
Shared == [c \in Creates |-> t1]

\* No create names a workspace
Unscoped == [c \in Creates |-> None]

\* The first create has a workspace of its own
Apart == [c \in Creates |-> IF c = c1 THEN t1 ELSE t2]
=============================================================================
