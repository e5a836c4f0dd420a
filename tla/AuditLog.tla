------------------------------ MODULE AuditLog ------------------------------
(***************************************************************************)
(* What the audit trail promises: at-least-once delivery.  An event that   *)
(* was written is pending until the server has it, and nothing else takes  *)
(* it away.  Delivering an event again changes nothing here: the server    *)
(* drops what it has by the event's id.                                    *)
(***************************************************************************)
CONSTANT Events

VARIABLES pending, delivered

logVars == <<pending, delivered>>

Init == pending = {} /\ delivered = {}

Record ==
    \E e \in Events \ (pending \cup delivered) :
        pending' = pending \cup {e} /\ UNCHANGED delivered

Deliver ==
    \E batch \in (SUBSET pending) \ {{}} :
        /\ pending' = pending \ batch
        /\ delivered' = delivered \cup batch

Next == Record \/ Deliver

Spec == Init /\ [][Next]_logVars
=============================================================================
