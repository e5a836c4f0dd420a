-------------------------- MODULE ProvisioningProofs --------------------------
(***************************************************************************)
(* What Provisioning promises whatever the creates, workers, instances and  *)
(* bounds: type correctness, that somebody is at work for whoever waits,    *)
(* that failed creates give their VM back, that there is one attempt at a   *)
(* time until somebody gives up waiting, and, where nothing is forgotten,   *)
(* that workspaces do not share machines.                                   *)
(***************************************************************************)
EXTENDS Provisioning, TLAPS, FiniteSetTheorems

\* Phases in which the create has no VM yet, and those in which it has a worker.
Before == {"idle", "reserve", "wait", "grace", "create"}
OnWorker == {"placed", "recorded", "running", "errored"}

\* A create that was taken up knows its instance, a placed one its worker.
Assigned == \A c \in Creates :
    /\ cr[c].ph \notin {"idle", "dead"} => cr[c].node \in Nodes
    /\ cr[c].ph \in OnWorker => cr[c].worker \in Workers

\* A create that has not come to CreateVM has no VM; a worker on record and one
\* that is being reaped has one.
NoVMYet == \A c \in Creates : cr[c].ph \in Before => vm[c] = "none"
VMKnown == /\ \A c \in Creates : rec[c].state # "ABSENT" => vm[c] # "none"
           /\ \A n \in Nodes : rp[n] # None => vm[rp[n]] # "none"

\* Until somebody gives up waiting, prompt attempts have the reservation to
\* themselves.
Alone == Prompt /\ gaveUp = {} =>
    \A n \in Nodes : HeldAt(n) # {} => /\ book[n] = "fresh"
                                       /\ \A c, d \in HeldAt(n) : c = d

\* What the records of creates (NoCreate, Crash's "dead" ones) are made of.
LEMMA CreateFacts ==
    /\ NoCreate \in Create /\ [NoCreate EXCEPT !.ph = "dead"] \in Create
    /\ [NoCreate EXCEPT !.ph = "dead"].ph = "dead"
    /\ \A r \in Create : /\ r.ph \in Phase /\ r.node \in Nodes \cup {None}
                          /\ r.worker \in Workers \cup {None}
                          /\ r.met \in SUBSET Creates
    /\ \A x \in Phase, n \in Nodes \cup {None}, w \in Workers \cup {None},
          m \in SUBSET Creates :
             [ph |-> x, node |-> n, worker |-> w, met |-> m] \in Create
BY DEF NoCreate, Create, Phase

\* What the worker records are made of, for Register, Heartbeat and SetOffline.
LEMMA RecordFacts ==
    /\ NoRecord \in Record /\ NoRecord.state = "ABSENT"
    /\ \A r \in Record : r.state \in {"ABSENT", "ONLINE", "OFFLINE"}
                          /\ r.ws \in Tenants \cup {None} /\ r.used \in Nat
    /\ \A r \in Record, u \in Nat : [r EXCEPT !.used = u] \in Record
    /\ \A r \in Record, x \in {"ABSENT", "ONLINE", "OFFLINE"} :
          [r EXCEPT !.state = x] \in Record
    /\ \A t \in Tenants \cup {None}, u \in Nat :
          [state |-> "ONLINE", ws |-> t, used |-> u] \in Record
BY DEF NoRecord, Record

\* r is a create in phase x at instance n, on worker w if it has one.
Is(r, x, n, w) == r \in Create /\ r.ph = x /\ r.node = n /\ r.worker = w

\* The step takes create c there and leaves the other creates alone.
MoveTo(c, x, n, w) == \E r \in Create : Is(r, x, n, w) /\ cr' = [cr EXCEPT ![c] = r]

\* What such a step does.
Moved(c, x, n, w) ==
    /\ cr' \in [Creates -> Create]
    /\ cr'[c].ph = x /\ cr'[c].node = n /\ cr'[c].worker = w
    /\ \A d \in Creates \ {c} : cr'[d] = cr[d]
    /\ \A k \in Nodes : HeldAt(k)' =
          IF k = n /\ x \in Holding THEN HeldAt(k) \cup {c} ELSE HeldAt(k) \ {c}

\* MoveTo moves one create, in or out of the attempts under way.
LEMMA MoveFacts ==
    ASSUME TypeOK, NEW c \in Creates, NEW x, NEW n, NEW w, MoveTo(c, x, n, w)
    PROVE  Moved(c, x, n, w)
<1>1. PICK r \in Create : Is(r, x, n, w) /\ cr' = [cr EXCEPT ![c] = r]
  BY DEF MoveTo
<1>2. cr \in [Creates -> Create]
  BY DEF TypeOK
<1>3. /\ cr' \in [Creates -> Create]
      /\ cr'[c].ph = x /\ cr'[c].node = n /\ cr'[c].worker = w
      /\ \A d \in Creates \ {c} : cr'[d] = cr[d]
  BY <1>1, <1>2 DEF Is
<1>4. ASSUME NEW k \in Nodes
      PROVE  HeldAt(k)' = IF k = n /\ x \in Holding THEN HeldAt(k) \cup {c}
                          ELSE HeldAt(k) \ {c}
  BY <1>3 DEF HeldAt
<1> QED
  BY <1>3, <1>4 DEF Moved

\* The ways the scheduler's steps write cr move one create.
LEMMA Helpers ==
    ASSUME TypeOK, NEW c \in Creates, NEW x \in Phase
    PROVE  /\ Goto(c, x) => Moved(c, x, cr[c].node, cr[c].worker)
           /\ \A m \in SUBSET Creates :
                 Meet(c, x, m) => Moved(c, x, cr[c].node, cr[c].worker)
           /\ \A n \in Nodes : TakeUp(c, n, x) => Moved(c, x, n, cr[c].worker)
           /\ \A n \in Nodes, w \in Workers : PlaceOn(c, n, w) => Moved(c, "placed", n, w)
<1>0. cr \in [Creates -> Create] /\ cr[c] \in Create
  BY DEF TypeOK
<1>1. ASSUME Goto(c, x) PROVE Moved(c, x, cr[c].node, cr[c].worker)
  <2> DEFINE r == [cr[c] EXCEPT !.ph = x]
  <2>1. Is(r, x, cr[c].node, cr[c].worker)
    BY <1>0 DEF Is, Create
  <2>2. cr' = [cr EXCEPT ![c] = r]
    BY <1>1 DEF Goto
  <2> QED
    BY <2>1, <2>2, MoveFacts DEF MoveTo, Is
<1>2. ASSUME NEW m \in SUBSET Creates, Meet(c, x, m)
      PROVE  Moved(c, x, cr[c].node, cr[c].worker)
  <2> DEFINE r == [cr[c] EXCEPT !.ph = x, !.met = m]
  <2>1. Is(r, x, cr[c].node, cr[c].worker)
    BY <1>0 DEF Is, Create
  <2>2. cr' = [cr EXCEPT ![c] = r]
    BY <1>0, <1>2 DEF Meet
  <2> QED
    BY <2>1, <2>2, MoveFacts DEF MoveTo, Is
<1>3. ASSUME NEW n \in Nodes, TakeUp(c, n, x) PROVE Moved(c, x, n, cr[c].worker)
  <2> DEFINE r == [cr[c] EXCEPT !.ph = x, !.node = n]
  <2>1. Is(r, x, n, cr[c].worker)
    BY <1>0, <1>3 DEF Is, Create
  <2>2. cr' = [cr EXCEPT ![c] = r]
    BY <1>0, <1>3 DEF TakeUp
  <2> QED
    BY <2>1, <2>2, MoveFacts DEF MoveTo, Is
<1>4. ASSUME NEW n \in Nodes, NEW w \in Workers, PlaceOn(c, n, w)
      PROVE  Moved(c, "placed", n, w)
  <2> DEFINE r == [ph |-> "placed", node |-> n, worker |-> w,
                   met |-> UNION {since[m] : m \in Nodes}]
  <2>1. UNION {since[m] : m \in Nodes} \in SUBSET Creates
    BY DEF TypeOK
  <2>2. Is(r, "placed", n, w)
    BY <2>1, CreateFacts DEF Is, Phase
  <2>3. cr' = [cr EXCEPT ![c] = r]
    BY <1>4 DEF PlaceOn
  <2> QED
    BY <2>2, <2>3, MoveFacts DEF MoveTo, Is
<1> QED
  BY <1>1, <1>2, <1>3, <1>4

\* Where each of the scheduler's actions takes its create.
LEMMA Moves ==
    ASSUME TypeOK, Assigned, NEW c \in Creates
    PROVE  /\ \A n \in Nodes, w \in Workers : Select(c, n, w) => Moved(c, "placed", n, w)
           /\ \A n \in Nodes : SelectNoneLocal(c, n) =>
                 \/ Moved(c, "failed", n, cr[c].worker)
                 \/ Moved(c, "grace", n, cr[c].worker)
           /\ \A n \in Nodes : SelectNone(c, n) => Moved(c, "reserve", n, cr[c].worker)
           /\ Reserve(c) =>
                 \/ Moved(c, "wait", cr[c].node, cr[c].worker)
                 \/ Moved(c, "create", cr[c].node, cr[c].worker)
           /\ \A w \in Workers : PollPlaced(c, w) => Moved(c, "placed", cr[c].node, w)
           /\ GraceTimeout(c) => Moved(c, "failed", cr[c].node, cr[c].worker)
           /\ GiveUpWaiting(c) => Moved(c, "create", cr[c].node, cr[c].worker)
           /\ CreateVMFails(c) => Moved(c, "failed", cr[c].node, cr[c].worker)
           /\ CreateVM(c) =>
                 \/ Moved(c, "boot", cr[c].node, cr[c].worker)
                 \/ Moved(c, "failed", cr[c].node, cr[c].worker)
           /\ VMReady(c) => Moved(c, "setup", cr[c].node, cr[c].worker)
           /\ SetupPoder(c) => Moved(c, "register", cr[c].node, cr[c].worker)
           /\ AttemptFails(c) => Moved(c, "giveback", cr[c].node, cr[c].worker)
           /\ TerminateOrphanVM(c) => Moved(c, "failed", cr[c].node, cr[c].worker)
           /\ AddRecord(c) => Moved(c, "recorded", cr[c].node, cr[c].worker)
           /\ Deliver(c) =>
                 \/ Moved(c, "running", cr[c].node, cr[c].worker)
                 \/ Moved(c, "errored", cr[c].node, cr[c].worker)
           /\ DeleteSandbox(c) => Moved(c, "deleted", cr[c].node, cr[c].worker)
<1> USE DEF Assigned
<1>0. HeldAt(cr[c].node) \in SUBSET Creates
  BY DEF HeldAt
<1>1. ASSUME NEW n \in Nodes, NEW w \in Workers, Select(c, n, w)
      PROVE  Moved(c, "placed", n, w)
  BY <1>1, Helpers DEF Select, Phase, Holding, Polling
<1>2. ASSUME NEW n \in Nodes, SelectNoneLocal(c, n)
      PROVE  Moved(c, "failed", n, cr[c].worker) \/ Moved(c, "grace", n, cr[c].worker)
  BY <1>2, Helpers DEF SelectNoneLocal, Phase, Holding, Polling
<1>3. ASSUME NEW n \in Nodes, SelectNone(c, n)
      PROVE  Moved(c, "reserve", n, cr[c].worker)
  BY <1>3, Helpers DEF SelectNone, Phase, Holding, Polling
<1>4. ASSUME Reserve(c)
      PROVE  \/ Moved(c, "wait", cr[c].node, cr[c].worker)
             \/ Moved(c, "create", cr[c].node, cr[c].worker)
  BY <1>4, <1>0, Helpers DEF Reserve, Phase, Holding, Polling
<1>5. ASSUME NEW w \in Workers, PollPlaced(c, w)
      PROVE  Moved(c, "placed", cr[c].node, w)
  BY <1>5, Helpers DEF PollPlaced, Phase, Holding, Polling
<1>6. ASSUME GraceTimeout(c)
      PROVE  Moved(c, "failed", cr[c].node, cr[c].worker)
  BY <1>6, Helpers DEF GraceTimeout, Phase, Holding, Polling
<1>7. ASSUME GiveUpWaiting(c)
      PROVE  Moved(c, "create", cr[c].node, cr[c].worker)
  BY <1>7, Helpers DEF GiveUpWaiting, Phase, Holding, Polling
<1>8. ASSUME CreateVMFails(c)
      PROVE  Moved(c, "failed", cr[c].node, cr[c].worker)
  BY <1>8, Helpers DEF CreateVMFails, Fail, Phase, Holding, Polling
<1>9. ASSUME CreateVM(c)
      PROVE  \/ Moved(c, "boot", cr[c].node, cr[c].worker)
             \/ Moved(c, "failed", cr[c].node, cr[c].worker)
  BY <1>9, Helpers DEF CreateVM, Fail, Phase, Holding, Polling
<1>10. ASSUME VMReady(c)
      PROVE  Moved(c, "setup", cr[c].node, cr[c].worker)
  BY <1>10, Helpers DEF VMReady, Phase, Holding, Polling
<1>11. ASSUME SetupPoder(c)
      PROVE  Moved(c, "register", cr[c].node, cr[c].worker)
  BY <1>11, Helpers DEF SetupPoder, Phase, Holding, Polling
<1>12. ASSUME AttemptFails(c)
      PROVE  Moved(c, "giveback", cr[c].node, cr[c].worker)
  BY <1>12, Helpers DEF AttemptFails, Phase, Holding, Polling
<1>13. ASSUME TerminateOrphanVM(c)
      PROVE  Moved(c, "failed", cr[c].node, cr[c].worker)
  BY <1>13, Helpers DEF TerminateOrphanVM, Fail, Phase, Holding, Polling
<1>14. ASSUME AddRecord(c)
      PROVE  Moved(c, "recorded", cr[c].node, cr[c].worker)
  BY <1>14, Helpers DEF AddRecord, Phase, Holding, Polling
<1>15. ASSUME Deliver(c)
      PROVE  \/ Moved(c, "running", cr[c].node, cr[c].worker)
             \/ Moved(c, "errored", cr[c].node, cr[c].worker)
  BY <1>15, Helpers DEF Deliver, Phase, Holding, Polling
<1>16. ASSUME DeleteSandbox(c)
      PROVE  Moved(c, "deleted", cr[c].node, cr[c].worker)
  BY <1>16, Helpers DEF DeleteSandbox, Phase, Holding, Polling
<1> QED
  BY <1>1, <1>2, <1>3, <1>4, <1>5, <1>6, <1>7, <1>8, <1>9, <1>10, <1>11, <1>12,
     <1>13, <1>14, <1>15, <1>16

\* Every step keeps creates with their instance and their worker.
LEMMA AssignedStep ==
    ASSUME TypeOK, Assigned, [Next]_vars
    PROVE  Assigned'
<1> USE DEF Holding, Polling, OnWorker, procVars, dbVars, outVars, histVars
<1>1. ASSUME NEW c \in Creates, NEW n \in Nodes, NEW w \in Workers, Select(c, n, w)
      PROVE  Assigned'
  <2>1. Moved(c, "placed", n, w)
    BY <1>1, Moves
  <2> QED
    BY <1>1, <2>1, CreateFacts DEF Select, Moved, TypeOK, Assigned, Phase
<1>2. ASSUME NEW c \in Creates, NEW n \in Nodes, SelectNoneLocal(c, n)
      PROVE  Assigned'
  <2>1. \/ Moved(c, "failed", n, cr[c].worker)
        \/ Moved(c, "grace", n, cr[c].worker)
    BY <1>2, Moves
  <2> QED
    BY <1>2, <2>1, CreateFacts DEF SelectNoneLocal, Moved, TypeOK, Assigned, Phase
<1>3. ASSUME NEW c \in Creates, NEW n \in Nodes, SelectNone(c, n)
      PROVE  Assigned'
  <2>1. Moved(c, "reserve", n, cr[c].worker)
    BY <1>3, Moves
  <2> QED
    BY <1>3, <2>1, CreateFacts, ZenonT(40) DEF SelectNone, Moved, TypeOK, Assigned, Phase
<1>4. ASSUME NEW c \in Creates, Reserve(c)
      PROVE  Assigned'
  <2>1. \/ Moved(c, "wait", cr[c].node, cr[c].worker)
        \/ Moved(c, "create", cr[c].node, cr[c].worker)
    BY <1>4, Moves
  <2> QED
    BY <1>4, <2>1, CreateFacts, ZenonT(40) DEF Reserve, Moved, TypeOK, Assigned, Phase
<1>5. ASSUME NEW c \in Creates, NEW w \in Workers, PollPlaced(c, w)
      PROVE  Assigned'
  <2>1. Moved(c, "placed", cr[c].node, w)
    BY <1>5, Moves
  <2> QED
    BY <1>5, <2>1, CreateFacts, ZenonT(40) DEF PollPlaced, Release, Moved, TypeOK, Assigned, Phase
<1>6. ASSUME NEW c \in Creates, GraceTimeout(c)
      PROVE  Assigned'
  <2>1. Moved(c, "failed", cr[c].node, cr[c].worker)
    BY <1>6, Moves
  <2> QED
    BY <1>6, <2>1, CreateFacts, ZenonT(40) DEF GraceTimeout, Moved, TypeOK, Assigned, Phase
<1>7. ASSUME NEW c \in Creates, GiveUpWaiting(c)
      PROVE  Assigned'
  <2>1. Moved(c, "create", cr[c].node, cr[c].worker)
    BY <1>7, Moves
  <2> QED
    BY <1>7, <2>1, CreateFacts, ZenonT(40) DEF GiveUpWaiting, Moved, TypeOK, Assigned, Phase
<1>8. ASSUME NEW c \in Creates, CreateVMFails(c)
      PROVE  Assigned'
  <2>1. Moved(c, "failed", cr[c].node, cr[c].worker)
    BY <1>8, Moves
  <2> QED
    BY <1>8, <2>1, CreateFacts, ZenonT(40) DEF CreateVMFails, Fail, Release, Moved, TypeOK,
       Assigned, Phase
<1>9. ASSUME NEW c \in Creates, CreateVM(c)
      PROVE  Assigned'
  <2>1. \/ Moved(c, "boot", cr[c].node, cr[c].worker)
        \/ Moved(c, "failed", cr[c].node, cr[c].worker)
    BY <1>9, Moves
  <2> QED
    BY <1>9, <2>1, CreateFacts, SMTT(20) DEF CreateVM, Fail, Release, Moved, TypeOK, Assigned,
       Phase
<1>10. ASSUME NEW c \in Creates, VMBoots(c)
      PROVE  Assigned'
  BY <1>10, CreateFacts DEF VMBoots, TypeOK, Assigned, Phase
<1>11. ASSUME NEW c \in Creates, VMReady(c)
      PROVE  Assigned'
  <2>1. Moved(c, "setup", cr[c].node, cr[c].worker)
    BY <1>11, Moves
  <2> QED
    BY <1>11, <2>1, CreateFacts, ZenonT(40) DEF VMReady, Moved, TypeOK, Assigned, Phase
<1>12. ASSUME NEW c \in Creates, SetupPoder(c)
      PROVE  Assigned'
  <2>1. Moved(c, "register", cr[c].node, cr[c].worker)
    BY <1>12, Moves
  <2> QED
    BY <1>12, <2>1, CreateFacts, ZenonT(40) DEF SetupPoder, Moved, TypeOK, Assigned, Phase
<1>13. ASSUME NEW c \in Creates, AttemptFails(c)
      PROVE  Assigned'
  <2>1. Moved(c, "giveback", cr[c].node, cr[c].worker)
    BY <1>13, Moves
  <2> QED
    BY <1>13, <2>1, CreateFacts, ZenonT(40) DEF AttemptFails, Moved, TypeOK, Assigned, Phase
<1>14. ASSUME NEW c \in Creates, TerminateOrphanVM(c)
      PROVE  Assigned'
  <2>1. Moved(c, "failed", cr[c].node, cr[c].worker)
    BY <1>14, Moves
  <2> QED
    BY <1>14, <2>1, CreateFacts, ZenonT(40) DEF TerminateOrphanVM, Terminate, Fail, Release,
       Moved, TypeOK, Assigned, Phase
<1>15. ASSUME NEW c \in Creates, AddRecord(c)
      PROVE  Assigned'
  <2>1. Moved(c, "recorded", cr[c].node, cr[c].worker)
    BY <1>15, Moves
  <2> QED
    BY <1>15, <2>1, CreateFacts DEF AddRecord, Moved, TypeOK, Assigned, Phase
<1>16. ASSUME NEW c \in Creates, Deliver(c)
      PROVE  Assigned'
  <2>1. \/ Moved(c, "running", cr[c].node, cr[c].worker)
        \/ Moved(c, "errored", cr[c].node, cr[c].worker)
    BY <1>16, Moves
  <2> QED
    BY <1>16, <2>1, CreateFacts, ZenonT(40) DEF Deliver, Moved, TypeOK, Assigned, Phase
<1>17. ASSUME NEW c \in Creates, DeleteSandbox(c)
      PROVE  Assigned'
  <2>1. Moved(c, "deleted", cr[c].node, cr[c].worker)
    BY <1>17, Moves
  <2> QED
    BY <1>17, <2>1, CreateFacts, ZenonT(40) DEF DeleteSandbox, Moved, TypeOK, Assigned, Phase
<1>18. ASSUME NEW w \in Workers, NEW n \in Nodes, Register(w, n)
      PROVE  Assigned'
  BY <1>18, CreateFacts DEF Register, TypeOK, Assigned, Phase
<1>19. ASSUME NEW w \in Workers, Disconnect(w)
      PROVE  Assigned'
  BY <1>19, CreateFacts DEF Disconnect, TypeOK, Assigned, Phase
<1>20. ASSUME NEW w \in Workers, Heartbeat(w)
      PROVE  Assigned'
  BY <1>20, CreateFacts DEF Heartbeat, TypeOK, Assigned, Phase
<1>21. ASSUME NEW w \in Workers, NEW n \in Nodes, Sweep(w, n)
      PROVE  Assigned'
  BY <1>21, CreateFacts DEF Sweep, TypeOK, Assigned, Phase
<1>22. ASSUME NEW n \in Nodes, NEW c \in Creates, ForgetTenant(n, c)
      PROVE  Assigned'
  BY <1>22, CreateFacts DEF ForgetTenant, TypeOK, Assigned, Phase
<1>23. ASSUME NEW n \in Nodes, Expire(n)
      PROVE  Assigned'
  BY <1>23, CreateFacts DEF Expire, TypeOK, Assigned, Phase
<1>24. ASSUME NEW n \in Nodes, NEW c \in Creates, ReapWatch(n, c)
      PROVE  Assigned'
  BY <1>24, CreateFacts DEF ReapWatch, TypeOK, Assigned, Phase
<1>25. ASSUME NEW n \in Nodes, NEW c \in Creates, ReapStart(n, c)
      PROVE  Assigned'
  BY <1>25, CreateFacts DEF ReapStart, TypeOK, Assigned, Phase
<1>26. ASSUME NEW n \in Nodes, ReapEnd(n)
      PROVE  Assigned'
  BY <1>26, CreateFacts DEF ReapEnd, Terminate, TypeOK, Assigned, Phase
<1>27. ASSUME NEW n \in Nodes, Crash(n)
      PROVE  Assigned'
  BY <1>27, CreateFacts DEF Crash, TypeOK, Assigned, Phase
<1>28. CASE UNCHANGED vars
  BY <1>28 DEF vars, TypeOK, Assigned, Phase
<1> QED
  BY <1>1, <1>2, <1>3, <1>4, <1>5, <1>6, <1>7, <1>8, <1>9, <1>10, <1>11, <1>12,
     <1>13, <1>14, <1>15, <1>16, <1>17, <1>18, <1>19, <1>20, <1>21, <1>22, <1>23,
     <1>24, <1>25, <1>26, <1>27, <1>28 DEF Next, ScheduleStep

\* Every step keeps the type invariant.
LEMMA TypeStep ==
    ASSUME TypeOK, Assigned, [Next]_vars
    PROVE  TypeOK'
<1> USE ProvisioningAssumption DEF Assigned, Holding, Polling, OnWorker, procVars,
   dbVars, outVars, histVars
<1>1. ASSUME NEW c \in Creates, NEW n \in Nodes, NEW w \in Workers, Select(c, n, w)
      PROVE  TypeOK'
  <2>1. Moved(c, "placed", n, w)
    BY <1>1, Moves
  <2> QED
    BY <1>1, <2>1, CreateFacts, RecordFacts DEF Select, Moved, TypeOK
<1>2. ASSUME NEW c \in Creates, NEW n \in Nodes, SelectNoneLocal(c, n)
      PROVE  TypeOK'
  <2>1. \/ Moved(c, "failed", n, cr[c].worker)
        \/ Moved(c, "grace", n, cr[c].worker)
    BY <1>2, Moves
  <2> QED
    BY <1>2, <2>1, CreateFacts, RecordFacts DEF SelectNoneLocal, Moved, TypeOK
<1>3. ASSUME NEW c \in Creates, NEW n \in Nodes, SelectNone(c, n)
      PROVE  TypeOK'
  <2>1. Moved(c, "reserve", n, cr[c].worker)
    BY <1>3, Moves
  <2> QED
    BY <1>3, <2>1, CreateFacts, RecordFacts DEF SelectNone, Moved, TypeOK
<1>4. ASSUME NEW c \in Creates, Reserve(c)
      PROVE  TypeOK'
  <2>1. cr' \in [Creates -> Create]
    BY <1>4, Moves DEF Moved
  <2>2. book' \in [Nodes -> {"free", "fresh", "expired"}]
    BY <1>4, RecordFacts DEF Reserve, TypeOK
  <2> QED
    BY <1>4, <2>1, <2>2 DEF Reserve, TypeOK
<1>5. ASSUME NEW c \in Creates, NEW w \in Workers, PollPlaced(c, w)
      PROVE  TypeOK'
  <2>1. cr' \in [Creates -> Create]
    BY <1>5, Moves DEF Moved
  <2>2. book' \in [Nodes -> {"free", "fresh", "expired"}]
    BY <1>5, RecordFacts DEF PollPlaced, Release, TypeOK
  <2> QED
    BY <1>5, <2>1, <2>2 DEF PollPlaced, Release, TypeOK
<1>6. ASSUME NEW c \in Creates, GraceTimeout(c)
      PROVE  TypeOK'
  <2>1. Moved(c, "failed", cr[c].node, cr[c].worker)
    BY <1>6, Moves
  <2> QED
    BY <1>6, <2>1, CreateFacts, RecordFacts DEF GraceTimeout, Moved, TypeOK
<1>7. ASSUME NEW c \in Creates, GiveUpWaiting(c)
      PROVE  TypeOK'
  <2>1. cr' \in [Creates -> Create]
    BY <1>7, Moves DEF Moved
  <2>2. book' \in [Nodes -> {"free", "fresh", "expired"}]
    BY <1>7, RecordFacts DEF GiveUpWaiting, TypeOK
  <2>3. gaveUp' \in SUBSET Creates
    BY <1>7, RecordFacts DEF GiveUpWaiting, TypeOK
  <2> QED
    BY <1>7, <2>1, <2>2, <2>3 DEF GiveUpWaiting, TypeOK
<1>8. ASSUME NEW c \in Creates, CreateVMFails(c)
      PROVE  TypeOK'
  <2>1. Moved(c, "failed", cr[c].node, cr[c].worker)
    BY <1>8, Moves
  <2> QED
    BY <1>8, <2>1, CreateFacts, RecordFacts DEF CreateVMFails, Fail, Release, Moved,
       TypeOK
<1>9. ASSUME NEW c \in Creates, CreateVM(c)
      PROVE  TypeOK'
  <2>1. cr' \in [Creates -> Create]
    BY <1>9, Moves DEF Moved
  <2>2. vm' \in [Creates -> {"none", "booting", "ready", "worker", "broken", "gone"}]
    BY <1>9, RecordFacts DEF CreateVM, Fail, Release, TypeOK
  <2>3. tenant' \in [Nodes -> [Creates -> Tenants \cup {None}]]
    BY <1>9, RecordFacts DEF CreateVM, Fail, Release, TypeOK
  <2>4. book' \in [Nodes -> {"free", "fresh", "expired"}]
    BY <1>9, RecordFacts DEF CreateVM, Fail, Release, TypeOK
  <2>5. told' \in SUBSET Creates
    BY <1>9, RecordFacts, ZenonT(40) DEF CreateVM, Fail, Release, TypeOK
  <2> QED
    BY <1>9, <2>1, <2>2, <2>3, <2>4, <2>5 DEF CreateVM, Fail, Release, TypeOK
<1>10. ASSUME NEW c \in Creates, VMBoots(c)
      PROVE  TypeOK'
  BY <1>10, CreateFacts, RecordFacts DEF VMBoots, TypeOK
<1>11. ASSUME NEW c \in Creates, VMReady(c)
      PROVE  TypeOK'
  <2>1. Moved(c, "setup", cr[c].node, cr[c].worker)
    BY <1>11, Moves
  <2> QED
    BY <1>11, <2>1, CreateFacts, RecordFacts DEF VMReady, Moved, TypeOK
<1>12. ASSUME NEW c \in Creates, SetupPoder(c)
      PROVE  TypeOK'
  <2>1. cr' \in [Creates -> Create]
    BY <1>12, Moves DEF Moved
  <2>2. vm' \in [Creates -> {"none", "booting", "ready", "worker", "broken", "gone"}]
    BY <1>12, RecordFacts DEF SetupPoder, TypeOK
  <2> QED
    BY <1>12, <2>1, <2>2 DEF SetupPoder, TypeOK
<1>13. ASSUME NEW c \in Creates, AttemptFails(c)
      PROVE  TypeOK'
  <2>1. cr' \in [Creates -> Create]
    BY <1>13, Moves DEF Moved
  <2>2. vm' \in [Creates -> {"none", "booting", "ready", "worker", "broken", "gone"}]
    BY <1>13, RecordFacts DEF AttemptFails, TypeOK
  <2> QED
    BY <1>13, <2>1, <2>2 DEF AttemptFails, TypeOK
<1>14. ASSUME NEW c \in Creates, TerminateOrphanVM(c)
      PROVE  TypeOK'
  <2>1. cr' \in [Creates -> Create]
    BY <1>14, Moves DEF Moved
  <2>2. vm' \in [Creates -> {"none", "booting", "ready", "worker", "broken", "gone"}]
    BY <1>14, RecordFacts DEF TerminateOrphanVM, Terminate, Fail, Release, TypeOK
  <2>3. host' \in [Workers -> SUBSET Creates]
    BY <1>14, RecordFacts DEF TerminateOrphanVM, Terminate, Fail, Release, TypeOK
  <2>4. told' \in SUBSET Creates
    BY <1>14, RecordFacts DEF TerminateOrphanVM, Terminate, Fail, Release, TypeOK
  <2>5. book' \in [Nodes -> {"free", "fresh", "expired"}]
    BY <1>14, RecordFacts DEF TerminateOrphanVM, Terminate, Fail, Release, TypeOK
  <2> QED
    BY <1>14, <2>1, <2>2, <2>3, <2>4, <2>5 DEF TerminateOrphanVM, Terminate, Fail,
       Release, TypeOK
<1>15. ASSUME NEW c \in Creates, AddRecord(c)
      PROVE  TypeOK'
  <2>1. cr' \in [Creates -> Create]
    BY <1>15, Moves DEF Moved
  <2>2. sbrec' \in [Workers -> SUBSET Creates]
    <3>1. cr[c].worker \in Workers
      BY <1>15 DEF AddRecord, Assigned
    <3> DEFINE w == cr[c].worker
    <3>2. sbrec' = [sbrec EXCEPT ![w] = sbrec[w] \cup {c}]
      BY <1>15 DEF AddRecord
    <3> QED
      BY <3>1, <3>2 DEF TypeOK
  <2> QED
    BY <1>15, <2>1, <2>2 DEF AddRecord, TypeOK
<1>16. ASSUME NEW c \in Creates, Deliver(c)
      PROVE  TypeOK'
  <2>1. cr' \in [Creates -> Create]
    BY <1>16, Moves DEF Moved
  <2>2. host' \in [Workers -> SUBSET Creates]
    <3>1. cr[c].worker \in Workers
      BY <1>16 DEF Deliver, Assigned
    <3> DEFINE w == cr[c].worker
    <3>2. host' = [host EXCEPT ![w] = host[w] \cup {c}] \/ host' = host
      BY <1>16 DEF Deliver
    <3> QED
      BY <3>1, <3>2, SMTT(20) DEF TypeOK
  <2> QED
    BY <1>16, <2>1, <2>2 DEF Deliver, TypeOK
<1>17. ASSUME NEW c \in Creates, DeleteSandbox(c)
      PROVE  TypeOK'
  <2>1. cr' \in [Creates -> Create]
    BY <1>17, Moves DEF Moved
  <2>2. sbrec' \in [Workers -> SUBSET Creates]
    <3>1. cr[c].worker \in Workers
      BY <1>17 DEF DeleteSandbox, Assigned
    <3> DEFINE w == cr[c].worker
    <3>2. sbrec' = [sbrec EXCEPT ![w] = sbrec[w] \ {c}]
      BY <1>17 DEF DeleteSandbox
    <3> HIDE DEF w
    <3> QED
      BY <3>1, <3>2 DEF TypeOK, w
  <2>3. host' \in [Workers -> SUBSET Creates]
    <3>1. cr[c].worker \in Workers
      BY <1>17 DEF DeleteSandbox, Assigned
    <3> DEFINE w == cr[c].worker
    <3>2. host' = [host EXCEPT ![w] = host[w] \ {c}] \/ host' = host
      BY <1>17 DEF DeleteSandbox
    <3> QED
      BY <3>1, <3>2 DEF TypeOK
  <2>4. rec' \in [Workers -> Record]
    <3>1. cr[c].worker \in Workers /\ rec[cr[c].worker] \in Record
      BY <1>17 DEF DeleteSandbox, TypeOK
    <3>2. PICK u \in Nat : u = IF rec[cr[c].worker].used > 0 THEN rec[cr[c].worker].used - 1 ELSE 0
      BY <3>1, RecordFacts
    <3>3. [rec[cr[c].worker] EXCEPT !.used = u] \in Record
      BY <3>1, RecordFacts
    <3>4. rec' = [rec EXCEPT ![cr[c].worker] = [rec[cr[c].worker] EXCEPT !.used = u]]
      BY <1>17, <3>2 DEF DeleteSandbox
    <3> QED
      BY <3>1, <3>3, <3>4 DEF TypeOK
  <2> QED
    BY <1>17, <2>1, <2>2, <2>3, <2>4 DEF DeleteSandbox, TypeOK
<1>18. ASSUME NEW w \in Workers, NEW n \in Nodes, Register(w, n)
      PROVE  TypeOK'
  <2>1. con' \in [Workers -> Nodes \cup {None}]
    BY <1>18, RecordFacts DEF Register, TypeOK
  <2>2. rec' \in [Workers -> Record]
    <3>1. rec[w] \in Record
      BY DEF TypeOK
    <3>2. PICK t \in Tenants \cup {None} :
              t = LET ws == IF w \in Creates THEN tenant[n][w] ELSE None
                  IN  IF ws = None THEN rec[w].ws ELSE ws
      BY <3>1, RecordFacts DEF TypeOK
    <3>3. [state |-> "ONLINE", ws |-> t, used |-> rec[w].used] \in Record
      BY <3>1, RecordFacts
    <3>4. rec' = [rec EXCEPT ![w] = [state |-> "ONLINE", ws |-> t, used |-> rec[w].used]]
      BY <1>18, <3>2 DEF Register
    <3> QED
      BY <3>3, <3>4 DEF TypeOK
  <2> QED
    BY <1>18, <2>1, <2>2 DEF Register, TypeOK
<1>19. ASSUME NEW w \in Workers, Disconnect(w)
      PROVE  TypeOK'
  <2>1. con' \in [Workers -> Nodes \cup {None}]
    BY <1>19, RecordFacts DEF Disconnect, TypeOK
  <2>2. rec' \in [Workers -> Record]
    <3>1. rec[w] \in Record
      BY DEF TypeOK
    <3>2. PICK x \in {"ABSENT", "ONLINE", "OFFLINE"} :
              x = IF rec[w].state = "ABSENT" THEN rec[w].state ELSE "OFFLINE"
      BY <3>1, RecordFacts
    <3>3. [rec[w] EXCEPT !.state = x] \in Record
      BY <3>1, RecordFacts
    <3>4. rec' = [rec EXCEPT ![w] = [rec[w] EXCEPT !.state = x]]
      BY <1>19, <3>2 DEF Disconnect
    <3> QED
      BY <3>3, <3>4 DEF TypeOK
  <2>3. drops' \in Nat
    BY <1>19, RecordFacts, SMTT(20) DEF Disconnect, TypeOK
  <2> QED
    BY <1>19, <2>1, <2>2, <2>3 DEF Disconnect, TypeOK
<1>20. ASSUME NEW w \in Workers, Heartbeat(w)
      PROVE  TypeOK'
  <2>1. rec' \in [Workers -> Record]
    <3>1. host[w] \in SUBSET Creates /\ rec[w] \in Record
      BY DEF TypeOK
    <3>2. Cardinality(host[w]) \in Nat
      BY <3>1, ProvisioningAssumption, FS_Subset, FS_CardinalityType
    <3>3. [rec[w] EXCEPT !.used = Cardinality(host[w])] \in Record
      BY <3>1, <3>2, RecordFacts
    <3>4. rec' = [rec EXCEPT ![w] = [rec[w] EXCEPT !.used = Cardinality(host[w])]]
      BY <1>20 DEF Heartbeat
    <3> QED
      BY <3>3, <3>4 DEF TypeOK
  <2> QED
    BY <1>20, <2>1 DEF Heartbeat, TypeOK
<1>21. ASSUME NEW w \in Workers, NEW n \in Nodes, Sweep(w, n)
      PROVE  TypeOK'
  <2>1. rec' \in [Workers -> Record]
    <3>1. rec[w] \in Record
      BY DEF TypeOK
    <3>2. PICK x \in {"ABSENT", "ONLINE", "OFFLINE"} :
              rec' = [rec EXCEPT ![w] = [rec[w] EXCEPT !.state = x]]
      BY <1>21 DEF Sweep
    <3>3. [rec[w] EXCEPT !.state = x] \in Record
      BY <3>1, RecordFacts
    <3> QED
      BY <3>2, <3>3 DEF TypeOK
  <2> QED
    BY <1>21, <2>1 DEF Sweep, TypeOK
<1>22. ASSUME NEW n \in Nodes, NEW c \in Creates, ForgetTenant(n, c)
      PROVE  TypeOK'
  BY <1>22, CreateFacts, RecordFacts DEF ForgetTenant, TypeOK
<1>23. ASSUME NEW n \in Nodes, Expire(n)
      PROVE  TypeOK'
  BY <1>23, CreateFacts, RecordFacts DEF Expire, TypeOK
<1>24. ASSUME NEW n \in Nodes, NEW c \in Creates, ReapWatch(n, c)
      PROVE  TypeOK'
  BY <1>24, CreateFacts, RecordFacts, SMTT(20) DEF ReapWatch, TypeOK
<1>25. ASSUME NEW n \in Nodes, NEW c \in Creates, ReapStart(n, c)
      PROVE  TypeOK'
  BY <1>25, CreateFacts, RecordFacts DEF ReapStart, TypeOK
<1>26. ASSUME NEW n \in Nodes, ReapEnd(n)
      PROVE  TypeOK'
  <2>1. rp' \in [Nodes -> Creates \cup {None}]
    BY <1>26, RecordFacts DEF ReapEnd, Terminate, TypeOK
  <2>2. vm' \in [Creates -> {"none", "booting", "ready", "worker", "broken", "gone"}]
    <3>1. rp[n] \in Creates /\ rp[n] \in Workers
      BY <1>26 DEF ReapEnd, TypeOK, Workers
    <3>2. vm' = vm \/ vm' = [vm EXCEPT ![rp[n]] = "gone"]
      BY <1>26 DEF ReapEnd, Terminate
    <3> QED
      BY <3>1, <3>2 DEF TypeOK
  <2>3. host' \in [Workers -> SUBSET Creates]
    <3>1. rp[n] \in Creates /\ rp[n] \in Workers
      BY <1>26 DEF ReapEnd, TypeOK, Workers
    <3>2. host' = host \/ host' = [host EXCEPT ![rp[n]] = {}]
      BY <1>26 DEF ReapEnd, Terminate
    <3> QED
      BY <3>1, <3>2 DEF TypeOK
  <2>4. rec' \in [Workers -> Record]
    <3>1. rp[n] \in Creates /\ rp[n] \in Workers
      BY <1>26 DEF ReapEnd, TypeOK, Workers
    <3>2. rec' = rec \/ rec' = [rec EXCEPT ![rp[n]] = NoRecord]
      BY <1>26 DEF ReapEnd, Terminate
    <3>3. NoRecord \in Record
      BY RecordFacts
    <3> QED
      BY <3>1, <3>2, <3>3 DEF TypeOK
  <2>5. since' \in [Nodes -> SUBSET Creates]
    <3>1. rp[n] \in Creates /\ rp[n] \in Workers
      BY <1>26 DEF ReapEnd, TypeOK, Workers
    <3>2. since' = since \/ since' = [since EXCEPT ![n] = since[n] \ {rp[n]}]
      BY <1>26 DEF ReapEnd, Terminate
    <3> QED
      BY <3>1, <3>2, SMTT(20) DEF TypeOK
  <2> QED
    BY <1>26, <2>1, <2>2, <2>3, <2>4, <2>5 DEF ReapEnd, Terminate, TypeOK
<1>27. ASSUME NEW n \in Nodes, Crash(n)
      PROVE  TypeOK'
  <2>1. cr' \in [Creates -> Create]
    BY <1>27, CreateFacts DEF Crash, TypeOK
  <2>2. book' \in [Nodes -> {"free", "fresh", "expired"}]
    BY <1>27, RecordFacts DEF Crash, TypeOK
  <2>3. tenant' \in [Nodes -> [Creates -> Tenants \cup {None}]]
    BY <1>27, RecordFacts DEF Crash, TypeOK
  <2>4. since' \in [Nodes -> SUBSET Creates]
    BY <1>27, RecordFacts DEF Crash, TypeOK
  <2>5. rp' \in [Nodes -> Creates \cup {None}]
    BY <1>27, RecordFacts DEF Crash, TypeOK
  <2>6. con' \in [Workers -> Nodes \cup {None}]
    BY <1>27, RecordFacts DEF Crash, TypeOK
  <2>7. crashes' \in Nat
    BY <1>27, RecordFacts, SMTT(20) DEF Crash, TypeOK
  <2> QED
    BY <1>27, <2>1, <2>2, <2>3, <2>4, <2>5, <2>6, <2>7 DEF Crash, TypeOK
<1>28. CASE UNCHANGED vars
  BY <1>28 DEF vars, TypeOK
<1> QED
  BY <1>1, <1>2, <1>3, <1>4, <1>5, <1>6, <1>7, <1>8, <1>9, <1>10, <1>11, <1>12,
     <1>13, <1>14, <1>15, <1>16, <1>17, <1>18, <1>19, <1>20, <1>21, <1>22, <1>23,
     <1>24, <1>25, <1>26, <1>27, <1>28 DEF Next, ScheduleStep

\* Every step keeps track of VMs: none before CreateVM, none left by a failure.
LEMMA GiveBackStep ==
    ASSUME TypeOK, Assigned, NoVMYet, VMKnown, FailuresGiveBack, [Next]_vars
    PROVE  NoVMYet' /\ VMKnown' /\ FailuresGiveBack'
<1> USE ProvisioningAssumption DEF Before, Holding, Polling, OnWorker, procVars,
   dbVars, outVars, histVars
<1>1. ASSUME NEW c \in Creates, NEW n \in Nodes, NEW w \in Workers, Select(c, n, w)
      PROVE  NoVMYet' /\ VMKnown' /\ FailuresGiveBack'
  <2>1. Moved(c, "placed", n, w)
    BY <1>1, Moves
  <2> QED
    BY <1>1, <2>1 DEF Select, Moved, TypeOK, NoVMYet, VMKnown, FailuresGiveBack
<1>2. ASSUME NEW c \in Creates, NEW n \in Nodes, SelectNoneLocal(c, n)
      PROVE  NoVMYet' /\ VMKnown' /\ FailuresGiveBack'
  <2>1. \/ Moved(c, "failed", n, cr[c].worker)
        \/ Moved(c, "grace", n, cr[c].worker)
    BY <1>2, Moves
  <2> QED
    BY <1>2, <2>1 DEF SelectNoneLocal, Moved, TypeOK, NoVMYet, VMKnown,
       FailuresGiveBack
<1>3. ASSUME NEW c \in Creates, NEW n \in Nodes, SelectNone(c, n)
      PROVE  NoVMYet' /\ VMKnown' /\ FailuresGiveBack'
  <2>1. Moved(c, "reserve", n, cr[c].worker)
    BY <1>3, Moves
  <2> QED
    BY <1>3, <2>1 DEF SelectNone, Moved, TypeOK, NoVMYet, VMKnown, FailuresGiveBack
<1>4. ASSUME NEW c \in Creates, Reserve(c)
      PROVE  NoVMYet' /\ VMKnown' /\ FailuresGiveBack'
  <2>1. \/ Moved(c, "wait", cr[c].node, cr[c].worker)
        \/ Moved(c, "create", cr[c].node, cr[c].worker)
    BY <1>4, Moves
  <2> QED
    BY <1>4, <2>1 DEF Reserve, Moved, TypeOK, NoVMYet, VMKnown, FailuresGiveBack
<1>5. ASSUME NEW c \in Creates, NEW w \in Workers, PollPlaced(c, w)
      PROVE  NoVMYet' /\ VMKnown' /\ FailuresGiveBack'
  <2>1. Moved(c, "placed", cr[c].node, w)
    BY <1>5, Moves
  <2> QED
    BY <1>5, <2>1 DEF PollPlaced, Release, Moved, TypeOK, NoVMYet, VMKnown,
       FailuresGiveBack
<1>6. ASSUME NEW c \in Creates, GraceTimeout(c)
      PROVE  NoVMYet' /\ VMKnown' /\ FailuresGiveBack'
  <2>1. Moved(c, "failed", cr[c].node, cr[c].worker)
    BY <1>6, Moves
  <2> QED
    BY <1>6, <2>1 DEF GraceTimeout, Moved, TypeOK, NoVMYet, VMKnown, FailuresGiveBack
<1>7. ASSUME NEW c \in Creates, GiveUpWaiting(c)
      PROVE  NoVMYet' /\ VMKnown' /\ FailuresGiveBack'
  <2>1. Moved(c, "create", cr[c].node, cr[c].worker)
    BY <1>7, Moves
  <2> QED
    BY <1>7, <2>1 DEF GiveUpWaiting, Moved, TypeOK, NoVMYet, VMKnown, FailuresGiveBack
<1>8. ASSUME NEW c \in Creates, CreateVMFails(c)
      PROVE  NoVMYet' /\ VMKnown' /\ FailuresGiveBack'
  <2>1. Moved(c, "failed", cr[c].node, cr[c].worker)
    BY <1>8, Moves
  <2> QED
    BY <1>8, <2>1 DEF CreateVMFails, Fail, Release, Moved, TypeOK, NoVMYet, VMKnown,
       FailuresGiveBack
<1>9. ASSUME NEW c \in Creates, CreateVM(c)
      PROVE  NoVMYet' /\ VMKnown' /\ FailuresGiveBack'
  <2>1. \/ Moved(c, "boot", cr[c].node, cr[c].worker) /\ UNCHANGED told
        \/ Moved(c, "failed", cr[c].node, cr[c].worker) /\ c \in told' /\ told \subseteq told'
    BY <1>9, Helpers DEF CreateVM, Fail, Phase
  <2>2. /\ vm' = [vm EXCEPT ![c] = "booting"] /\ UNCHANGED <<rec, rp>>
    BY <1>9 DEF CreateVM
  <2>3. vm'[c] = "booting" /\ \A d \in Creates \ {c} : vm'[d] = vm[d]
    BY <2>2 DEF TypeOK
  <2>4. \A d \in Creates : vm[d] # "none" => vm'[d] # "none"
    BY <2>3
  <2>5. NoVMYet'
    BY <2>1, <2>3 DEF NoVMYet, Moved
  <2>6. VMKnown'
    BY <2>2, <2>4 DEF VMKnown, TypeOK
  <2>7. FailuresGiveBack'
    BY <2>1, <2>3 DEF FailuresGiveBack, Moved
  <2> QED
    BY <2>5, <2>6, <2>7
<1>10. ASSUME NEW c \in Creates, VMBoots(c)
      PROVE  NoVMYet' /\ VMKnown' /\ FailuresGiveBack'
  BY <1>10 DEF VMBoots, TypeOK, NoVMYet, VMKnown, FailuresGiveBack
<1>11. ASSUME NEW c \in Creates, VMReady(c)
      PROVE  NoVMYet' /\ VMKnown' /\ FailuresGiveBack'
  <2>1. Moved(c, "setup", cr[c].node, cr[c].worker)
    BY <1>11, Moves
  <2> QED
    BY <1>11, <2>1 DEF VMReady, Moved, TypeOK, NoVMYet, VMKnown, FailuresGiveBack
<1>12. ASSUME NEW c \in Creates, SetupPoder(c)
      PROVE  NoVMYet' /\ VMKnown' /\ FailuresGiveBack'
  <2>1. Moved(c, "register", cr[c].node, cr[c].worker)
    BY <1>12, Moves
  <2> QED
    BY <1>12, <2>1 DEF SetupPoder, Moved, TypeOK, NoVMYet, VMKnown, FailuresGiveBack
<1>13. ASSUME NEW c \in Creates, AttemptFails(c)
      PROVE  NoVMYet' /\ VMKnown' /\ FailuresGiveBack'
  <2>1. Moved(c, "giveback", cr[c].node, cr[c].worker)
    BY <1>13, Moves
  <2>2. cr[c].ph \notin Before /\ UNCHANGED <<rec, rp, told>>
    BY <1>13 DEF AttemptFails
  <2>3. vm' = vm \/ vm' = [vm EXCEPT ![c] = "worker"]
    BY <1>13 DEF AttemptFails
  <2>4. /\ \A d \in Creates \ {c} : vm'[d] = vm[d]
        /\ vm'[c] \in {vm[c], "worker"}
    BY <2>3 DEF TypeOK
  <2>5. NoVMYet'
    BY <2>1, <2>4 DEF NoVMYet, Moved
  <2>6. VMKnown'
    BY <2>2, <2>4 DEF VMKnown, TypeOK
  <2>7. FailuresGiveBack'
    BY <2>1, <2>2, <2>4 DEF FailuresGiveBack, Moved
  <2> QED
    BY <2>5, <2>6, <2>7
<1>14. ASSUME NEW c \in Creates, TerminateOrphanVM(c)
      PROVE  NoVMYet' /\ VMKnown' /\ FailuresGiveBack'
  <2>1. Moved(c, "failed", cr[c].node, cr[c].worker) /\ UNCHANGED <<rec, rp>>
    BY <1>14, Moves DEF TerminateOrphanVM
  <2>2. \/ vm' = [vm EXCEPT ![c] = "gone"] /\ told' = told
        \/ vm' = vm /\ told' = told \cup {c}
    BY <1>14 DEF TerminateOrphanVM, Terminate
  <2>3. /\ \A d \in Creates \ {c} : vm'[d] = vm[d]
        /\ told \subseteq told'
        /\ vm'[c] = "gone" \/ (vm'[c] = vm[c] /\ c \in told')
    BY <2>2 DEF TypeOK
  <2>5. NoVMYet'
    BY <2>1, <2>3 DEF NoVMYet, Moved
  <2>6. VMKnown'
    BY <2>1, <2>3 DEF VMKnown, TypeOK
  <2>7. FailuresGiveBack'
    BY <2>1, <2>3 DEF FailuresGiveBack, Moved
  <2> QED
    BY <2>5, <2>6, <2>7
<1>15. ASSUME NEW c \in Creates, AddRecord(c)
      PROVE  NoVMYet' /\ VMKnown' /\ FailuresGiveBack'
  <2>1. Moved(c, "recorded", cr[c].node, cr[c].worker)
    BY <1>15, Moves
  <2> QED
    BY <1>15, <2>1 DEF AddRecord, Moved, TypeOK, NoVMYet, VMKnown, FailuresGiveBack
<1>16. ASSUME NEW c \in Creates, Deliver(c)
      PROVE  NoVMYet' /\ VMKnown' /\ FailuresGiveBack'
  <2>1. \/ Moved(c, "running", cr[c].node, cr[c].worker)
        \/ Moved(c, "errored", cr[c].node, cr[c].worker)
    BY <1>16, Moves
  <2> QED
    BY <1>16, <2>1 DEF Deliver, Moved, TypeOK, NoVMYet, VMKnown, FailuresGiveBack
<1>17. ASSUME NEW c \in Creates, DeleteSandbox(c)
      PROVE  NoVMYet' /\ VMKnown' /\ FailuresGiveBack'
  <2>1. Moved(c, "deleted", cr[c].node, cr[c].worker) /\ UNCHANGED <<vm, rp, told>>
    BY <1>17, Moves DEF DeleteSandbox
  <2>2. PICK u : rec' = [rec EXCEPT ![cr[c].worker] = [rec[cr[c].worker] EXCEPT !.used = u]]
    BY <1>17 DEF DeleteSandbox
  <2>3. \A d \in Creates : rec'[d].state = rec[d].state
    BY <2>2 DEF TypeOK, Record, Workers
  <2>5. NoVMYet'
    BY <2>1 DEF NoVMYet, Moved
  <2>6. VMKnown'
    BY <2>1, <2>3 DEF VMKnown, TypeOK
  <2>7. FailuresGiveBack'
    BY <2>1 DEF FailuresGiveBack, Moved
  <2> QED
    BY <2>5, <2>6, <2>7
<1>18. ASSUME NEW w \in Workers, NEW n \in Nodes, Register(w, n)
      PROVE  NoVMYet' /\ VMKnown' /\ FailuresGiveBack'
  BY <1>18 DEF Register, TypeOK, NoVMYet, VMKnown, FailuresGiveBack, Record, Workers
<1>19. ASSUME NEW w \in Workers, Disconnect(w)
      PROVE  NoVMYet' /\ VMKnown' /\ FailuresGiveBack'
  BY <1>19 DEF Disconnect, TypeOK, NoVMYet, VMKnown, FailuresGiveBack, Record, Workers
<1>20. ASSUME NEW w \in Workers, Heartbeat(w)
      PROVE  NoVMYet' /\ VMKnown' /\ FailuresGiveBack'
  BY <1>20 DEF Heartbeat, TypeOK, NoVMYet, VMKnown, FailuresGiveBack, Record, Workers
<1>21. ASSUME NEW w \in Workers, NEW n \in Nodes, Sweep(w, n)
      PROVE  NoVMYet' /\ VMKnown' /\ FailuresGiveBack'
  BY <1>21, ZenonT(40) DEF Sweep, TypeOK, NoVMYet, VMKnown, FailuresGiveBack, Record, Workers
<1>22. ASSUME NEW n \in Nodes, NEW c \in Creates, ForgetTenant(n, c)
      PROVE  NoVMYet' /\ VMKnown' /\ FailuresGiveBack'
  BY <1>22 DEF ForgetTenant, TypeOK, NoVMYet, VMKnown, FailuresGiveBack
<1>23. ASSUME NEW n \in Nodes, Expire(n)
      PROVE  NoVMYet' /\ VMKnown' /\ FailuresGiveBack'
  BY <1>23 DEF Expire, TypeOK, NoVMYet, VMKnown, FailuresGiveBack
<1>24. ASSUME NEW n \in Nodes, NEW c \in Creates, ReapWatch(n, c)
      PROVE  NoVMYet' /\ VMKnown' /\ FailuresGiveBack'
  BY <1>24 DEF ReapWatch, TypeOK, NoVMYet, VMKnown, FailuresGiveBack
<1>25. ASSUME NEW n \in Nodes, NEW c \in Creates, ReapStart(n, c)
      PROVE  NoVMYet' /\ VMKnown' /\ FailuresGiveBack'
  BY <1>25 DEF ReapStart, TypeOK, NoVMYet, VMKnown, FailuresGiveBack, Empty
<1>26. ASSUME NEW n \in Nodes, ReapEnd(n)
      PROVE  NoVMYet' /\ VMKnown' /\ FailuresGiveBack'
  <2>1. rp[n] \in Creates /\ rp' = [rp EXCEPT ![n] = None] /\ UNCHANGED <<cr, told>>
    BY <1>26 DEF ReapEnd, TypeOK
  <2>2. \/ vm' = [vm EXCEPT ![rp[n]] = "gone"] /\ rec' = [rec EXCEPT ![rp[n]] = NoRecord]
        \/ vm' = vm /\ rec' = rec
    BY <1>26 DEF ReapEnd, Terminate
  <2>3. /\ \A d \in Creates : vm'[d] = vm[d] \/ (d = rp[n] /\ vm'[d] = "gone")
        /\ \A d \in Creates : rec'[d].state # "ABSENT" => rec[d].state # "ABSENT"
    <3>1. CASE vm' = vm /\ rec' = rec
      BY <3>1
    <3>2. CASE /\ vm' = [vm EXCEPT ![rp[n]] = "gone"]
               /\ rec' = [rec EXCEPT ![rp[n]] = NoRecord]
      BY <3>2, <2>1 DEF TypeOK, NoRecord, Workers
    <3> QED
      BY <2>2, <3>1, <3>2
  <2>4. vm[rp[n]] # "none"
    BY <2>1, <1>26 DEF VMKnown, ReapEnd
  <2>5. NoVMYet'
    BY <2>1, <2>3, <2>4 DEF NoVMYet
  <2>6. VMKnown'
    BY <2>1, <2>3 DEF VMKnown, TypeOK
  <2>7. FailuresGiveBack'
    BY <2>1, <2>3 DEF FailuresGiveBack
  <2> QED
    BY <2>5, <2>6, <2>7
<1>27. ASSUME NEW n \in Nodes, Crash(n)
      PROVE  NoVMYet' /\ VMKnown' /\ FailuresGiveBack'
  BY <1>27 DEF Crash, TypeOK, NoVMYet, VMKnown, FailuresGiveBack
<1>28. CASE UNCHANGED vars
  BY <1>28 DEF vars, TypeOK, NoVMYet, VMKnown, FailuresGiveBack
<1> QED
  BY <1>1, <1>2, <1>3, <1>4, <1>5, <1>6, <1>7, <1>8, <1>9, <1>10, <1>11, <1>12,
     <1>13, <1>14, <1>15, <1>16, <1>17, <1>18, <1>19, <1>20, <1>21, <1>22, <1>23,
     <1>24, <1>25, <1>26, <1>27, <1>28 DEF Next, ScheduleStep

\* Reservation and attempts untouched.
LEMMA Same ==
    ASSUME WaitsForSomebody, Alone, UNCHANGED <<book, gaveUp>>,
           \A k \in Nodes : HeldAt(k)' = HeldAt(k)
    PROVE  WaitsForSomebody' /\ Alone'
BY DEF WaitsForSomebody, Alone

\* No create moves and no reservation changes.
LEMMA SameCreates ==
    ASSUME WaitsForSomebody, Alone, UNCHANGED <<cr, book, gaveUp>>
    PROVE  WaitsForSomebody' /\ Alone'
<1>1. \A k \in Nodes : HeldAt(k)' = HeldAt(k)
  BY DEF HeldAt
<1> QED
  BY <1>1, Same

\* A create that moves without beginning or ending an attempt (GraceTimeout,
\* VMReady, AddRecord and their like).
LEMMA Kept ==
    ASSUME TypeOK, WaitsForSomebody, Alone, UNCHANGED <<book, gaveUp>>,
           NEW c \in Creates, NEW x, NEW n, NEW w, Moved(c, x, n, w),
           \/ x \in Holding /\ cr[c].ph \in Holding /\ n = cr[c].node
           \/ x \notin Holding /\ cr[c].ph \notin Holding
    PROVE  WaitsForSomebody' /\ Alone'
<1>1. \A k \in Nodes : c \in HeldAt(k) <=> k = cr[c].node /\ cr[c].ph \in Holding
  BY DEF HeldAt
<1>2. \A k \in Nodes : HeldAt(k)' = HeldAt(k)
  BY <1>1 DEF Moved
<1> QED
  BY <1>2, Same

\* An attempt ends and runs its deferred release.
LEMMA Ended ==
    ASSUME TypeOK, Assigned, WaitsForSomebody, Alone, UNCHANGED gaveUp,
           NEW c \in Creates, NEW x, NEW w, x \notin Holding, cr[c].ph \in Holding,
           Moved(c, x, cr[c].node, w), Release(cr[c].node)
    PROVE  WaitsForSomebody' /\ Alone'
<1>0. PICK n \in Nodes : n = cr[c].node
  BY DEF Assigned, Holding
<1>1. c \in HeldAt(n) /\ \A k \in Nodes \ {n} : c \notin HeldAt(k)
  BY <1>0 DEF HeldAt
<1>2. \A k \in Nodes : HeldAt(k)' = HeldAt(k) \ {c}
  BY DEF Moved
<1>3. book'[n] = "free" /\ \A k \in Nodes \ {n} : book'[k] = book[k]
  BY <1>0 DEF Release, TypeOK
<1>4. WaitsForSomebody'
  BY <1>1, <1>2, <1>3 DEF WaitsForSomebody
<1>5. Alone'
  <2> SUFFICES ASSUME Prompt, gaveUp = {}, NEW k \in Nodes, HeldAt(k)' # {}
               PROVE  book'[k] = "fresh" /\ \A d, e \in HeldAt(k)' : d = e
    BY DEF Alone
  <2>1. HeldAt(k)' = HeldAt(k) \ {c}
    BY <1>2
  <2>2. k # n
    BY <2>1, <1>1 DEF Alone
  <2>3. HeldAt(k)' = HeldAt(k)
    BY <2>1, <2>2, <1>1
  <2> QED
    BY <2>2, <2>3, <1>3 DEF Alone
<1> QED
  BY <1>4, <1>5

\* Every step keeps reservations and attempts together (reserve, release, the
\* expiry of provisioningTTL, a crash).
LEMMA ReservationStep ==
    ASSUME TypeOK, Assigned, WaitsForSomebody, Alone, [Next]_vars
    PROVE  WaitsForSomebody' /\ Alone'
<1> USE DEF Holding, Polling, procVars, dbVars, outVars, histVars
<1>1. ASSUME NEW c \in Creates, NEW n \in Nodes, NEW w \in Workers, Select(c, n, w)
      PROVE  WaitsForSomebody' /\ Alone'
  <2>1. Moved(c, "placed", n, w)
    BY <1>1, Moves
  <2> QED
    BY <1>1, <2>1, Kept DEF Select
<1>2. ASSUME NEW c \in Creates, NEW n \in Nodes, SelectNoneLocal(c, n)
      PROVE  WaitsForSomebody' /\ Alone'
  <2>1. \/ Moved(c, "failed", n, cr[c].worker)
        \/ Moved(c, "grace", n, cr[c].worker)
    BY <1>2, Moves
  <2> QED
    BY <1>2, <2>1, Kept DEF SelectNoneLocal
<1>3. ASSUME NEW c \in Creates, NEW n \in Nodes, SelectNone(c, n)
      PROVE  WaitsForSomebody' /\ Alone'
  <2>1. Moved(c, "reserve", n, cr[c].worker)
    BY <1>3, Moves
  <2> QED
    BY <1>3, <2>1, Kept DEF SelectNone
<1>4. ASSUME NEW c \in Creates, Reserve(c)
      PROVE  WaitsForSomebody' /\ Alone'
  <2>0. PICK n \in Nodes : n = cr[c].node
    BY <1>4 DEF Reserve, Assigned
  <2>1. UNCHANGED gaveUp
    BY <1>4 DEF Reserve
  <2>2. CASE Meet(c, "wait", HeldAt(n)) /\ UNCHANGED book
    <3>1. HeldAt(n) \in SUBSET Creates
      BY DEF HeldAt
    <3>2. Moved(c, "wait", cr[c].node, cr[c].worker)
      BY <2>2, <3>1, Helpers DEF Phase
    <3> QED
      BY <2>1, <2>2, <3>2, <1>4, Kept DEF Reserve
  <2>3. CASE book[n] # "fresh" /\ Goto(c, "create") /\ book' = [book EXCEPT ![n] = "fresh"]
    <3>1. Moved(c, "create", cr[c].node, cr[c].worker)
      BY <2>3, Helpers DEF Phase
    <3>2. /\ HeldAt(n)' = HeldAt(n) \cup {c}
          /\ \A k \in Nodes \ {n} : HeldAt(k)' = HeldAt(k)
      BY <2>0, <3>1, <1>4 DEF Moved, HeldAt, Reserve
    <3>3. book'[n] = "fresh" /\ \A k \in Nodes \ {n} : book'[k] = book[k]
      BY <2>3 DEF TypeOK
    <3> QED
      BY <2>1, <2>3, <3>2, <3>3 DEF WaitsForSomebody, Alone
  <2> QED
    BY <2>0, <2>2, <2>3, <1>4 DEF Reserve
<1>5. ASSUME NEW c \in Creates, NEW w \in Workers, PollPlaced(c, w)
      PROVE  WaitsForSomebody' /\ Alone'
  <2>1. Moved(c, "placed", cr[c].node, w) /\ UNCHANGED gaveUp
    BY <1>5, Moves DEF PollPlaced
  <2>2. CASE cr[c].ph = "register"
    BY <2>1, <2>2, <1>5, Ended DEF PollPlaced
  <2>3. CASE cr[c].ph # "register"
    BY <2>1, <2>3, <1>5, Kept DEF PollPlaced
  <2> QED
    BY <2>2, <2>3
<1>6. ASSUME NEW c \in Creates, GraceTimeout(c)
      PROVE  WaitsForSomebody' /\ Alone'
  <2>1. Moved(c, "failed", cr[c].node, cr[c].worker)
    BY <1>6, Moves
  <2> QED
    BY <1>6, <2>1, Kept DEF GraceTimeout
<1>7. ASSUME NEW c \in Creates, GiveUpWaiting(c)
      PROVE  WaitsForSomebody' /\ Alone'
  <2>0. PICK n \in Nodes : n = cr[c].node
    BY <1>7 DEF GiveUpWaiting, Assigned
  <2>1. Moved(c, "create", n, cr[c].worker)
    BY <2>0, <1>7, Moves
  <2>2. c \in HeldAt(n)' /\ \A k \in Nodes \ {n} : HeldAt(k)' = HeldAt(k)
    BY <2>0, <2>1, <1>7 DEF Moved, HeldAt, GiveUpWaiting
  <2>3. gaveUp' # {} /\ \A k \in Nodes \ {n} : book'[k] = book[k]
    BY <2>0, <1>7 DEF GiveUpWaiting, TypeOK
  <2> QED
    BY <2>1, <2>2, <2>3 DEF WaitsForSomebody, Alone
<1>8. ASSUME NEW c \in Creates, CreateVMFails(c)
      PROVE  WaitsForSomebody' /\ Alone'
  <2>1. Moved(c, "failed", cr[c].node, cr[c].worker) /\ cr[c].ph \in Holding
    BY <1>8, Moves DEF CreateVMFails
  <2>2. Release(cr[c].node) /\ UNCHANGED gaveUp
    BY <1>8 DEF CreateVMFails, Fail
  <2> QED
    BY <2>1, <2>2, Ended, SMTT(20)
<1>9. ASSUME NEW c \in Creates, CreateVM(c)
      PROVE  WaitsForSomebody' /\ Alone'
  <2>1. CASE Goto(c, "boot") /\ UNCHANGED book
    BY <2>1, <1>9, Helpers, Kept DEF CreateVM, Phase
  <2>2. CASE Fail(c)
    <3>1. Moved(c, "failed", cr[c].node, cr[c].worker) /\ cr[c].ph \in Holding
      BY <2>2, <1>9, Helpers DEF CreateVM, Fail, Phase
    <3>2. Release(cr[c].node) /\ UNCHANGED gaveUp
      BY <2>2, <1>9 DEF CreateVM, Fail
    <3> QED
      BY <3>1, <3>2, Ended
  <2> QED
    BY <2>1, <2>2, <1>9 DEF CreateVM
<1>10. ASSUME NEW c \in Creates, VMBoots(c)
      PROVE  WaitsForSomebody' /\ Alone'
  BY <1>10, SameCreates DEF VMBoots
<1>11. ASSUME NEW c \in Creates, VMReady(c)
      PROVE  WaitsForSomebody' /\ Alone'
  <2>1. Moved(c, "setup", cr[c].node, cr[c].worker)
    BY <1>11, Moves
  <2> QED
    BY <1>11, <2>1, Kept DEF VMReady
<1>12. ASSUME NEW c \in Creates, SetupPoder(c)
      PROVE  WaitsForSomebody' /\ Alone'
  <2>1. Moved(c, "register", cr[c].node, cr[c].worker)
    BY <1>12, Moves
  <2> QED
    BY <1>12, <2>1, Kept DEF SetupPoder
<1>13. ASSUME NEW c \in Creates, AttemptFails(c)
      PROVE  WaitsForSomebody' /\ Alone'
  <2>1. Moved(c, "giveback", cr[c].node, cr[c].worker)
    BY <1>13, Moves
  <2> QED
    BY <1>13, <2>1, Kept DEF AttemptFails
<1>14. ASSUME NEW c \in Creates, TerminateOrphanVM(c)
      PROVE  WaitsForSomebody' /\ Alone'
  <2>1. Moved(c, "failed", cr[c].node, cr[c].worker) /\ cr[c].ph \in Holding
    BY <1>14, Moves DEF TerminateOrphanVM
  <2>2. Release(cr[c].node) /\ UNCHANGED gaveUp
    BY <1>14 DEF TerminateOrphanVM, Fail
  <2> QED
    BY <2>1, <2>2, Ended
<1>15. ASSUME NEW c \in Creates, AddRecord(c)
      PROVE  WaitsForSomebody' /\ Alone'
  <2>1. Moved(c, "recorded", cr[c].node, cr[c].worker)
    BY <1>15, Moves
  <2> QED
    BY <1>15, <2>1, Kept DEF AddRecord
<1>16. ASSUME NEW c \in Creates, Deliver(c)
      PROVE  WaitsForSomebody' /\ Alone'
  <2>1. \/ Moved(c, "running", cr[c].node, cr[c].worker)
        \/ Moved(c, "errored", cr[c].node, cr[c].worker)
    BY <1>16, Moves
  <2> QED
    BY <1>16, <2>1, Kept DEF Deliver
<1>17. ASSUME NEW c \in Creates, DeleteSandbox(c)
      PROVE  WaitsForSomebody' /\ Alone'
  <2>1. Moved(c, "deleted", cr[c].node, cr[c].worker)
    BY <1>17, Moves
  <2> QED
    BY <1>17, <2>1, Kept DEF DeleteSandbox
<1>18. ASSUME NEW w \in Workers, NEW n \in Nodes, Register(w, n)
      PROVE  WaitsForSomebody' /\ Alone'
  BY <1>18, SameCreates DEF Register
<1>19. ASSUME NEW w \in Workers, Disconnect(w)
      PROVE  WaitsForSomebody' /\ Alone'
  BY <1>19, SameCreates DEF Disconnect
<1>20. ASSUME NEW w \in Workers, Heartbeat(w)
      PROVE  WaitsForSomebody' /\ Alone'
  BY <1>20, SameCreates DEF Heartbeat
<1>21. ASSUME NEW w \in Workers, NEW n \in Nodes, Sweep(w, n)
      PROVE  WaitsForSomebody' /\ Alone'
  BY <1>21, SameCreates DEF Sweep
<1>22. ASSUME NEW n \in Nodes, NEW c \in Creates, ForgetTenant(n, c)
      PROVE  WaitsForSomebody' /\ Alone'
  BY <1>22, SameCreates DEF ForgetTenant
<1>23. ASSUME NEW n \in Nodes, Expire(n)
      PROVE  WaitsForSomebody' /\ Alone'
  <2>1. \A k \in Nodes : HeldAt(k)' = HeldAt(k)
    BY <1>23 DEF Expire, HeldAt
  <2>2. /\ book'[n] = "expired" /\ \A k \in Nodes \ {n} : book'[k] = book[k]
        /\ UNCHANGED gaveUp
    BY <1>23 DEF Expire, TypeOK
  <2>3. Prompt => HeldAt(n) = {}
    BY <1>23 DEF Expire
  <2> QED
    BY <2>1, <2>2, <2>3 DEF WaitsForSomebody, Alone
<1>24. ASSUME NEW n \in Nodes, NEW c \in Creates, ReapWatch(n, c)
      PROVE  WaitsForSomebody' /\ Alone'
  BY <1>24, SameCreates DEF ReapWatch
<1>25. ASSUME NEW n \in Nodes, NEW c \in Creates, ReapStart(n, c)
      PROVE  WaitsForSomebody' /\ Alone'
  BY <1>25, SameCreates DEF ReapStart
<1>26. ASSUME NEW n \in Nodes, ReapEnd(n)
      PROVE  WaitsForSomebody' /\ Alone'
  BY <1>26, SameCreates DEF ReapEnd
<1>27. ASSUME NEW n \in Nodes, Crash(n)
      PROVE  WaitsForSomebody' /\ Alone'
  <2>1. \A c \in Creates :
           cr'[c] = IF cr[c].node = n /\ cr[c].ph \in Holding \cup Polling \cup
                                         {"reserve", "placed", "recorded"}
                      THEN [NoCreate EXCEPT !.ph = "dead"] ELSE cr[c]
    BY <1>27 DEF Crash
  <2>2. HeldAt(n)' = {}
    BY <2>1, CreateFacts DEF HeldAt
  <2>3. \A k \in Nodes \ {n} : HeldAt(k)' = HeldAt(k)
    BY <2>1, CreateFacts DEF HeldAt
  <2>4. book'[n] = "free" /\ \A k \in Nodes \ {n} : book'[k] = book[k]
    BY <1>27 DEF Crash, TypeOK
  <2>5. UNCHANGED gaveUp
    BY <1>27 DEF Crash
  <2> QED
    BY <2>2, <2>3, <2>4, <2>5 DEF WaitsForSomebody, Alone
<1>28. CASE UNCHANGED vars
  BY <1>28, SameCreates DEF vars
<1> QED
  BY <1>1, <1>2, <1>3, <1>4, <1>5, <1>6, <1>7, <1>8, <1>9, <1>10, <1>11, <1>12,
     <1>13, <1>14, <1>15, <1>16, <1>17, <1>18, <1>19, <1>20, <1>21, <1>22, <1>23,
     <1>24, <1>25, <1>26, <1>27, <1>28 DEF Next, ScheduleStep

-----------------------------------------------------------------------------
\* The inductive invariant.
Invariant ==
    /\ TypeOK /\ Assigned
    /\ NoVMYet /\ VMKnown /\ FailuresGiveBack
    /\ WaitsForSomebody /\ Alone

\* It holds at the start: nobody was taken up and there is no VM.
LEMMA InitInvariant == Init => Invariant
<1> SUFFICES ASSUME Init PROVE Invariant
  OBVIOUS
<1>1. NoCreate.ph = "idle" /\ NoRecord.state = "ABSENT"
  BY DEF NoCreate, NoRecord
<1>2. TypeOK
  BY CreateFacts, RecordFacts DEF Init, TypeOK
<1>3. Assigned /\ NoVMYet /\ FailuresGiveBack
  BY <1>1 DEF Init, Assigned, NoVMYet, FailuresGiveBack, OnWorker
<1>4. VMKnown
  BY <1>1 DEF Init, VMKnown, Workers
<1>5. \A n \in Nodes : HeldAt(n) = {}
  BY <1>1 DEF Init, HeldAt, Holding
<1>6. WaitsForSomebody /\ Alone
  BY <1>5 DEF Init, WaitsForSomebody, Alone
<1> QED
  BY <1>2, <1>3, <1>4, <1>6 DEF Invariant

\* The inductive invariant holds in every reachable state of the scheduler, its
\* reservations, workers and reapers.
THEOREM InvariantHolds == Spec => []Invariant
<1>1. Invariant /\ [Next]_vars => Invariant'
  <2> SUFFICES ASSUME Invariant, [Next]_vars PROVE Invariant'
    OBVIOUS
  <2>1. TypeOK /\ Assigned /\ NoVMYet /\ VMKnown /\ FailuresGiveBack
        /\ WaitsForSomebody /\ Alone
    BY DEF Invariant
  <2> QED
    BY <2>1, AssignedStep, TypeStep, GiveBackStep, ReservationStep DEF Invariant
<1> QED
  BY <1>1, InitInvariant, PTL DEF Spec

\* Creates, reservations, records and machines always have their types.
THEOREM TypeCorrect == Spec => []TypeOK
<1>1. Invariant => TypeOK
  BY DEF Invariant
<1> QED
  BY <1>1, InvariantHolds, PTL

\* provision_lock.go with scheduler.go's deferred releases: whoever is made to
\* wait by a reservation waits for an attempt under way, with any number of
\* instances, overlapping attempts, expiries and crashes.
THEOREM WaitsForSomebodyHolds == Spec => []WaitsForSomebody
<1>1. Invariant => WaitsForSomebody
  BY DEF Invariant
<1> QED
  BY <1>1, InvariantHolds, PTL

\* createVMWithProvider and terminateOrphanVM: a create that failed has no VM
\* left that its caller does not know of.
THEOREM FailuresGiveBackHolds == Spec => []FailuresGiveBack
<1>1. Invariant => FailuresGiveBack
  BY DEF Invariant
<1> QED
  BY <1>1, InvariantHolds, PTL

\* provision_lock.go: prompt attempts are one at a time per instance until
\* somebody gives up waiting.
THEOREM OneAttemptHolds == Spec => []OneAttempt
<1>1. Invariant => OneAttempt
  BY DEF Invariant, Alone, OneAttempt
<1> QED
  BY <1>1, InvariantHolds, PTL

-----------------------------------------------------------------------------
(* Tenant isolation of provisioned machines (RecordVMTenant, VMTenant,      *)
(* poderWorkspaceOrProvisioner, SelectBestFor): it holds for one instance   *)
(* that does not restart and whose machines register before vmTenantTTL,    *)
(* for any number of creates, workspaces and workers, with reapers, broken  *)
(* tunnels and failing attempts.                                            *)

\* No sandbox of create c is kept from the machine of create v by its workspace.
May(c, v) == TenantOf[c] # None /\ TenantOf[v] # None => TenantOf[c] = TenantOf[v]

\* A machine that has a record, or is being reaped, was set up; one that is being
\* set up is up.
Machine ==
    /\ \A c \in Creates : cr[c].ph = "setup" => vm[c] = "ready"
    /\ \A c \in Creates : rec[c].state # "ABSENT" => vm[c] \in {"worker", "gone"}
    /\ \A n \in Nodes : rp[n] # None => vm[rp[n]] \in {"worker", "gone"}

\* A record carries the workspace of the create behind it.
Tenanted == \A c \in Creates :
    rec[c].ws = IF rec[c].state = "ABSENT" THEN None ELSE TenantOf[c]

\* What an instance remembers of a machine is right, and it remembers until the
\* machine has a record.
Remembered == \A n \in Nodes, c \in Creates :
    /\ tenant[n][c] \in {None, TenantOf[c]}
    /\ vm[c] \in {"booting", "ready", "worker"} /\ rec[c].state = "ABSENT"
         => tenant[n][c] = TenantOf[c]

\* A placed create is on a machine that its workspace may use.
PlacedWell == \A c \in Creates :
    cr[c].ph \in OnWorker /\ cr[c].worker \in Creates => May(c, cr[c].worker)

\* The step leaves every record's workspace, and which records there are, alone.
RecordsKept == \A w \in Workers :
    rec'[w].ws = rec[w].ws /\ (rec'[w].state = "ABSENT" <=> rec[w].state = "ABSENT")

\* Disconnect, heartbeats, the sweep and deletes leave workspaces alone.
LEMMA RecordSteps ==
    ASSUME TypeOK, Assigned
    PROVE  /\ \A w \in Workers : Disconnect(w) \/ Heartbeat(w) => RecordsKept
           /\ \A w \in Workers, n \in Nodes : Sweep(w, n) => RecordsKept
           /\ \A c \in Creates : DeleteSandbox(c) => RecordsKept
           /\ UNCHANGED rec => RecordsKept
<1>0. rec \in [Workers -> Record]
  BY DEF TypeOK
<1>1. ASSUME NEW v \in Workers, NEW u, rec' = [rec EXCEPT ![v] = [rec[v] EXCEPT !.used = u]]
      PROVE  RecordsKept
  BY <1>0, <1>1 DEF RecordsKept, Record
<1>2. ASSUME NEW v \in Workers, NEW x, rec' = [rec EXCEPT ![v] = [rec[v] EXCEPT !.state = x]],
             x = "ABSENT" <=> rec[v].state = "ABSENT"
      PROVE  RecordsKept
  BY <1>0, <1>2 DEF RecordsKept, Record
<1>3. ASSUME NEW w \in Workers, Disconnect(w) PROVE RecordsKept
  <2> DEFINE x == IF rec[w].state = "ABSENT" THEN rec[w].state ELSE "OFFLINE"
  <2>1. rec' = [rec EXCEPT ![w] = [rec[w] EXCEPT !.state = x]]
    BY <1>3 DEF Disconnect
  <2>2. x = "ABSENT" <=> rec[w].state = "ABSENT"
    OBVIOUS
  <2> HIDE DEF x
  <2> QED
    BY <2>1, <2>2, <1>2
<1>4. ASSUME NEW w \in Workers, Heartbeat(w) PROVE RecordsKept
  BY <1>4, <1>1 DEF Heartbeat
<1>5. ASSUME NEW w \in Workers, NEW n \in Nodes, Sweep(w, n) PROVE RecordsKept
  BY <1>5, <1>2 DEF Sweep
<1>6. ASSUME NEW c \in Creates, DeleteSandbox(c) PROVE RecordsKept
  <2>1. cr[c].worker \in Workers
    BY <1>6 DEF DeleteSandbox, Assigned, OnWorker
  <2> QED
    BY <2>1, <1>6, <1>1 DEF DeleteSandbox
<1> QED
  BY <1>3, <1>4, <1>5, <1>6 DEF RecordsKept

\* A step that touches neither machines, nor what is remembered of them, nor the
\* workspace of a record.
LEMMA Still ==
    ASSUME TypeOK, Machine, Tenanted, Remembered, RecordsKept, UNCHANGED <<vm, rp, tenant>>,
           \A c \in Creates : cr'[c].ph = "setup" => cr[c].ph = "setup"
    PROVE  Machine' /\ Tenanted' /\ Remembered'
<1>1. Machine'
  BY DEF Machine, RecordsKept, Workers
<1>2. Tenanted'
  BY DEF Tenanted, RecordsKept, Workers
<1>3. Remembered'
  BY DEF Remembered, RecordsKept, Workers
<1> QED
  BY <1>1, <1>2, <1>3

\* One prompt instance that does not restart keeps the workspaces of its machines.
LEMMA RememberedStep ==
    ASSUME Prompt, MaxCrashes = 0, \A m, n \in Nodes : m = n,
           TypeOK, Assigned, NoVMYet, Machine, Tenanted, Remembered, [Next]_vars
    PROVE  Machine' /\ Tenanted' /\ Remembered'
<1> USE ProvisioningAssumption DEF Before, Holding, Polling, OnWorker, Workers,
   procVars, dbVars, outVars, histVars
<1>1. ASSUME NEW c \in Creates, NEW n \in Nodes, NEW w \in Workers, Select(c, n, w)
      PROVE  Machine' /\ Tenanted' /\ Remembered'
  <2>1. Moved(c, "placed", n, w)
    BY <1>1, Moves
  <2>2. \A d \in Creates : cr'[d].ph = "setup" => cr[d].ph = "setup"
    BY <2>1 DEF Moved
  <2>3. RecordsKept /\ UNCHANGED <<vm, rp, tenant>>
    BY <1>1, RecordSteps DEF Select
  <2> QED
    BY <2>2, <2>3, Still
<1>2. ASSUME NEW c \in Creates, NEW n \in Nodes, SelectNoneLocal(c, n)
      PROVE  Machine' /\ Tenanted' /\ Remembered'
  <2>1. \/ Moved(c, "failed", n, cr[c].worker)
        \/ Moved(c, "grace", n, cr[c].worker)
    BY <1>2, Moves
  <2>2. \A d \in Creates : cr'[d].ph = "setup" => cr[d].ph = "setup"
    BY <2>1 DEF Moved
  <2>3. RecordsKept /\ UNCHANGED <<vm, rp, tenant>>
    BY <1>2, RecordSteps DEF SelectNoneLocal
  <2> QED
    BY <2>2, <2>3, Still
<1>3. ASSUME NEW c \in Creates, NEW n \in Nodes, SelectNone(c, n)
      PROVE  Machine' /\ Tenanted' /\ Remembered'
  <2>1. Moved(c, "reserve", n, cr[c].worker)
    BY <1>3, Moves
  <2>2. \A d \in Creates : cr'[d].ph = "setup" => cr[d].ph = "setup"
    BY <2>1 DEF Moved
  <2>3. RecordsKept /\ UNCHANGED <<vm, rp, tenant>>
    BY <1>3, RecordSteps DEF SelectNone
  <2> QED
    BY <2>2, <2>3, Still
<1>4. ASSUME NEW c \in Creates, Reserve(c)
      PROVE  Machine' /\ Tenanted' /\ Remembered'
  <2>1. \/ Moved(c, "wait", cr[c].node, cr[c].worker)
        \/ Moved(c, "create", cr[c].node, cr[c].worker)
    BY <1>4, Moves
  <2>2. \A d \in Creates : cr'[d].ph = "setup" => cr[d].ph = "setup"
    BY <2>1 DEF Moved
  <2>3. RecordsKept /\ UNCHANGED <<vm, rp, tenant>>
    BY <1>4, RecordSteps DEF Reserve
  <2> QED
    BY <2>2, <2>3, Still
<1>5. ASSUME NEW c \in Creates, NEW w \in Workers, PollPlaced(c, w)
      PROVE  Machine' /\ Tenanted' /\ Remembered'
  <2>1. Moved(c, "placed", cr[c].node, w)
    BY <1>5, Moves
  <2>2. \A d \in Creates : cr'[d].ph = "setup" => cr[d].ph = "setup"
    BY <2>1 DEF Moved
  <2>3. RecordsKept /\ UNCHANGED <<vm, rp, tenant>>
    BY <1>5, RecordSteps DEF PollPlaced
  <2> QED
    BY <2>2, <2>3, Still
<1>6. ASSUME NEW c \in Creates, GraceTimeout(c)
      PROVE  Machine' /\ Tenanted' /\ Remembered'
  <2>1. Moved(c, "failed", cr[c].node, cr[c].worker)
    BY <1>6, Moves
  <2>2. \A d \in Creates : cr'[d].ph = "setup" => cr[d].ph = "setup"
    BY <2>1 DEF Moved
  <2>3. RecordsKept /\ UNCHANGED <<vm, rp, tenant>>
    BY <1>6, RecordSteps DEF GraceTimeout
  <2> QED
    BY <2>2, <2>3, Still
<1>7. ASSUME NEW c \in Creates, GiveUpWaiting(c)
      PROVE  Machine' /\ Tenanted' /\ Remembered'
  <2>1. Moved(c, "create", cr[c].node, cr[c].worker)
    BY <1>7, Moves
  <2>2. \A d \in Creates : cr'[d].ph = "setup" => cr[d].ph = "setup"
    BY <2>1 DEF Moved
  <2>3. RecordsKept /\ UNCHANGED <<vm, rp, tenant>>
    BY <1>7, RecordSteps DEF GiveUpWaiting
  <2> QED
    BY <2>2, <2>3, Still
<1>8. ASSUME NEW c \in Creates, CreateVMFails(c)
      PROVE  Machine' /\ Tenanted' /\ Remembered'
  <2>1. Moved(c, "failed", cr[c].node, cr[c].worker)
    BY <1>8, Moves
  <2>2. \A d \in Creates : cr'[d].ph = "setup" => cr[d].ph = "setup"
    BY <2>1 DEF Moved
  <2>3. RecordsKept /\ UNCHANGED <<vm, rp, tenant>>
    BY <1>8, RecordSteps DEF CreateVMFails
  <2> QED
    BY <2>2, <2>3, Still
<1>9. ASSUME NEW c \in Creates, CreateVM(c)
      PROVE  Machine' /\ Tenanted' /\ Remembered'
  <2>1. cr'[c].ph # "setup" /\ \A d \in Creates \ {c} : cr'[d] = cr[d]
    BY <1>9, Moves DEF Moved
  <2>2. PICK n \in Nodes : n = cr[c].node
    BY <1>9 DEF CreateVM, Assigned
  <2>3. /\ vm[c] = "none" /\ vm'[c] = "booting" /\ \A d \in Creates \ {c} : vm'[d] = vm[d]
        /\ UNCHANGED <<rec, rp>>
    BY <1>9 DEF CreateVM, NoVMYet, TypeOK
  <2>4. \A k \in Nodes : /\ tenant'[k][c] = TenantOf[c]
                         /\ \A d \in Creates \ {c} : tenant'[k][d] = tenant[k][d]
    BY <2>2, <1>9 DEF CreateVM, TypeOK
  <2>5. Machine'
    BY <2>1, <2>3, SMTT(20) DEF Machine, TypeOK
  <2>6. Tenanted'
    BY <2>3 DEF Tenanted
  <2>7. Remembered'
    BY <2>3, <2>4 DEF Remembered
  <2> QED
    BY <2>5, <2>6, <2>7
<1>10. ASSUME NEW c \in Creates, VMBoots(c)
      PROVE  Machine' /\ Tenanted' /\ Remembered'
  <2>1. /\ vm[c] = "booting" /\ vm'[c] = "ready"
        /\ \A d \in Creates \ {c} : vm'[d] = vm[d]
        /\ UNCHANGED <<cr, rec, rp, tenant>>
    BY <1>10 DEF VMBoots, TypeOK
  <2>5. Machine'
    BY <2>1, SMTT(20) DEF Machine, TypeOK
  <2>6. Tenanted'
    BY <2>1 DEF Tenanted
  <2>7. Remembered'
    BY <2>1 DEF Remembered
  <2> QED
    BY <2>5, <2>6, <2>7
<1>11. ASSUME NEW c \in Creates, VMReady(c)
      PROVE  Machine' /\ Tenanted' /\ Remembered'
  <2>1. /\ cr'[c].ph = "setup" /\ \A d \in Creates \ {c} : cr'[d] = cr[d]
    BY <1>11, Moves DEF Moved
  <2>2. vm[c] = "ready" /\ UNCHANGED <<vm, rec, rp, tenant>>
    BY <1>11 DEF VMReady
  <2>5. Machine'
    BY <2>1, <2>2 DEF Machine, TypeOK
  <2>6. Tenanted'
    BY <2>2 DEF Tenanted
  <2>7. Remembered'
    BY <2>2 DEF Remembered
  <2> QED
    BY <2>5, <2>6, <2>7
<1>12. ASSUME NEW c \in Creates, SetupPoder(c)
      PROVE  Machine' /\ Tenanted' /\ Remembered'
  <2>1. /\ cr'[c].ph # "setup" /\ \A d \in Creates \ {c} : cr'[d] = cr[d]
    BY <1>12, Moves DEF Moved
  <2>2. /\ vm[c] = "ready" /\ \A d \in Creates \ {c} : vm'[d] = vm[d]
        /\ UNCHANGED <<rec, rp, tenant>>
    BY <1>12 DEF SetupPoder, Machine, TypeOK
  <2>3. rec[c].state = "ABSENT" /\ \A n \in Nodes : rp[n] # c
    BY <2>2 DEF Machine
  <2>5. Machine'
    BY <2>1, <2>2, <2>3, SMTT(20) DEF Machine, TypeOK
  <2>6. Tenanted'
    BY <2>2 DEF Tenanted
  <2>7. Remembered'
    BY <2>2, <2>3 DEF Remembered
  <2> QED
    BY <2>5, <2>6, <2>7
<1>13. ASSUME NEW c \in Creates, AttemptFails(c)
      PROVE  Machine' /\ Tenanted' /\ Remembered'
  <2>1. /\ cr'[c].ph # "setup" /\ \A d \in Creates \ {c} : cr'[d] = cr[d]
    BY <1>13, Moves DEF Moved
  <2>2. UNCHANGED <<rec, rp, tenant>>
    BY <1>13 DEF AttemptFails
  <2>3. CASE UNCHANGED vm
    <3>1. RecordsKept
      BY <2>2, RecordSteps
    <3> QED
      BY <2>1, <2>2, <2>3, <3>1, Still
  <2>4. CASE cr[c].ph = "setup" /\ vm' = [vm EXCEPT ![c] = "worker"]
    <3>1. vm[c] = "ready" /\ \A d \in Creates \ {c} : vm'[d] = vm[d]
      BY <2>4 DEF Machine, TypeOK
    <3>2. rec[c].state = "ABSENT" /\ \A n \in Nodes : rp[n] # c
      BY <3>1 DEF Machine
    <3>3. Machine'
      BY <2>1, <2>2, <3>1, <3>2, SMTT(20) DEF Machine, TypeOK
    <3>4. Tenanted'
      BY <2>2 DEF Tenanted
    <3>5. Remembered'
      BY <2>2, <3>1, <3>2 DEF Remembered
    <3> QED
      BY <3>3, <3>4, <3>5
  <2> QED
    BY <2>3, <2>4, <1>13 DEF AttemptFails
<1>14. ASSUME NEW c \in Creates, TerminateOrphanVM(c)
      PROVE  Machine' /\ Tenanted' /\ Remembered'
  <2>1. \A d \in Creates : cr'[d].ph = "setup" => cr[d].ph = "setup" /\ d # c
    BY <1>14, Moves DEF Moved
  <2>2. UNCHANGED <<rec, rp, tenant>>
    BY <1>14 DEF TerminateOrphanVM
  <2>3. \A d \in Creates : vm'[d] = vm[d] \/ (d = c /\ vm'[d] = "gone")
    BY <1>14 DEF TerminateOrphanVM, Terminate, TypeOK
  <2>5. Machine'
    BY <2>1, <2>2, <2>3 DEF Machine, TypeOK
  <2>6. Tenanted'
    BY <2>2 DEF Tenanted
  <2>7. Remembered'
    BY <2>2, <2>3 DEF Remembered
  <2> QED
    BY <2>5, <2>6, <2>7
<1>15. ASSUME NEW c \in Creates, AddRecord(c)
      PROVE  Machine' /\ Tenanted' /\ Remembered'
  <2>1. Moved(c, "recorded", cr[c].node, cr[c].worker)
    BY <1>15, Moves
  <2>2. \A d \in Creates : cr'[d].ph = "setup" => cr[d].ph = "setup"
    BY <2>1 DEF Moved
  <2>3. RecordsKept /\ UNCHANGED <<vm, rp, tenant>>
    BY <1>15, RecordSteps DEF AddRecord
  <2> QED
    BY <2>2, <2>3, Still
<1>16. ASSUME NEW c \in Creates, Deliver(c)
      PROVE  Machine' /\ Tenanted' /\ Remembered'
  <2>1. \/ Moved(c, "running", cr[c].node, cr[c].worker)
        \/ Moved(c, "errored", cr[c].node, cr[c].worker)
    BY <1>16, Moves
  <2>2. \A d \in Creates : cr'[d].ph = "setup" => cr[d].ph = "setup"
    BY <2>1 DEF Moved
  <2>3. RecordsKept /\ UNCHANGED <<vm, rp, tenant>>
    BY <1>16, RecordSteps DEF Deliver
  <2> QED
    BY <2>2, <2>3, Still
<1>17. ASSUME NEW c \in Creates, DeleteSandbox(c)
      PROVE  Machine' /\ Tenanted' /\ Remembered'
  <2>1. Moved(c, "deleted", cr[c].node, cr[c].worker)
    BY <1>17, Moves
  <2>2. \A d \in Creates : cr'[d].ph = "setup" => cr[d].ph = "setup"
    BY <2>1, SMTT(20) DEF Moved
  <2>3. RecordsKept /\ UNCHANGED <<vm, rp, tenant>>
    BY <1>17, RecordSteps DEF DeleteSandbox
  <2> QED
    BY <2>2, <2>3, Still
<1>18. ASSUME NEW w \in Workers, NEW n \in Nodes, Register(w, n)
      PROVE  Machine' /\ Tenanted' /\ Remembered'
  <2>1. UNCHANGED <<cr, vm, rp, tenant>> /\ (w \in Creates => vm[w] = "worker")
    BY <1>18 DEF Register
  <2> DEFINE t == LET ws == IF w \in Creates THEN tenant[n][w] ELSE None
                  IN  IF ws = None THEN rec[w].ws ELSE ws
  <2>2. /\ rec'[w].state = "ONLINE" /\ rec'[w].ws = t
        /\ \A v \in Workers \ {w} : rec'[v] = rec[v]
    BY <1>18 DEF Register, TypeOK
  <2>3. w \in Creates => t = TenantOf[w]
    BY <2>1 DEF Tenanted, Remembered
  <2> HIDE DEF t
  <2>5. Machine'
    BY <2>1, <2>2 DEF Machine
  <2>6. Tenanted'
    BY <2>2, <2>3 DEF Tenanted
  <2>7. Remembered'
    BY <2>1, <2>2 DEF Remembered
  <2> QED
    BY <2>5, <2>6, <2>7
<1>19. ASSUME NEW w \in Workers, Disconnect(w)
      PROVE  Machine' /\ Tenanted' /\ Remembered'
  <2>2. UNCHANGED cr
    BY <1>19 DEF Disconnect
  <2>3. RecordsKept /\ UNCHANGED <<vm, rp, tenant>>
    BY <1>19, RecordSteps DEF Disconnect
  <2> QED
    BY <2>2, <2>3, Still
<1>20. ASSUME NEW w \in Workers, Heartbeat(w)
      PROVE  Machine' /\ Tenanted' /\ Remembered'
  <2>2. UNCHANGED cr
    BY <1>20 DEF Heartbeat
  <2>3. RecordsKept /\ UNCHANGED <<vm, rp, tenant>>
    BY <1>20, RecordSteps DEF Heartbeat
  <2> QED
    BY <2>2, <2>3, Still
<1>21. ASSUME NEW w \in Workers, NEW n \in Nodes, Sweep(w, n)
      PROVE  Machine' /\ Tenanted' /\ Remembered'
  <2>2. UNCHANGED cr
    BY <1>21 DEF Sweep
  <2>3. RecordsKept /\ UNCHANGED <<vm, rp, tenant>>
    BY <1>21, RecordSteps DEF Sweep
  <2> QED
    BY <2>2, <2>3, Still
<1>22. ASSUME NEW n \in Nodes, NEW c \in Creates, ForgetTenant(n, c)
      PROVE  Machine' /\ Tenanted' /\ Remembered'
  <2>1. UNCHANGED <<cr, vm, rec, rp>>
    BY <1>22 DEF ForgetTenant
  <2>2. /\ rec[c].state # "ABSENT" \/ vm[c] \in {"broken", "gone"}
        /\ \A k \in Nodes, d \in Creates :
              tenant'[k][d] = tenant[k][d] \/ (d = c /\ tenant'[k][d] = None)
    BY <1>22 DEF ForgetTenant, TypeOK
  <2>5. Machine'
    BY <2>1 DEF Machine
  <2>6. Tenanted'
    BY <2>1 DEF Tenanted
  <2>7. Remembered'
    BY <2>1, <2>2 DEF Remembered
  <2> QED
    BY <2>5, <2>6, <2>7
<1>23. ASSUME NEW n \in Nodes, Expire(n)
      PROVE  Machine' /\ Tenanted' /\ Remembered'
  <2>2. UNCHANGED cr
    BY <1>23 DEF Expire
  <2>3. RecordsKept /\ UNCHANGED <<vm, rp, tenant>>
    BY <1>23, RecordSteps DEF Expire
  <2> QED
    BY <2>2, <2>3, Still
<1>24. ASSUME NEW n \in Nodes, NEW c \in Creates, ReapWatch(n, c)
      PROVE  Machine' /\ Tenanted' /\ Remembered'
  <2>2. UNCHANGED cr
    BY <1>24 DEF ReapWatch
  <2>3. RecordsKept /\ UNCHANGED <<vm, rp, tenant>>
    BY <1>24, RecordSteps DEF ReapWatch
  <2> QED
    BY <2>2, <2>3, Still
<1>25. ASSUME NEW n \in Nodes, NEW c \in Creates, ReapStart(n, c)
      PROVE  Machine' /\ Tenanted' /\ Remembered'
  <2>1. UNCHANGED <<cr, vm, rec, tenant>>
    BY <1>25 DEF ReapStart
  <2>2. rec[c].state # "ABSENT" /\ \A k \in Nodes : rp'[k] = rp[k] \/ rp'[k] = c
    BY <1>25 DEF ReapStart, Empty, TypeOK
  <2>5. Machine'
    BY <2>1, <2>2 DEF Machine
  <2>6. Tenanted'
    BY <2>1 DEF Tenanted
  <2>7. Remembered'
    BY <2>1 DEF Remembered
  <2> QED
    BY <2>5, <2>6, <2>7
<1>26. ASSUME NEW n \in Nodes, ReapEnd(n)
      PROVE  Machine' /\ Tenanted' /\ Remembered'
  <2>1. /\ rp[n] \in Creates /\ vm[rp[n]] \in {"worker", "gone"} /\ UNCHANGED <<cr, tenant>>
        /\ \A k \in Nodes : rp'[k] = rp[k] \/ rp'[k] = None
    BY <1>26 DEF ReapEnd, TypeOK, Machine
  <2>2. \/ UNCHANGED <<vm, rec>>
        \/ /\ vm' = [vm EXCEPT ![rp[n]] = "gone"]
           /\ rec' = [rec EXCEPT ![rp[n]] = NoRecord]
    BY <1>26 DEF ReapEnd, Terminate
  <2>3. \A d \in Creates :
           \/ vm'[d] = vm[d] /\ rec'[d] = rec[d]
           \/ vm'[d] = "gone" /\ vm[d] # "ready" /\ rec'[d] = NoRecord
    BY <2>1, <2>2 DEF TypeOK
  <2>4. NoRecord.state = "ABSENT" /\ NoRecord.ws = None
    BY DEF NoRecord
  <2>5. Machine'
    BY <2>1, <2>3, <2>4 DEF Machine, TypeOK
  <2>6. Tenanted'
    BY <2>3, <2>4 DEF Tenanted
  <2>7. Remembered'
    BY <2>1, <2>3 DEF Remembered
  <2> QED
    BY <2>5, <2>6, <2>7
<1>27. ASSUME NEW n \in Nodes, Crash(n)
      PROVE  Machine' /\ Tenanted' /\ Remembered'
  BY <1>27 DEF Crash, TypeOK
<1>28. CASE UNCHANGED vars
  BY <1>28, RecordSteps, Still DEF vars
<1> QED
  BY <1>1, <1>2, <1>3, <1>4, <1>5, <1>6, <1>7, <1>8, <1>9, <1>10, <1>11, <1>12,
     <1>13, <1>14, <1>15, <1>16, <1>17, <1>18, <1>19, <1>20, <1>21, <1>22, <1>23,
     <1>24, <1>25, <1>26, <1>27, <1>28 DEF Next, ScheduleStep

\* A step that puts no sandbox anywhere.
LEMMA Stays ==
    ASSUME TypeOK, PlacedWell, TenantsApart,
           \A c \in Creates : cr'[c].ph \in OnWorker =>
               cr[c].ph \in OnWorker /\ cr'[c].worker = cr[c].worker,
           \A v \in Creates : sbrec'[v] \subseteq sbrec[v] /\ host'[v] \subseteq host[v]
    PROVE  PlacedWell' /\ TenantsApart'
<1>1. PlacedWell'
  BY DEF PlacedWell, May
<1>2. TenantsApart'
  BY DEF TenantsApart
<1> QED
  BY <1>1, <1>2

\* SelectBestFor's tenant filter on a record that carries the right workspace.
LEMMA Placed ==
    ASSUME Tenanted, PlacedWell, TenantsApart, UNCHANGED <<sbrec, host>>,
           NEW c \in Creates, NEW n, NEW w \in Workers, Eligible(w, c), Moved(c, "placed", n, w)
    PROVE  PlacedWell' /\ TenantsApart'
<1>1. w \in Creates => May(c, w)
  BY DEF Eligible, Matches, Tenanted, May
<1>2. PlacedWell'
  BY <1>1 DEF PlacedWell, May, Moved
<1>3. TenantsApart'
  BY DEF TenantsApart
<1> QED
  BY <1>2, <1>3

\* With the right workspaces on record, placement keeps tenants apart.
LEMMA ApartStep ==
    ASSUME MaxCrashes = 0, TypeOK, Assigned, Tenanted, PlacedWell, TenantsApart, [Next]_vars
    PROVE  PlacedWell' /\ TenantsApart'
<1> USE ProvisioningAssumption DEF Before, Holding, Polling, OnWorker, Workers,
   procVars, dbVars, outVars, histVars
<1>1. ASSUME NEW c \in Creates, NEW n \in Nodes, NEW w \in Workers, Select(c, n, w)
      PROVE  PlacedWell' /\ TenantsApart'
  <2>1. Moved(c, "placed", n, w)
    BY <1>1, Moves
  <2> QED
    BY <2>1, <1>1, Placed DEF Select
<1>2. ASSUME NEW c \in Creates, NEW n \in Nodes, SelectNoneLocal(c, n)
      PROVE  PlacedWell' /\ TenantsApart'
  <2>1. \/ Moved(c, "failed", n, cr[c].worker)
        \/ Moved(c, "grace", n, cr[c].worker)
    BY <1>2, Moves
  <2>2. \A d \in Creates : cr'[d].ph \in OnWorker =>
           cr[d].ph \in OnWorker /\ cr'[d].worker = cr[d].worker
    BY <2>1 DEF Moved
  <2>3. \A v \in Creates : sbrec'[v] \subseteq sbrec[v] /\ host'[v] \subseteq host[v]
    BY <1>2 DEF SelectNoneLocal, TypeOK
  <2> QED
    BY <2>2, <2>3, Stays
<1>3. ASSUME NEW c \in Creates, NEW n \in Nodes, SelectNone(c, n)
      PROVE  PlacedWell' /\ TenantsApart'
  <2>1. Moved(c, "reserve", n, cr[c].worker)
    BY <1>3, Moves
  <2>2. \A d \in Creates : cr'[d].ph \in OnWorker =>
           cr[d].ph \in OnWorker /\ cr'[d].worker = cr[d].worker
    BY <2>1 DEF Moved
  <2>3. \A v \in Creates : sbrec'[v] \subseteq sbrec[v] /\ host'[v] \subseteq host[v]
    BY <1>3 DEF SelectNone, TypeOK
  <2> QED
    BY <2>2, <2>3, Stays
<1>4. ASSUME NEW c \in Creates, Reserve(c)
      PROVE  PlacedWell' /\ TenantsApart'
  <2>1. \/ Moved(c, "wait", cr[c].node, cr[c].worker)
        \/ Moved(c, "create", cr[c].node, cr[c].worker)
    BY <1>4, Moves
  <2>2. \A d \in Creates : cr'[d].ph \in OnWorker =>
           cr[d].ph \in OnWorker /\ cr'[d].worker = cr[d].worker
    BY <2>1 DEF Moved
  <2>3. \A v \in Creates : sbrec'[v] \subseteq sbrec[v] /\ host'[v] \subseteq host[v]
    BY <1>4 DEF Reserve, TypeOK
  <2> QED
    BY <2>2, <2>3, Stays
<1>5. ASSUME NEW c \in Creates, NEW w \in Workers, PollPlaced(c, w)
      PROVE  PlacedWell' /\ TenantsApart'
  <2>1. Moved(c, "placed", cr[c].node, w)
    BY <1>5, Moves
  <2> QED
    BY <2>1, <1>5, Placed DEF PollPlaced
<1>6. ASSUME NEW c \in Creates, GraceTimeout(c)
      PROVE  PlacedWell' /\ TenantsApart'
  <2>1. Moved(c, "failed", cr[c].node, cr[c].worker)
    BY <1>6, Moves
  <2>2. \A d \in Creates : cr'[d].ph \in OnWorker =>
           cr[d].ph \in OnWorker /\ cr'[d].worker = cr[d].worker
    BY <2>1 DEF Moved
  <2>3. \A v \in Creates : sbrec'[v] \subseteq sbrec[v] /\ host'[v] \subseteq host[v]
    BY <1>6 DEF GraceTimeout, TypeOK
  <2> QED
    BY <2>2, <2>3, Stays
<1>7. ASSUME NEW c \in Creates, GiveUpWaiting(c)
      PROVE  PlacedWell' /\ TenantsApart'
  <2>1. Moved(c, "create", cr[c].node, cr[c].worker)
    BY <1>7, Moves
  <2>2. \A d \in Creates : cr'[d].ph \in OnWorker =>
           cr[d].ph \in OnWorker /\ cr'[d].worker = cr[d].worker
    BY <2>1 DEF Moved
  <2>3. \A v \in Creates : sbrec'[v] \subseteq sbrec[v] /\ host'[v] \subseteq host[v]
    BY <1>7 DEF GiveUpWaiting, TypeOK
  <2> QED
    BY <2>2, <2>3, Stays
<1>8. ASSUME NEW c \in Creates, CreateVMFails(c)
      PROVE  PlacedWell' /\ TenantsApart'
  <2>1. Moved(c, "failed", cr[c].node, cr[c].worker)
    BY <1>8, Moves
  <2>2. \A d \in Creates : cr'[d].ph \in OnWorker =>
           cr[d].ph \in OnWorker /\ cr'[d].worker = cr[d].worker
    BY <2>1 DEF Moved
  <2>3. \A v \in Creates : sbrec'[v] \subseteq sbrec[v] /\ host'[v] \subseteq host[v]
    BY <1>8 DEF CreateVMFails, TypeOK
  <2> QED
    BY <2>2, <2>3, Stays
<1>9. ASSUME NEW c \in Creates, CreateVM(c)
      PROVE  PlacedWell' /\ TenantsApart'
  <2>1. \/ Moved(c, "boot", cr[c].node, cr[c].worker)
        \/ Moved(c, "failed", cr[c].node, cr[c].worker)
    BY <1>9, Moves
  <2>2. \A d \in Creates : cr'[d].ph \in OnWorker =>
           cr[d].ph \in OnWorker /\ cr'[d].worker = cr[d].worker
    BY <2>1 DEF Moved
  <2>3. \A v \in Creates : sbrec'[v] \subseteq sbrec[v] /\ host'[v] \subseteq host[v]
    BY <1>9 DEF CreateVM, TypeOK
  <2> QED
    BY <2>2, <2>3, Stays
<1>10. ASSUME NEW c \in Creates, VMBoots(c)
      PROVE  PlacedWell' /\ TenantsApart'
  <2>2. UNCHANGED cr
    BY <1>10 DEF VMBoots
  <2>3. \A v \in Creates : sbrec'[v] \subseteq sbrec[v] /\ host'[v] \subseteq host[v]
    BY <1>10 DEF VMBoots, TypeOK
  <2> QED
    BY <2>2, <2>3, Stays
<1>11. ASSUME NEW c \in Creates, VMReady(c)
      PROVE  PlacedWell' /\ TenantsApart'
  <2>1. Moved(c, "setup", cr[c].node, cr[c].worker)
    BY <1>11, Moves
  <2>2. \A d \in Creates : cr'[d].ph \in OnWorker =>
           cr[d].ph \in OnWorker /\ cr'[d].worker = cr[d].worker
    BY <2>1 DEF Moved
  <2>3. \A v \in Creates : sbrec'[v] \subseteq sbrec[v] /\ host'[v] \subseteq host[v]
    BY <1>11 DEF VMReady, TypeOK
  <2> QED
    BY <2>2, <2>3, Stays
<1>12. ASSUME NEW c \in Creates, SetupPoder(c)
      PROVE  PlacedWell' /\ TenantsApart'
  <2>1. Moved(c, "register", cr[c].node, cr[c].worker)
    BY <1>12, Moves
  <2>2. \A d \in Creates : cr'[d].ph \in OnWorker =>
           cr[d].ph \in OnWorker /\ cr'[d].worker = cr[d].worker
    BY <2>1 DEF Moved
  <2>3. \A v \in Creates : sbrec'[v] \subseteq sbrec[v] /\ host'[v] \subseteq host[v]
    BY <1>12 DEF SetupPoder, TypeOK
  <2> QED
    BY <2>2, <2>3, Stays
<1>13. ASSUME NEW c \in Creates, AttemptFails(c)
      PROVE  PlacedWell' /\ TenantsApart'
  <2>1. Moved(c, "giveback", cr[c].node, cr[c].worker)
    BY <1>13, Moves
  <2>2. \A d \in Creates : cr'[d].ph \in OnWorker =>
           cr[d].ph \in OnWorker /\ cr'[d].worker = cr[d].worker
    BY <2>1 DEF Moved
  <2>3. \A v \in Creates : sbrec'[v] \subseteq sbrec[v] /\ host'[v] \subseteq host[v]
    BY <1>13 DEF AttemptFails, TypeOK
  <2> QED
    BY <2>2, <2>3, Stays
<1>14. ASSUME NEW c \in Creates, TerminateOrphanVM(c)
      PROVE  PlacedWell' /\ TenantsApart'
  <2>1. Moved(c, "failed", cr[c].node, cr[c].worker)
    BY <1>14, Moves
  <2>2. \A d \in Creates : cr'[d].ph \in OnWorker =>
           cr[d].ph \in OnWorker /\ cr'[d].worker = cr[d].worker
    BY <2>1 DEF Moved
  <2>3. \A v \in Creates : sbrec'[v] \subseteq sbrec[v] /\ host'[v] \subseteq host[v]
    BY <1>14 DEF TerminateOrphanVM, Terminate, TypeOK
  <2> QED
    BY <2>2, <2>3, Stays
<1>15. ASSUME NEW c \in Creates, AddRecord(c)
      PROVE  PlacedWell' /\ TenantsApart'
  <2>1. Moved(c, "recorded", cr[c].node, cr[c].worker)
    BY <1>15, Moves
  <2>2. /\ cr[c].worker \in Workers /\ host' = host
        /\ sbrec' = [sbrec EXCEPT ![cr[c].worker] = sbrec[cr[c].worker] \cup {c}]
    BY <1>15 DEF AddRecord, Assigned
  <2>3. \A v \in Creates : sbrec'[v] \subseteq sbrec[v] \cup IF v = cr[c].worker THEN {c} ELSE {}
    BY <2>2 DEF TypeOK
  <2>4. cr[c].worker \in Creates => May(c, cr[c].worker)
    BY <1>15 DEF AddRecord, PlacedWell
  <2>5. PlacedWell'
    BY <2>1, <2>4 DEF PlacedWell, May, Moved
  <2>6. TenantsApart'
    BY <2>2, <2>3, <2>4 DEF TenantsApart, May
  <2> QED
    BY <2>5, <2>6
<1>16. ASSUME NEW c \in Creates, Deliver(c)
      PROVE  PlacedWell' /\ TenantsApart'
  <2>1. \/ Moved(c, "running", cr[c].node, cr[c].worker)
        \/ Moved(c, "errored", cr[c].node, cr[c].worker)
    BY <1>16, Moves
  <2>2. /\ cr[c].worker \in Workers /\ sbrec' = sbrec
        /\ \/ host' = [host EXCEPT ![cr[c].worker] = host[cr[c].worker] \cup {c}]
           \/ host' = host
    BY <1>16 DEF Deliver, Assigned
  <2>3. \A v \in Creates : host'[v] \subseteq host[v] \cup IF v = cr[c].worker THEN {c} ELSE {}
    BY <2>2 DEF TypeOK
  <2>4. cr[c].worker \in Creates => May(c, cr[c].worker)
    BY <1>16 DEF Deliver, PlacedWell
  <2>5. PlacedWell'
    BY <2>1, <2>4 DEF PlacedWell, May, Moved
  <2>6. TenantsApart'
    BY <2>2, <2>3, <2>4 DEF TenantsApart, May
  <2> QED
    BY <2>5, <2>6
<1>17. ASSUME NEW c \in Creates, DeleteSandbox(c)
      PROVE  PlacedWell' /\ TenantsApart'
  <2>1. Moved(c, "deleted", cr[c].node, cr[c].worker)
    BY <1>17, Moves
  <2>2. \A d \in Creates : cr'[d].ph \in OnWorker =>
           cr[d].ph \in OnWorker /\ cr'[d].worker = cr[d].worker
    BY <2>1 DEF Moved
  <2>3. \A v \in Creates : sbrec'[v] \subseteq sbrec[v] /\ host'[v] \subseteq host[v]
    BY <1>17 DEF DeleteSandbox, TypeOK
  <2> QED
    BY <2>2, <2>3, Stays
<1>18. ASSUME NEW w \in Workers, NEW n \in Nodes, Register(w, n)
      PROVE  PlacedWell' /\ TenantsApart'
  <2>2. UNCHANGED cr
    BY <1>18 DEF Register
  <2>3. \A v \in Creates : sbrec'[v] \subseteq sbrec[v] /\ host'[v] \subseteq host[v]
    BY <1>18 DEF Register, TypeOK
  <2> QED
    BY <2>2, <2>3, Stays
<1>19. ASSUME NEW w \in Workers, Disconnect(w)
      PROVE  PlacedWell' /\ TenantsApart'
  <2>2. UNCHANGED cr
    BY <1>19 DEF Disconnect
  <2>3. \A v \in Creates : sbrec'[v] \subseteq sbrec[v] /\ host'[v] \subseteq host[v]
    BY <1>19 DEF Disconnect, TypeOK
  <2> QED
    BY <2>2, <2>3, Stays
<1>20. ASSUME NEW w \in Workers, Heartbeat(w)
      PROVE  PlacedWell' /\ TenantsApart'
  <2>2. UNCHANGED cr
    BY <1>20 DEF Heartbeat
  <2>3. \A v \in Creates : sbrec'[v] \subseteq sbrec[v] /\ host'[v] \subseteq host[v]
    BY <1>20 DEF Heartbeat, TypeOK
  <2> QED
    BY <2>2, <2>3, Stays
<1>21. ASSUME NEW w \in Workers, NEW n \in Nodes, Sweep(w, n)
      PROVE  PlacedWell' /\ TenantsApart'
  <2>2. UNCHANGED cr
    BY <1>21 DEF Sweep
  <2>3. \A v \in Creates : sbrec'[v] \subseteq sbrec[v] /\ host'[v] \subseteq host[v]
    BY <1>21 DEF Sweep, TypeOK
  <2> QED
    BY <2>2, <2>3, Stays
<1>22. ASSUME NEW n \in Nodes, NEW c \in Creates, ForgetTenant(n, c)
      PROVE  PlacedWell' /\ TenantsApart'
  <2>2. UNCHANGED cr
    BY <1>22 DEF ForgetTenant
  <2>3. \A v \in Creates : sbrec'[v] \subseteq sbrec[v] /\ host'[v] \subseteq host[v]
    BY <1>22 DEF ForgetTenant, TypeOK
  <2> QED
    BY <2>2, <2>3, Stays
<1>23. ASSUME NEW n \in Nodes, Expire(n)
      PROVE  PlacedWell' /\ TenantsApart'
  <2>2. UNCHANGED cr
    BY <1>23 DEF Expire
  <2>3. \A v \in Creates : sbrec'[v] \subseteq sbrec[v] /\ host'[v] \subseteq host[v]
    BY <1>23 DEF Expire, TypeOK
  <2> QED
    BY <2>2, <2>3, Stays
<1>24. ASSUME NEW n \in Nodes, NEW c \in Creates, ReapWatch(n, c)
      PROVE  PlacedWell' /\ TenantsApart'
  <2>2. UNCHANGED cr
    BY <1>24 DEF ReapWatch
  <2>3. \A v \in Creates : sbrec'[v] \subseteq sbrec[v] /\ host'[v] \subseteq host[v]
    BY <1>24 DEF ReapWatch, TypeOK
  <2> QED
    BY <2>2, <2>3, Stays
<1>25. ASSUME NEW n \in Nodes, NEW c \in Creates, ReapStart(n, c)
      PROVE  PlacedWell' /\ TenantsApart'
  <2>2. UNCHANGED cr
    BY <1>25 DEF ReapStart
  <2>3. \A v \in Creates : sbrec'[v] \subseteq sbrec[v] /\ host'[v] \subseteq host[v]
    BY <1>25 DEF ReapStart, TypeOK
  <2> QED
    BY <2>2, <2>3, Stays
<1>26. ASSUME NEW n \in Nodes, ReapEnd(n)
      PROVE  PlacedWell' /\ TenantsApart'
  <2>2. UNCHANGED cr
    BY <1>26 DEF ReapEnd
  <2>3. \A v \in Creates : sbrec'[v] \subseteq sbrec[v] /\ host'[v] \subseteq host[v]
    BY <1>26, ZenonT(40) DEF ReapEnd, Terminate, TypeOK
  <2> QED
    BY <2>2, <2>3, Stays
<1>27. ASSUME NEW n \in Nodes, Crash(n)
      PROVE  PlacedWell' /\ TenantsApart'
  BY <1>27 DEF Crash, TypeOK
<1>28. CASE UNCHANGED vars
  BY <1>28, Stays DEF vars
<1> QED
  BY <1>1, <1>2, <1>3, <1>4, <1>5, <1>6, <1>7, <1>8, <1>9, <1>10, <1>11, <1>12,
     <1>13, <1>14, <1>15, <1>16, <1>17, <1>18, <1>19, <1>20, <1>21, <1>22, <1>23,
     <1>24, <1>25, <1>26, <1>27, <1>28 DEF Next, ScheduleStep

-----------------------------------------------------------------------------
\* The invariant that tenant isolation rests on.
TenantInvariant == Machine /\ Tenanted /\ Remembered /\ PlacedWell /\ TenantsApart

\* It holds before anything was created.
LEMMA InitTenantInvariant == Init => TenantInvariant
<1> SUFFICES ASSUME Init PROVE TenantInvariant
  OBVIOUS
<1>1. NoCreate.ph = "idle" /\ NoRecord.state = "ABSENT" /\ NoRecord.ws = None
  BY DEF NoCreate, NoRecord
<1>2. Machine /\ Tenanted
  BY <1>1 DEF Init, Machine, Tenanted, Workers
<1>3. Remembered /\ PlacedWell
  BY <1>1 DEF Init, Remembered, PlacedWell, OnWorker
<1>4. TenantsApart
  BY DEF Init, TenantsApart, Workers
<1> QED
  BY <1>2, <1>3, <1>4 DEF TenantInvariant

\* poderWorkspaceOrProvisioner "keeps it out of every other workspace's
\* placement": true of one control plane that does not restart, whose machines
\* register within vmTenantTTL.
THEOREM TenantsApartHolds ==
    ASSUME Prompt, MaxCrashes = 0, \A m, n \in Nodes : m = n
    PROVE  Spec => []TenantsApart
<1>1. Invariant /\ TenantInvariant /\ [Next]_vars => TenantInvariant'
  <2> SUFFICES ASSUME Invariant, TenantInvariant, [Next]_vars PROVE TenantInvariant'
    OBVIOUS
  <2>1. TypeOK /\ Assigned /\ NoVMYet
    BY DEF Invariant
  <2>2. Machine' /\ Tenanted' /\ Remembered'
    BY <2>1, RememberedStep DEF TenantInvariant
  <2>3. PlacedWell' /\ TenantsApart'
    BY <2>1, ApartStep DEF TenantInvariant
  <2> QED
    BY <2>2, <2>3 DEF TenantInvariant
<1>2. TenantInvariant => TenantsApart
  BY DEF TenantInvariant
<1> QED
  BY <1>1, <1>2, InitTenantInvariant, InvariantHolds, PTL DEF Spec
=============================================================================
