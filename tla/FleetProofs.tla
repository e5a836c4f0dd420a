----------------------------- MODULE FleetProofs -----------------------------
(***************************************************************************)
(* Theorems about Fleet, for any number of connections and instances and   *)
(* any number of faults and DELETEs.                                       *)
(***************************************************************************)
EXTENDS Fleet, TLAPS

\* The reaper deletes the record only after DeleteVM: of a worker it buries no
\* machine is left.
BuriedIsGone == rp.ph = "bury" => vm = "gone"

\* The inductive invariant.  VMsAccounted is not inductive without
\* BuriedIsGone: burying deletes the record.
FleetInv == TypeOK /\ VMsAccounted /\ BuriedIsGone

USE FleetAssumption

\* A state that goes on to one with the same record, machine and reaper keeps
\* what the invariant says of them.
LEMMA Unmoved ==
    ASSUME VMsAccounted, BuriedIsGone,
           UNCHANGED <<rp, del, vm, seen, left>>,
           Registered => Registered'
    PROVE  VMsAccounted' /\ BuriedIsGone'
BY DEF VMsAccounted, BuriedIsGone

\* Every step keeps the types.
LEMMA TypeStep ==
    ASSUME TypeOK, [Next]_vars
    PROVE  TypeOK'
<1>1. ASSUME NEW t \in Conns, NEW n \in Nodes, Dial(t, n) PROVE TypeOK'
  BY <1>1 DEF TypeOK, Dial, At, Phase, rows, machine, history
<1>2. ASSUME NEW n \in Nodes, NEW keep \in BOOLEAN, Delete(n, keep) PROVE TypeOK'
  BY <1>2 DEF TypeOK, Delete, Event, NoRecord, Registered, machine
<1>3. ASSUME NEW t \in Conns, Register(t) PROVE TypeOK'
  BY <1>3, ZenonT(40) DEF TypeOK, Register, At, Goto, Phase, machine
<1>4. ASSUME NEW t \in Conns, Wait(t) PROVE TypeOK'
  <2>1. UNCHANGED <<map, tomb, cl, rp, del, rows, wt, machine, history>>
    BY <1>4 DEF Wait
  <2>2. CASE Goto(t, "clean")
    <3>1. cx' \in [Conns -> [ph : Phase, node : Nodes \cup {None}]] /\ closed' = closed
      BY <2>2 DEF TypeOK, Goto, Phase
    <3> QED  BY <2>1, <3>1 DEF TypeOK, rows, machine, history
  <2>3. CASE End(t)
    <3>1. /\ cx' \in [Conns -> [ph : Phase, node : Nodes \cup {None}]]
          /\ closed' \in SUBSET Conns
      BY <2>3 DEF TypeOK, End, NoConn, Phase
    <3> QED  BY <2>1, <3>1 DEF TypeOK, rows, machine, history
  <2> QED  BY <1>4, <2>2, <2>3 DEF Wait
<1>5. ASSUME NEW t \in Conns, Remove(t) PROVE TypeOK'
  <2>1. map' \in [Nodes -> Conns \cup {None}] /\ own' \in Nodes \cup {None}
    BY <1>5 DEF TypeOK, Remove
  <2>2. cx' \in [Conns -> [ph : Phase, node : Nodes \cup {None}]] /\ closed' = closed
    BY <1>5 DEF TypeOK, Remove, Goto, Phase
  <2> QED
    BY <1>5, <2>1, <2>2 DEF TypeOK, Remove, machine, history
<1>6. ASSUME NEW t \in Conns, SetOffline(t) PROVE TypeOK'
  BY <1>6 DEF TypeOK, SetOffline, At, End, NoConn, Phase, SetState, machine, history
<1>7. ASSUME NEW t \in Conns, Notice(t) PROVE TypeOK'
  BY <1>7 DEF TypeOK, Notice, At, rows, machine, history
<1>8. ASSUME NEW n \in Nodes, Heartbeat(n) PROVE TypeOK'
  BY <1>8 DEF TypeOK, Heartbeat, machine, history
<1>9. ASSUME NEW n \in Nodes, RefreshKeys(n) PROVE TypeOK'
  BY <1>9 DEF TypeOK, RefreshKeys, rows, machine, history
<1>10. ASSUME NEW n \in Nodes, Reclaim(n) PROVE TypeOK'
  BY <1>10 DEF TypeOK, Reclaim, machine, history
<1>11. ASSUME NEW n \in Nodes, Sweep(n) PROVE TypeOK'
  BY <1>11 DEF TypeOK, Sweep, SetState, machine, history
<1>12. ASSUME NEW n \in Nodes, ReapPick(n) PROVE TypeOK'
  BY <1>12 DEF TypeOK, ReapPick, rows, machine, history
<1>13. ASSUME NEW n \in Nodes, TombExpire(n) PROVE TypeOK'
  BY <1>13 DEF TypeOK, TombExpire, rows, machine, history
<1>14. ASSUME NEW n \in Nodes, Crash(n) PROVE TypeOK'
  BY <1>14 DEF TypeOK, Crash, Event, NoConn, NoReap, rows, machine, Phase
<1>15. ASSUME ReapTerminate PROVE TypeOK'
  BY <1>15 DEF TypeOK, ReapTerminate, rows, history
<1>16. ASSUME ReapTerminateFails PROVE TypeOK'
  BY <1>16 DEF TypeOK, ReapTerminateFails, Event, NoReap, rows, machine
<1>17. ASSUME ReapBury PROVE TypeOK'
  BY <1>17, ZenonT(40) DEF TypeOK, ReapBury, NoRecord, NoReap, machine, history
<1>18. ASSUME DeleteVM PROVE TypeOK'
  <2>1. vm' \in {"running", "gone"}
    BY <1>18 DEF TypeOK, DeleteVM
  <2>2. left' \in BOOLEAN
    BY <1>18 DEF TypeOK, DeleteVM
  <2> QED
    BY <1>18, <2>1, <2>2 DEF TypeOK, DeleteVM, rows
<1>19. ASSUME Lost PROVE TypeOK'
  BY <1>19 DEF TypeOK, Lost, rows, machine, history
<1>20. ASSUME OwnerExpire PROVE TypeOK'
  BY <1>20 DEF TypeOK, OwnerExpire, machine, history
<1>21. ASSUME Tick PROVE TypeOK'
  BY <1>21 DEF TypeOK, Tick, machine, history
<1>22. ASSUME Drop PROVE TypeOK'
  BY <1>22 DEF TypeOK, Drop, Event, rows, machine
<1>23. ASSUME WorkerDies PROVE TypeOK'
  <2>1. events' \in Nat
    BY <1>23 DEF TypeOK, WorkerDies, Event
  <2>2. alive' \in BOOLEAN /\ wt' \in Conns \cup {None}
    BY <1>23 DEF WorkerDies
  <2>3. UNCHANGED <<cx, map, tomb, cl, rp, del, own, rec, sb, closed, vm, seen, left>>
    BY <1>23 DEF WorkerDies, rows
  <2> QED
    BY <2>1, <2>2, <2>3 DEF TypeOK
<1>24. CASE UNCHANGED vars
  BY <1>24 DEF TypeOK, vars
<1> QED
  BY <1>1, <1>2, <1>3, <1>4, <1>5, <1>6, <1>7, <1>8, <1>9, <1>10, <1>11,
     <1>12, <1>13, <1>14, <1>15, <1>16, <1>17, <1>18, <1>19, <1>20, <1>21,
     <1>22, <1>23, <1>24
     DEF Next, ConnStep

\* Every step keeps the machines accounted for.
LEMMA AccountStep ==
    ASSUME FleetInv, [Next]_vars
    PROVE  VMsAccounted' /\ BuriedIsGone'
<1> USE DEF FleetInv
<1>1. ASSUME NEW t \in Conns, NEW n \in Nodes, Dial(t, n) PROVE VMsAccounted' /\ BuriedIsGone'
  BY <1>1, Unmoved DEF Dial, Registered, rows, machine, history
<1>2. ASSUME NEW n \in Nodes, NEW keep \in BOOLEAN, Delete(n, keep)
      PROVE  VMsAccounted' /\ BuriedIsGone'
  BY <1>2 DEF Delete, VMsAccounted, BuriedIsGone, TypeOK, machine
<1>3. ASSUME NEW t \in Conns, Register(t) PROVE VMsAccounted' /\ BuriedIsGone'
  BY <1>3 DEF Register, Goto, VMsAccounted, BuriedIsGone, Registered, machine
<1>4. ASSUME NEW t \in Conns, Wait(t) PROVE VMsAccounted' /\ BuriedIsGone'
  BY <1>4, Unmoved DEF Wait, Registered, rows, machine, history
<1>5. ASSUME NEW t \in Conns, Remove(t) PROVE VMsAccounted' /\ BuriedIsGone'
  BY <1>5, Unmoved DEF Remove, Registered, machine, history
<1>6. ASSUME NEW t \in Conns, SetOffline(t) PROVE VMsAccounted' /\ BuriedIsGone'
  BY <1>6, Unmoved DEF SetOffline, Registered, SetState, machine, history, TypeOK
<1>7. ASSUME NEW t \in Conns, Notice(t) PROVE VMsAccounted' /\ BuriedIsGone'
  BY <1>7, Unmoved DEF Notice, Registered, rows, machine, history
<1>8. ASSUME NEW n \in Nodes, Heartbeat(n) PROVE VMsAccounted' /\ BuriedIsGone'
  BY <1>8, Unmoved DEF Heartbeat, Registered, machine, history, TypeOK
<1>9. ASSUME NEW n \in Nodes, RefreshKeys(n) PROVE VMsAccounted' /\ BuriedIsGone'
  BY <1>9, Unmoved DEF RefreshKeys, Registered, rows, machine, history
<1>10. ASSUME NEW n \in Nodes, Reclaim(n) PROVE VMsAccounted' /\ BuriedIsGone'
  BY <1>10, Unmoved DEF Reclaim, Registered, machine, history
<1>11. ASSUME NEW n \in Nodes, Sweep(n) PROVE VMsAccounted' /\ BuriedIsGone'
  BY <1>11, Unmoved DEF Sweep, Registered, SetState, machine, history, TypeOK
<1>12. ASSUME NEW n \in Nodes, ReapPick(n) PROVE VMsAccounted' /\ BuriedIsGone'
  BY <1>12 DEF ReapPick, VMsAccounted, BuriedIsGone, Registered, rows, machine, history
<1>13. ASSUME NEW n \in Nodes, TombExpire(n) PROVE VMsAccounted' /\ BuriedIsGone'
  BY <1>13, Unmoved DEF TombExpire, Registered, rows, machine, history
<1>14. ASSUME NEW n \in Nodes, Crash(n) PROVE VMsAccounted' /\ BuriedIsGone'
  BY <1>14 DEF Crash, NoReap, VMsAccounted, BuriedIsGone, Registered, rows, machine
<1>15. ASSUME ReapTerminate PROVE VMsAccounted' /\ BuriedIsGone'
  BY <1>15 DEF ReapTerminate, VMsAccounted, BuriedIsGone, TypeOK
<1>16. ASSUME ReapTerminateFails PROVE VMsAccounted' /\ BuriedIsGone'
  BY <1>16 DEF ReapTerminateFails, NoReap, VMsAccounted, BuriedIsGone, Registered, rows, machine
<1>17. ASSUME ReapBury PROVE VMsAccounted' /\ BuriedIsGone'
  BY <1>17 DEF ReapBury, NoReap, VMsAccounted, BuriedIsGone, machine
<1>18. ASSUME DeleteVM PROVE VMsAccounted' /\ BuriedIsGone'
  BY <1>18 DEF DeleteVM, VMsAccounted, BuriedIsGone, Registered, rows
<1>19. ASSUME Lost PROVE VMsAccounted' /\ BuriedIsGone'
  BY <1>19, Unmoved DEF Lost, Registered, rows, machine, history
<1>20. ASSUME OwnerExpire PROVE VMsAccounted' /\ BuriedIsGone'
  BY <1>20, Unmoved DEF OwnerExpire, Registered, machine, history
<1>21. ASSUME Tick PROVE VMsAccounted' /\ BuriedIsGone'
  BY <1>21, Unmoved DEF Tick, Registered, machine, history, TypeOK
<1>22. ASSUME Drop PROVE VMsAccounted' /\ BuriedIsGone'
  BY <1>22, Unmoved DEF Drop, Registered, rows, machine
<1>23. ASSUME WorkerDies PROVE VMsAccounted' /\ BuriedIsGone'
  BY <1>23, Unmoved DEF WorkerDies, Registered, rows
<1>24. CASE UNCHANGED vars
  BY <1>24, Unmoved DEF Registered, vars
<1> QED
  BY <1>1, <1>2, <1>3, <1>4, <1>5, <1>6, <1>7, <1>8, <1>9, <1>10, <1>11,
     <1>12, <1>13, <1>14, <1>15, <1>16, <1>17, <1>18, <1>19, <1>20, <1>21,
     <1>22, <1>23, <1>24
     DEF Next, ConnStep

\* The invariant holds in every reachable state.
THEOREM FleetInvHolds == Spec => []FleetInv
<1>1. Init => FleetInv
  <2>1. SUFFICES ASSUME Init PROVE FleetInv
    OBVIOUS
  <2>2. cx \in [Conns -> [ph : Phase, node : Nodes \cup {None}]]
    BY <2>1 DEF Init, Phase, NoConn
  <2>3. TypeOK
    BY <2>1, <2>2 DEF Init, TypeOK, NoReap, NoRecord
  <2>4. VMsAccounted /\ BuriedIsGone
    BY <2>1 DEF Init, VMsAccounted, BuriedIsGone, NoReap
  <2> QED
    BY <2>3, <2>4 DEF FleetInv
<1>2. FleetInv /\ [Next]_vars => FleetInv'
  BY TypeStep, AccountStep DEF FleetInv
<1> QED
  BY <1>1, <1>2, PTL DEF Spec

\* The variables of Fleet have their types, whatever the constants.
THEOREM FleetTypeCorrect == Spec => []TypeOK
<1>1. FleetInv => TypeOK
  BY DEF FleetInv
<1> QED
  BY <1>1, FleetInvHolds, PTL

\* No machine is lost, however many instances sweep, reap, crash and serve
\* DELETEs (reapOfflinePodersOnce, DELETE /api/v1/poders/{id}).
THEOREM VMsAccountedHolds == Spec => []VMsAccounted
<1>1. FleetInv => VMsAccounted
  BY DEF FleetInv
<1> QED
  BY <1>1, FleetInvHolds, PTL
=============================================================================
