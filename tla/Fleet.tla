-------------------------------- MODULE Fleet --------------------------------
(***************************************************************************)
(* How the control plane knows that a worker is there: its tunnels, the    *)
(* owner row that routes requests between instances, its ONLINE or OFFLINE *)
(* record, and the reaper that gives back the machines of workers that are *)
(* gone (pkg/server/main.go, pkg/tunnel, pkg/store/sqldb).                 *)
(*                                                                         *)
(* One worker on a cloud machine, with one sandbox: nothing in this code   *)
(* relates two workers, and a worker elsewhere only loses its record.  The *)
(* sandbox's container runs as long as the worker does (Delivery has       *)
(* containers that stop).  The worker serves on one connection at a time,  *)
(* but an instance may find out late that a connection is gone.            *)
(*                                                                         *)
(* In each instance's memory:                                              *)
(*   cx      the handlers of /ws/poder/connect, by connection: where the   *)
(*           handler stands, and at which instance                         *)
(*   map     tunnelStore: the worker's tunnel, by instance                 *)
(*   tomb    poderTombstones                                               *)
(*   cl      found the tunnel in its store and is about to Claim           *)
(*   rp      the reaper of OFFLINE workers that is at work; at most one is *)
(*   del     the instance where a DELETE of the worker waits for DeleteVM  *)
(* In the database:                                                        *)
(*   own     the worker's row of tunnel_owners                             *)
(*   rec     its row of poders: state, age of last_heartbeat               *)
(*   sb      its row of sandboxes                                          *)
(* Outside:                                                                *)
(*   closed  connections whose session is closed at the instance's end     *)
(*   wt      the connection the worker serves on                           *)
(*   alive   the worker process runs                                       *)
(*   vm      its machine                                                   *)
(* History:                                                                *)
(*   seen    the worker has registered                                     *)
(*   left    a DELETE kept its VM, failed to delete it, or crashed before  *)
(*   events  faults and DELETEs so far, kept under the bound               *)
(***************************************************************************)
EXTENDS Integers

CONSTANTS Conns,      \* connections
          Nodes,      \* control-plane instances
          None,
          Idempotent, \* the cloud's DeleteVM succeeds for a machine that is gone
          MaxEvents   \* bound on crashes, broken tunnels, workers that die, and
                      \* DELETEs of the worker

ASSUME FleetAssumption ==
    /\ None \notin Conns \cup Nodes
    /\ Idempotent \in BOOLEAN
    /\ MaxEvents \in Nat

VARIABLES cx, map, tomb, cl, rp, del, own, rec, sb,
          closed, wt, alive, vm, seen, left, events

rows     == <<own, rec, sb>>
machine  == <<alive, vm>>
history  == <<seen, left, events>>
vars == <<cx, map, tomb, cl, rp, del, own, rec, sb,
          closed, wt, alive, vm, seen, left, events>>

-----------------------------------------------------------------------------
(* Types *)

\* The steps of /ws/poder/connect, in order: let in, in service, and the
\* deferred clean-up.
Phase == {"free", "dialled", "wait", "clean", "removed"}

\* The type invariant.
TypeOK ==
    /\ cx \in [Conns -> [ph : Phase, node : Nodes \cup {None}]]
    /\ map \in [Nodes -> Conns \cup {None}]
    /\ tomb \in [Nodes -> BOOLEAN]
    /\ cl \in [Nodes -> BOOLEAN]
    /\ rp \in [ph : {"idle", "terminate", "bury"}, node : Nodes \cup {None}]
    /\ del \in Nodes \cup {None}
    /\ own \in Nodes \cup {None}
    /\ rec \in [state : {"ABSENT", "ONLINE", "OFFLINE"},
                beat : {"fresh", "late", "dead"}]
    /\ sb \in {"NONE", "RUNNING", "ERROR"}
    /\ closed \subseteq Conns
    /\ wt \in Conns \cup {None}
    /\ vm \in {"running", "gone"}
    /\ alive \in BOOLEAN
    /\ seen \in BOOLEAN /\ left \in BOOLEAN
    /\ events \in Nat

NoConn == [ph |-> "free", node |-> None]
NoReap == [ph |-> "idle", node |-> None]
NoRecord == [state |-> "ABSENT", beat |-> "fresh"]

Registered == rec.state # "ABSENT"

\* The worker was just started, and a sandbox survived its last run.
Init ==
    /\ cx = [t \in Conns |-> NoConn]
    /\ map = [n \in Nodes |-> None]
    /\ tomb = [n \in Nodes |-> FALSE]
    /\ cl = [n \in Nodes |-> FALSE]
    /\ rp = NoReap
    /\ del = None
    /\ own = None
    /\ rec = NoRecord
    /\ sb = "ERROR"
    /\ closed = {}
    /\ wt = None
    /\ alive = TRUE
    /\ vm = "running"
    /\ seen = FALSE /\ left = FALSE /\ events = 0

Event == events < MaxEvents /\ events' = events + 1

-----------------------------------------------------------------------------
(* The handler of /ws/poder/connect *)

Goto(t, ph) == cx' = [cx EXCEPT ![t].ph = ph] /\ UNCHANGED closed
\* The handler returns; only the worker may still hold an end of the session.
End(t) == cx' = [cx EXCEPT ![t] = NoConn] /\ closed' = closed \ ({t} \ {wt})
At(t, ph) == cx[t].ph = ph

\* A worker without a tunnel dials instance n, which lets it in unless its id
\* is in n's tombstones.
Dial(t, n) ==
    /\ alive /\ wt = None
    /\ At(t, "free")
    /\ ~tomb[n]
    /\ cx' = [cx EXCEPT ![t] = [ph |-> "dialled", node |-> n]]
    /\ wt' = t
    /\ closed' = closed \ {t}
    /\ UNCHANGED <<map, tomb, cl, rp, del, rows, machine, history>>

\* poderStore.Register, an upsert that makes the record ONLINE and its heartbeat
\* new; tunnelStore.Add, over whatever tunnel the instance had; Claim.
Register(t) ==
    /\ At(t, "dialled")
    /\ Goto(t, "wait")
    /\ rec' = [state |-> "ONLINE", beat |-> "fresh"]
    /\ map' = [map EXCEPT ![cx[t].node] = t]
    /\ own' = cx[t].node
    /\ seen' = TRUE
    /\ UNCHANGED <<tomb, cl, rp, del, sb, wt, machine, left, events>>

\* Wait returns: the session was closed.  The deferred function looks whether
\* the store still has this tunnel; if not, there is nothing to clean up.
Wait(t) ==
    /\ At(t, "wait")
    /\ t \in closed
    /\ \/ map[cx[t].node] = t /\ Goto(t, "clean")
       \/ map[cx[t].node] # t /\ End(t)
    /\ UNCHANGED <<map, tomb, cl, rp, del, rows, wt, machine, history>>

\* tunnelStore.Remove, by the worker's id, and TunnelOwners.Release, which
\* deletes the row only if it names this instance.
Remove(t) ==
    /\ At(t, "clean")
    /\ Goto(t, "removed")
    /\ map' = [map EXCEPT ![cx[t].node] = None]
    /\ own' = IF own = cx[t].node THEN None ELSE own
    /\ UNCHANGED <<tomb, cl, rp, del, rec, sb, wt, machine, history>>

\* The state of a record that exists.
SetState(s) == rec' = IF Registered THEN [rec EXCEPT !.state = s] ELSE rec

\* poderStore.SetOffline, and sandboxes that were running are marked ERROR.
SetOffline(t) ==
    /\ At(t, "removed")
    /\ End(t)
    /\ SetState("OFFLINE")
    /\ sb' = IF sb = "RUNNING" THEN "ERROR" ELSE sb
    /\ UNCHANGED <<map, tomb, cl, rp, del, own, wt, machine, history>>

ConnStep(t) == Register(t) \/ Wait(t) \/ Remove(t) \/ SetOffline(t)

\* The instance's ping finds that the worker is not at the other end.
Notice(t) ==
    /\ ~At(t, "free")
    /\ t \notin closed /\ wt # t
    /\ closed' = closed \cup {t}
    /\ UNCHANGED <<cx, map, tomb, cl, rp, del, rows, wt, machine, history>>

\* The worker finds that the instance closed its session, or is gone.
Lost ==
    /\ wt \in closed
    /\ wt' = None
    /\ closed' = closed \ {t \in {wt} : At(t, "free")}
    /\ UNCHANGED <<cx, map, tomb, cl, rp, del, rows, machine, history>>

-----------------------------------------------------------------------------
(* Heartbeats and the owner row *)

\* Instance n gets a heartbeat, which lists the sandbox's container.
\* poderStore.Heartbeat refreshes last_heartbeat and leaves the state alone;
\* reconcileByHeartbeat; and a look for the tunnel in the store.  Without a
\* record the answer is 404 and nothing happens.
Heartbeat(n) ==
    /\ alive /\ Registered
    /\ rec' = [rec EXCEPT !.beat = "fresh"]
    /\ sb' = IF sb = "ERROR" THEN "RUNNING" ELSE sb
    /\ cl' = [cl EXCEPT ![n] = @ \/ map[n] # None]
    /\ UNCHANGED <<cx, map, tomb, rp, del, own, closed, wt, machine, history>>

\* The refresher of instance n lists the tunnels in its store.
RefreshKeys(n) ==
    /\ map[n] # None /\ ~cl[n]
    /\ cl' = [cl EXCEPT ![n] = TRUE]
    /\ UNCHANGED <<cx, map, tomb, rp, del, rows, closed, wt, machine, history>>

\* The Claim of a heartbeat handler or of the refresher.
Reclaim(n) ==
    /\ cl[n]
    /\ cl' = [cl EXCEPT ![n] = FALSE]
    /\ own' = n
    /\ UNCHANGED <<cx, map, tomb, rp, del, rec, sb, closed, wt, machine, history>>

\* The row of an instance that has no tunnel to refresh it for expires.
OwnerExpire ==
    /\ own \in Nodes
    /\ map[own] = None /\ ~cl[own]
    /\ own' = None
    /\ UNCHANGED <<cx, map, tomb, cl, rp, del, rec, sb, closed, wt, machine, history>>

-----------------------------------------------------------------------------
(* The sweep, the reaper and the DELETE handler *)

\* TRUE if the store of instance n has a tunnel that is not closed.
TunnelUp(n) == map[n] # None /\ map[n] \notin closed

\* Mutant of Sweep: it never makes a worker ONLINE.
SweepOnlyOffline(n) ==
    /\ ~TunnelUp(n) /\ rec.state = "ONLINE" /\ rec.beat # "fresh" /\ SetState("OFFLINE")
    /\ UNCHANGED <<cx, map, tomb, cl, rp, del, own, sb, closed, wt, machine, history>>

\* sweepBody.  SetOnline and SetOffline leave last_heartbeat alone.
Sweep(n) ==
    /\ \/ TunnelUp(n) /\ rec.state = "OFFLINE" /\ SetState("ONLINE")
       \/ ~TunnelUp(n) /\ rec.state = "ONLINE" /\ rec.beat # "fresh" /\ SetState("OFFLINE")
    /\ UNCHANGED <<cx, map, tomb, cl, rp, del, own, sb, closed, wt, machine, history>>

\* reapOfflinePodersOnce picks the worker: OFFLINE, and no heartbeat for the
\* reaper's timeout.
ReapPick(n) ==
    /\ rp = NoReap
    /\ rec.state = "OFFLINE" /\ rec.beat = "dead"
    /\ rp' = [ph |-> "terminate", node |-> n]
    /\ UNCHANGED <<cx, map, tomb, cl, del, rows, closed, wt, machine, history>>

\* Mutant of ReapTerminate: a machine that is already gone is an error.
ReapTerminateOnce ==
    /\ rp.ph = "terminate"
    /\ vm' = "gone"
    /\ rp' = IF vm = "gone" THEN NoReap ELSE [rp EXCEPT !.ph = "bury"]
    /\ UNCHANGED <<cx, map, tomb, cl, del, rows, closed, wt, alive, history>>

\* The reaper's DeleteVM returns.  No provider looks at what kind of error the
\* cloud answers, so a machine that is gone already may be one for ever.
ReapTerminate ==
    /\ rp.ph = "terminate"
    /\ vm = "running" \/ Idempotent
    /\ vm' = "gone"
    /\ rp' = [rp EXCEPT !.ph = "bury"]
    /\ UNCHANGED <<cx, map, tomb, cl, del, rows, closed, wt, alive, history>>

\* Mutant of ReapTerminateFails: the record is deleted all the same.
ReapTerminateFailsBury ==
    /\ Event
    /\ rp.ph = "terminate"
    /\ rp' = [rp EXCEPT !.ph = "bury"]
    /\ UNCHANGED <<cx, map, tomb, cl, del, rows, closed, wt, machine, seen, left>>

\* Or it fails, and the record stays for the next tick.
ReapTerminateFails ==
    /\ rp.ph = "terminate"
    /\ IF vm = "gone" /\ ~Idempotent THEN UNCHANGED events ELSE Event
    /\ rp' = NoReap
    /\ UNCHANGED <<cx, map, tomb, cl, del, rows, closed, wt, machine, seen, left>>

\* The worker's id goes into the tombstones, then the record is deleted.
ReapBury ==
    /\ rp.ph = "bury"
    /\ tomb' = [tomb EXCEPT ![rp.node] = TRUE]
    /\ rec' = NoRecord
    /\ rp' = NoReap
    /\ UNCHANGED <<cx, map, cl, del, own, sb, closed, wt, machine, history>>

\* DELETE /api/v1/poders/{id}: its sandboxes; the tombstone, unless the VM is
\* kept; Close of the tunnel, if this instance has it; and the record.
Delete(n, keep) ==
    /\ Event
    /\ del = None
    /\ Registered
    /\ sb' = "NONE"
    /\ tomb' = [tomb EXCEPT ![n] = @ \/ ~keep]
    /\ closed' = closed \cup ({map[n]} \ {None})
    /\ rec' = NoRecord
    /\ del' = IF keep THEN None ELSE n
    /\ left' = (left \/ keep)
    /\ UNCHANGED <<cx, map, cl, rp, own, wt, machine, seen>>

\* DeleteVM returns; a failure is only logged.
DeleteVM ==
    /\ del # None
    /\ del' = None
    /\ \/ vm' = "gone" /\ UNCHANGED left
       \/ left' = TRUE /\ UNCHANGED vm
    /\ UNCHANGED <<cx, map, tomb, cl, rp, rows, closed, wt, alive, seen, events>>

-----------------------------------------------------------------------------
(* Time and faults *)

\* Time passes without a heartbeat: 30 seconds, then ten minutes, in which the
\* instance that has the tunnel sweeps.
Tick ==
    /\ Registered
    /\ \/ rec.beat = "fresh" /\ rec' = [rec EXCEPT !.beat = "late"]
       \/ /\ rec.beat = "late" /\ rec' = [rec EXCEPT !.beat = "dead"]
          /\ rec.state = "OFFLINE" => \A n \in Nodes : ~TunnelUp(n)
    /\ UNCHANGED <<cx, map, tomb, cl, rp, del, own, sb, closed, wt, machine, history>>

\* A tombstone is forgotten after ten minutes.
TombExpire(n) ==
    /\ tomb[n]
    /\ tomb' = [tomb EXCEPT ![n] = FALSE]
    /\ UNCHANGED <<cx, map, cl, rp, del, rows, closed, wt, machine, history>>

\* The connection breaks at the worker's end.
Drop ==
    /\ Event
    /\ wt # None
    /\ wt' = None
    /\ UNCHANGED <<cx, map, tomb, cl, rp, del, rows, closed, machine,
                   seen, left>>

\* The worker dies for good; when its VM is gone, it has to.
WorkerDies ==
    /\ alive
    /\ \/ vm = "gone" /\ UNCHANGED events
       \/ vm # "gone" /\ Event
    /\ alive' = FALSE
    /\ wt' = None
    /\ UNCHANGED <<cx, map, tomb, cl, rp, del, rows, closed, vm, seen, left>>

\* Instance n is killed and started again.
Crash(n) ==
    /\ Event
    /\ cx' = [t \in Conns |-> IF cx[t].node = n THEN NoConn ELSE cx[t]]
    /\ closed' = {t \in closed : cx[t].node # n}
                 \cup {t \in {wt} \ {None} : cx[t].node = n}
    /\ map' = [map EXCEPT ![n] = None]
    /\ tomb' = [tomb EXCEPT ![n] = FALSE]
    /\ cl' = [cl EXCEPT ![n] = FALSE]
    /\ rp' = IF rp.node = n THEN NoReap ELSE rp
    /\ del' = IF del = n THEN None ELSE del
    /\ left' = (left \/ del = n)
    /\ UNCHANGED <<rows, wt, machine, seen>>

Next ==
    \/ \E t \in Conns : ConnStep(t) \/ Notice(t) \/ \E n \in Nodes : Dial(t, n)
    \/ \E n \in Nodes :
          \/ Heartbeat(n) \/ RefreshKeys(n) \/ Reclaim(n) \/ Sweep(n) \/ ReapPick(n)
          \/ TombExpire(n) \/ Crash(n)
          \/ \E keep \in BOOLEAN : Delete(n, keep)
    \/ ReapTerminate \/ ReapTerminateFails \/ ReapBury \/ DeleteVM
    \/ Lost \/ OwnerExpire \/ Tick \/ Drop \/ WorkerDies

Spec == Init /\ [][Next]_vars

\* Handlers run, pings and tickers go off, a worker that is alive sends
\* heartbeats, a dead one grows old, and a machine that is gone takes its worker
\* along.
Fairness ==
    /\ \A t \in Conns : WF_vars(ConnStep(t) \/ Notice(t))
    /\ \A n \in Nodes : WF_vars(RefreshKeys(n)) /\ WF_vars(Reclaim(n)) /\ WF_vars(Sweep(n))
    /\ WF_vars(\E n \in Nodes : Heartbeat(n))
    /\ WF_vars(\/ \E n \in Nodes : ReapPick(n)
               \/ ReapTerminate \/ ReapTerminateFails \/ ReapBury)
    /\ WF_vars(DeleteVM)
    /\ WF_vars(Tick /\ ~alive)
    /\ WF_vars(WorkerDies /\ vm = "gone")
FairSpec == Spec /\ Fairness

-----------------------------------------------------------------------------
(* Properties *)

\* The worker is served through instance n: n's store has the tunnel the worker
\* is on, open at both ends.
Serving(n) == TunnelUp(n) /\ map[n] = wt

\* No machine is lost: the VM of a worker that registered has a record by which
\* the reaper finds it, unless a DELETE is terminating it, was told to keep it,
\* failed to terminate it or crashed before.  The record may go away while the
\* worker reconnects, at another instance, with a clean-up of its old tunnel and
\* the reaper under way (reapOfflinePodersOnce, DELETE /api/v1/poders/{id}).
VMsAccounted ==
    seen /\ vm = "running" /\ ~Registered => del # None \/ left

\* The control plane ends up knowing the truth.  If from some time on the worker
\* is served through instance n and its heartbeats arrive, then whatever the late
\* clean-ups, stale claims and sweeps of other instances wrote, the owner row
\* ends up naming n, the worker ONLINE and its sandbox not ERROR (sweepBody, the
\* refresher, reconcileByHeartbeat).
Settles ==
    \A n \in Nodes :
        <>[](Serving(n) /\ Registered /\ rec.beat = "fresh")
            => <>[](own = n /\ rec.state = "ONLINE" /\ sb # "ERROR")

\* A worker that dies is cleaned up after, for good: its record goes away, ghosts
\* that register late too, and its VM with it, except one a DELETE left behind
\* (cleanupOfflinePoders, reapOfflinePoders).  This asks of the cloud that it is
\* Idempotent.
DeadWorkersGoAway ==
    <>[](~alive) => <>[](~Registered /\ (seen /\ vm = "running" => left))
=============================================================================
