------------------------------- MODULE Sidecar -------------------------------
(***************************************************************************)
(* What a worker builds around a sandbox with an egress policy             *)
(* (pkg/poder/egress.go, docker.go): an internal network, a sidecar with   *)
(* the proxy in it and, once that listens, the sandbox's container.        *)
(* Docker keeps all three when the worker dies; the worker's own notes do  *)
(* not survive, and a new worker sweeps in the background what was left.   *)
(*                                                                         *)
(* State: whether the worker runs in a container; per pod the network,     *)
(* whether the worker joined it, the sidecar and the container; the        *)
(* worker's notes; creates and deletes on their way; the names given out;  *)
(* the sweep.                                                              *)
(* History: the pods the worker died on in the middle of a create or a     *)
(* delete, and the ones that may have lost the sidecar: being created when *)
(* the sweep met them, or deleted in vain.                                 *)
(***************************************************************************)
EXTENDS Integers, FiniteSets

CONSTANTS Pods,
          MaxErrors   \* bound on docker errors and deaths of the worker

VARIABLES inside, net, joined, side, box, noted, op, used, sweep, todo, errors, cut, bare

vars == <<inside, net, joined, side, box, noted, op, used, sweep, todo, errors, cut, bare>>

Docker == <<inside, net, joined, side, box>>
Hist   == <<inside, used, cut, bare>>

Error == errors < MaxErrors /\ errors' = errors + 1

Set(f, p, v) == [f EXCEPT ![p] = v]
To(p, pc)    == op' = [op EXCEPT ![p] = pc]

\* Docker removes a network only when nothing is on it.
NetworkRemove(p, self, s, b) == IF self \/ s # "none" \/ b # "none" THEN net[p] ELSE FALSE

-----------------------------------------------------------------------------
(* setupEgress *)

NetworkCreate(p) ==
    /\ op[p] = "new"
    /\ \/ net' = Set(net, p, TRUE) /\ To(p, "sidecar") /\ UNCHANGED errors
       \/ Error /\ To(p, "idle") /\ UNCHANGED net
    /\ UNCHANGED <<joined, side, box, noted, sweep, todo, Hist>>

SidecarCreate(p) ==
    /\ op[p] = "sidecar"
    /\ \/ side' = Set(side, p, "made") /\ To(p, "connect") /\ UNCHANGED <<net, errors>>
       \/ /\ Error /\ To(p, "idle") /\ UNCHANGED side
          /\ net' = Set(net, p, NetworkRemove(p, joined[p], side[p], box[p]))
    /\ UNCHANGED <<joined, box, noted, sweep, todo, Hist>>

\* What every later failure does: the sidecar goes, then the network.
Undo(p) ==
    /\ side' = Set(side, p, "none")
    /\ net' = Set(net, p, NetworkRemove(p, joined[p], "none", box[p]))
    /\ To(p, "idle")

\* Attached outside, started: neither works on a sidecar that was swept away.
SidecarStart(p) ==
    /\ op[p] \in {"connect", "start"}
    /\ \/ /\ side[p] = "made"
          /\ To(p, IF op[p] = "connect" THEN "start" ELSE "ready")
          /\ side' = Set(side, p, IF op[p] = "connect" THEN "made" ELSE "up")
          /\ UNCHANGED <<net, errors>>
       \/ side[p] = "made" /\ Error /\ Undo(p)
       \/ side[p] = "none" /\ Undo(p) /\ UNCHANGED errors
    /\ UNCHANGED <<joined, box, noted, sweep, todo, Hist>>

WaitForEgressReady(p) ==
    /\ op[p] = "ready"
    /\ \/ side[p] = "up" /\ To(p, "join") /\ UNCHANGED <<side, net, errors>>
       \/ side[p] = "up" /\ Error /\ Undo(p)
       \/ side[p] = "none" /\ Undo(p) /\ UNCHANGED errors
    /\ UNCHANGED <<joined, box, noted, sweep, todo, Hist>>

AttachSelfToNetwork(p) ==
    /\ op[p] = "join"
    /\ \/ /\ inside => net[p]
          /\ joined' = Set(joined, p, inside)
          /\ noted' = Set(noted, p, TRUE)
          /\ To(p, "create") /\ UNCHANGED <<side, net, errors>>
       \/ inside /\ Error /\ Undo(p) /\ UNCHANGED <<joined, noted>>
       \/ inside /\ ~net[p] /\ Undo(p) /\ UNCHANGED <<joined, noted, errors>>
    /\ UNCHANGED <<box, sweep, todo, Hist>>

-----------------------------------------------------------------------------
(* The container, and taking everything away again *)

\* Mutant of EgressCleanupTargets: the notes alone.
EgressCleanupNoted(p) == noted[p]

\* By the worker's notes, or by name when it has none.
EgressCleanupTargets(p) == p \in Pods

\* The sidecar, the worker's own end, the network; b is what is left of the
\* container.
TeardownEgress(p, b) ==
    /\ noted' = Set(noted, p, FALSE)
    /\ IF EgressCleanupTargets(p)
       THEN /\ side' = Set(side, p, "none")
            /\ joined' = Set(joined, p, FALSE)
            /\ net' = Set(net, p, NetworkRemove(p, FALSE, "none", b))
       ELSE UNCHANGED <<side, joined, net>>
    /\ To(p, "idle")

\* Created on the internal network, which must be there, and started; what
\* fails takes the container away first and the rest after it.
CreatePod(p) ==
    /\ op[p] \in {"create", "run"}
    /\ \/ /\ net[p]
          /\ box' = Set(box, p, IF op[p] = "create" THEN "made" ELSE "up")
          /\ To(p, IF op[p] = "create" THEN "run" ELSE "idle")
          /\ UNCHANGED <<net, joined, side, noted, errors>>
       \/ Error /\ box' = Set(box, p, "none") /\ TeardownEgress(p, "none")
       \/ ~net[p] /\ box' = Set(box, p, "none") /\ TeardownEgress(p, "none") /\ UNCHANGED errors
    /\ UNCHANGED <<sweep, todo, Hist>>

\* A container that cannot be removed keeps its network; the sidecar goes.
DeletePod(p) ==
    /\ op[p] = "delete"
    /\ \/ box' = Set(box, p, "none") /\ TeardownEgress(p, "none") /\ UNCHANGED errors
       \/ Error /\ UNCHANGED box /\ TeardownEgress(p, box[p])
    /\ bare' = IF box'[p] = "none" THEN bare ELSE bare \cup {p}
    /\ UNCHANGED <<inside, used, sweep, todo, cut>>

\* Half a delete, for a worker that dies in it.
DeleteBegins(p) ==
    /\ op[p] = "delete" /\ box[p] # "none"
    /\ box' = Set(box, p, "none")
    /\ UNCHANGED <<net, joined, side, noted, op, sweep, todo, errors, Hist>>

\* A create gets a name of its own.
Request(p) ==
    /\ op[p] = "idle"
    /\ \/ p \notin used /\ To(p, "new")
       \/ box[p] # "none" /\ To(p, "delete")
    /\ used' = used \cup {p}
    /\ UNCHANGED <<Docker, noted, sweep, todo, errors, cut, bare>>

-----------------------------------------------------------------------------
(* Death, and the sweep of the next worker *)

Dies ==
    /\ Error
    /\ noted' = [p \in Pods |-> FALSE]
    /\ op' = [p \in Pods |-> "idle"]
    /\ sweep' = "list" /\ todo' = {}
    /\ cut' = cut \cup {p \in Pods : op[p] # "idle"}
    /\ UNCHANGED <<Docker, used, bare>>

\* The sidecars are the list; a network without one is not on it.
SweepList ==
    /\ sweep = "list"
    /\ sweep' = "look" /\ todo' = {p \in Pods : side[p] # "none"}
    /\ UNCHANGED <<Docker, noted, op, errors, Hist>>

\* A sidecar whose pod has no container is not in use.
SweepInspect(p) ==
    /\ sweep = "look" /\ p \in todo
    /\ todo' = todo \ {p}
    /\ sweep' = IF box[p] = "none" THEN p ELSE "look"
    /\ bare' = IF op[p] = "idle" THEN bare ELSE bare \cup {p}
    /\ UNCHANGED <<inside, net, joined, side, box, noted, op, used, errors, cut>>

\* The worker's own end of the network is not taken off.
SweepOrphanedEgress(p) ==
    /\ sweep = p
    /\ sweep' = "look"
    /\ side' = Set(side, p, "none")
    /\ net' = Set(net, p, NetworkRemove(p, joined[p], "none", box[p]))
    /\ UNCHANGED <<joined, box, noted, op, todo, errors, Hist>>

SweepEnds ==
    /\ sweep = "look" /\ todo = {}
    /\ sweep' = "done"
    /\ UNCHANGED <<Docker, noted, op, todo, errors, Hist>>

Init ==
    /\ inside \in BOOLEAN
    /\ net = [p \in Pods |-> FALSE] /\ joined = [p \in Pods |-> FALSE]
    /\ side = [p \in Pods |-> "none"] /\ box = [p \in Pods |-> "none"]
    /\ noted = [p \in Pods |-> FALSE] /\ op = [p \in Pods |-> "idle"]
    /\ sweep = "list" /\ todo = {} /\ errors = 0 /\ used = {} /\ cut = {} /\ bare = {}

Worker(p) ==
    \/ NetworkCreate(p) \/ SidecarCreate(p) \/ SidecarStart(p) \/ WaitForEgressReady(p)
    \/ AttachSelfToNetwork(p) \/ CreatePod(p) \/ DeletePod(p)

Sweep == SweepList \/ SweepEnds \/ \E p \in Pods : SweepInspect(p) \/ SweepOrphanedEgress(p)

Next == (\E p \in Pods : Worker(p) \/ Request(p) \/ DeleteBegins(p)) \/ Dies \/ Sweep

Spec == Init /\ [][Next]_vars

-----------------------------------------------------------------------------
(* Properties *)

\* Once nothing is on its way, a sandbox that runs has its sidecar, unless the
\* sweep met it while it was being created or a delete of it failed; and a
\* sandbox that is gone has left nothing, unless the worker died on it or the
\* sweep met it, which may cost the network and never, after the sweep, the
\* sidecar.
EgressObjects ==
    \A p \in Pods : op[p] = "idle" /\ sweep = "done" =>
       /\ box[p] = "none" => side[p] = "none" /\ (net[p] => p \in cut)
       /\ box[p] = "up" => net[p] /\ (side[p] = "up" \/ p \in bare)
=============================================================================
