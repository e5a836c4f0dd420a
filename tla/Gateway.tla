------------------------------- MODULE Gateway -------------------------------
(***************************************************************************)
(* Requests about one sandbox, on their way from a client to the sandbox's *)
(* container: the native API (pkg/server/main.go), the E2B gateway         *)
(* (pkg/e2bcompat, pkg/server/e2bgateway.go) and the worker that answers   *)
(* them (cmd/poder, pkg/poder/docker.go).                                  *)
(*                                                                         *)
(* Several servers share the table of sandboxes.  The worker's tunnel ends *)
(* at one of them; a shared table says at which, and may be out of date.   *)
(*                                                                         *)
(* State: the sandbox's record and its container; where the tunnel is and  *)
(* where the table says it is; the requests, and what the worker is doing  *)
(* for each (it goes on when the asker has left); the heartbeat.           *)
(***************************************************************************)
EXTENDS Integers, FiniteSets

CONSTANTS Nodes, Nowhere,
          Others,     \* another container of the worker is running
          MaxCalls,   \* bound on requests
          MaxFaults   \* bound on breaks, crashes, docker errors, clients that leave

ASSUME GatewayAssumption ==
    Nowhere \notin Nodes /\ Others \in BOOLEAN /\ MaxCalls \in Nat /\ MaxFaults \in Nat

VARIABLES rec, ctr, tun, owner, req, work, hb, calls, faults

Reqs == 1..MaxCalls

vars == <<rec, ctr, tun, owner, req, work, hb, calls, faults>>

-----------------------------------------------------------------------------
(* What can be asked.  The worker answers about a container with docker's   *)
(* help ("about"), or passes the request into it.                           *)

About                 == [into |-> FALSE, deadline |-> TRUE, open |-> FALSE]
Into(deadline, open)  == [into |-> TRUE, deadline |-> deadline, open |-> open]

\* Does the worker give up on a container that does not answer, and may what
\* it passes on stay open as long as the client likes?  A container that is
\* not found, or has no address, is not waited for.
WorkerLogs    == About
WorkerExecute == Into(TRUE, FALSE)
WorkerStream  == Into(FALSE, TRUE)
WorkerSession == Into(TRUE, FALSE)
WorkerToolbox == Into(FALSE, TRUE)
WorkerPty     == Into(TRUE, TRUE)   \* gives up on creating the terminal

Ask(face, op, way) == [face |-> face, op |-> op, way |-> way]

Execute  == Ask("native", "use", WorkerExecute)
Stream   == Ask("native", "use", WorkerStream)
Session  == Ask("native", "use", WorkerSession)
Toolbox  == Ask("native", "use", WorkerToolbox)
Mcp      == Ask("native", "use", WorkerToolbox)
Pty      == Ask("native", "use", WorkerPty)
Logs     == Ask("native", "use", WorkerLogs)
Snapshot == Ask("native", "use", About)
Start    == Ask("native", "start", About)
Stop     == Ask("native", "stop", About)

\* Under /api/v1/poders/{id}/sandboxes.
AdminOps == {Ask("admin", op, About) : op \in {"start", "stop", "delete"}}

\* E2B: a call into the toolbox has two minutes, a stream as long as it takes.
ToolboxDo     == Ask("e2b", "use", Into(TRUE, FALSE))
ToolboxStream == Ask("e2b", "use", WorkerToolbox)
PortProxy     == Ask("e2b", "use", WorkerToolbox)
ControlPlane  == {Ask("e2b", op, About) : op \in {"start", "stop", "kill"}}

Asks == {Execute, Stream, Session, Toolbox, Mcp, Pty, Logs, Snapshot, Start, Stop,
         ToolboxDo, ToolboxStream, PortProxy}
        \cup AdminOps \cup ControlPlane

Ends(a) == a.way.deadline /\ ~a.way.open

-----------------------------------------------------------------------------

NoReq == [ask |-> Execute, pc |-> "idle", node |-> Nowhere, hop |-> FALSE, lost |-> FALSE]

Is(r, face, op) == req[r].ask.face = face /\ req[r].ask.op = op

To(r, pc)  == req' = [req EXCEPT ![r].pc = pc]
Done(r)    == req' = [req EXCEPT ![r] = NoReq]

Fault == faults < MaxFaults /\ faults' = faults + 1

\* Updates of a record that is gone do nothing.
Update(s) == rec' = IF rec = "none" THEN "none" ELSE s

\* Requests are numbered as they come.
Arrive(r) ==
    /\ r = calls + 1
    /\ \E a \in Asks, n \in Nodes :
          req' = [req EXCEPT ![r] = [NoReq EXCEPT !.ask = a, !.pc = "route", !.node = n]]
    /\ calls' = calls + 1
    /\ UNCHANGED <<rec, ctr, tun, owner, work, hb, faults>>

-----------------------------------------------------------------------------
(* Finding the tunnel *)

Local(r) == tun = req[r].node

\* Another server has it, says the table; a request is passed on once.
Peer(r) == ~Local(r) /\ ~req[r].hop /\ owner \notin {Nowhere, req[r].node}

ForwardToNode(r) ==
    /\ req[r].pc = "route" /\ req[r].ask.face # "admin"
    /\ req[r].ask.face = "e2b" => req[r].ask.op = "use"
    /\ rec # "none" /\ Peer(r)
    /\ req' = [req EXCEPT ![r].node = owner, ![r].hop = TRUE]
    /\ UNCHANGED <<rec, ctr, tun, owner, work, hb, calls, faults>>

\* The request goes through the tunnel; the worker takes it up.
Call(r) ==
    /\ req' = [req EXCEPT ![r].pc = "wait", ![r].hop = FALSE]
    /\ work' = [work EXCEPT ![r] = IF req[r].ask.op = "kill" THEN "delete" ELSE req[r].ask.op]

Refuse(r) == Done(r) /\ UNCHANGED work

\* For what goes into the container the record must say RUNNING.
SandboxTunnel(r) == Local(r) /\ (req[r].ask.way.into => rec = "RUNNING")

\* Start and stop write the record before they call.
NativeRoute(r) ==
    /\ req[r].pc = "route" /\ req[r].ask.face = "native"
    /\ rec = "none" \/ ~Peer(r)
    /\ IF rec = "none" \/ ~SandboxTunnel(r) THEN Refuse(r)
       ELSE IF req[r].ask.op = "use" THEN Call(r)
       ELSE req' = [req EXCEPT ![r].pc = "mark", ![r].hop = FALSE] /\ UNCHANGED work
    /\ UNCHANGED <<rec, ctr, tun, owner, hb, calls, faults>>

\* "start" and "stop": STARTING, STOPPING.
MarkRecord(r) ==
    /\ req[r].pc = "mark"
    /\ Update(IF req[r].ask.op = "start" THEN "STARTING" ELSE "STOPPING")
    /\ IF req[r].lost THEN To(r, "failed") /\ UNCHANGED work ELSE Call(r)
    /\ UNCHANGED <<ctr, tun, owner, hb, calls, faults>>

AdminRoute(r) ==
    /\ req[r].pc = "route" /\ req[r].ask.face = "admin"
    /\ IF Local(r) /\ rec # "none" THEN Call(r) ELSE Refuse(r)
    /\ UNCHANGED <<rec, ctr, tun, owner, hb, calls, faults>>

\* Into the container; the record is looked at before the tunnel.
ToolboxTarget(r) ==
    /\ req[r].pc = "route" /\ Is(r, "e2b", "use")
    /\ rec = "none" \/ ~Peer(r)
    /\ IF rec = "RUNNING" /\ Local(r) THEN Call(r) ELSE Refuse(r)
    /\ UNCHANGED <<rec, ctr, tun, owner, hb, calls, faults>>

\* Pause and resume (and connect, which falls back to reading the record):
\* served where they arrive, with the tunnel or not at all.
PoderPodAction(r) ==
    /\ req[r].pc = "route" /\ \E op \in {"start", "stop"} : Is(r, "e2b", op)
    /\ IF rec # "none" /\ Local(r) THEN Call(r) ELSE Refuse(r)
    /\ UNCHANGED <<rec, ctr, tun, owner, hb, calls, faults>>

\* The record goes first, wherever the tunnel is.
KillSandbox(r) ==
    /\ req[r].pc = "route" /\ Is(r, "e2b", "kill")
    /\ rec' = "none"
    /\ IF rec # "none" /\ Local(r) THEN Call(r) ELSE Refuse(r)
    /\ UNCHANGED <<ctr, tun, owner, hb, calls, faults>>

-----------------------------------------------------------------------------
(* Calls that end without an answer *)

\* What the worker does inside a container ends with the call.
Dropped(r) == work' = [work EXCEPT ![r] = IF @ = "use" THEN "none" ELSE @]

Failed(r) == IF req[r].ask.op = "use" THEN Done(r) ELSE To(r, "failed")

\* The tunnel broke under the call.
LostReply(r) ==
    /\ req[r].pc = "wait" /\ req[r].lost
    /\ Failed(r) /\ Dropped(r)
    /\ UNCHANGED <<rec, ctr, tun, owner, hb, calls, faults>>

\* A client that leaves ends its call; of E2B's, only the streams notice.
ClientLeaves(r) ==
    /\ req[r].pc = "wait" /\ Fault
    /\ req[r].ask.face = "e2b" => ~Ends(req[r].ask)
    /\ Failed(r) /\ Dropped(r)
    /\ UNCHANGED <<rec, ctr, tun, owner, hb, calls>>

-----------------------------------------------------------------------------
(* The worker *)

\* The answer reaches whoever still waits for it.
Answer(r, pc) ==
    /\ work' = [work EXCEPT ![r] = "none"]
    /\ IF req[r].pc # "wait" \/ req[r].lost THEN UNCHANGED req
       ELSE IF req[r].ask.op = "use" THEN Done(r)
       ELSE To(r, pc)

FindPodByName == ctr # "none"

\* A container that ended is not started again: unpausing it fails, or it is
\* waited for in vain.
StartPod(r) ==
    /\ work[r] = "start"
    /\ \/ /\ ctr \in {"paused", "running"}
          /\ ctr' = "running"
          /\ work' = [work EXCEPT ![r] = "started"]
          /\ UNCHANGED <<req, faults>>
       \/ /\ ~FindPodByName \/ ctr = "exited"
          /\ Answer(r, "failed") /\ UNCHANGED <<ctr, faults>>
       \/ /\ ctr = "paused" /\ Fault
          /\ Answer(r, "failed") /\ UNCHANGED ctr
    /\ UNCHANGED <<rec, tun, owner, hb, calls>>

WaitUntilRunning(r) ==
    /\ work[r] = "started" /\ ctr = "running"
    /\ Answer(r, "ok")
    /\ UNCHANGED <<rec, ctr, tun, owner, hb, calls, faults>>

\* Mutant of WaitTimeout: waits as long as it takes.
WaitTimeoutNever(r) == work[r] = "started" /\ FALSE

WaitTimeout(r) ==
    /\ work[r] = "started" /\ ctr # "running"
    /\ Answer(r, "failed")
    /\ UNCHANGED <<rec, ctr, tun, owner, hb, calls, faults>>

PausePod(r) ==
    /\ work[r] = "stop"
    /\ \/ /\ ctr = "running"
          /\ ctr' = "paused"
          /\ Answer(r, "ok") /\ UNCHANGED faults
       \/ /\ ctr # "running"
          /\ Answer(r, "failed") /\ UNCHANGED <<ctr, faults>>
       \/ /\ ctr = "running" /\ Fault
          /\ Answer(r, "failed") /\ UNCHANGED ctr
    /\ UNCHANGED <<rec, tun, owner, hb, calls>>

DeletePod(r) ==
    /\ work[r] = "delete"
    /\ ctr' = "none"
    /\ Answer(r, IF FindPodByName THEN "ok" ELSE "failed")
    /\ UNCHANGED <<rec, tun, owner, hb, calls, faults>>

\* Into the container: a paused one does not answer.  About it: docker does.
ProxyToolbox(r) ==
    /\ work[r] = "use"
    /\ req[r].ask.way.into => ctr # "paused"
    /\ Answer(r, IF ctr = "running" \/ (~req[r].ask.way.into /\ FindPodByName)
                 THEN "ok" ELSE "failed")
    /\ UNCHANGED <<rec, ctr, tun, owner, hb, calls, faults>>

ProxyTimeout(r) ==
    /\ work[r] = "use" /\ req[r].ask.way.into /\ req[r].ask.way.deadline /\ ctr = "paused"
    /\ Answer(r, "failed")
    /\ UNCHANGED <<rec, ctr, tun, owner, hb, calls, faults>>

-----------------------------------------------------------------------------
(* The end of the request *)

Reached(r) == req[r].pc \in {"ok", "failed"}

NativeEnds(r) ==
    /\ Reached(r) /\ req[r].ask.face = "native"
    /\ Update(IF req[r].pc = "failed" THEN "ERROR"
              ELSE IF req[r].ask.op = "start" THEN "RUNNING"
              ELSE "STOPPED")
    /\ Done(r)
    /\ UNCHANGED <<ctr, tun, owner, work, hb, calls, faults>>

\* The answer is passed on and not looked at, except a delete's.
AdminEnds(r) ==
    /\ Reached(r) /\ req[r].ask.face = "admin"
    /\ CASE req[r].ask.op = "start" -> Update("RUNNING")
         [] req[r].ask.op = "stop"  -> Update("STOPPED")
         [] OTHER -> rec' = IF req[r].pc = "ok" THEN "none" ELSE rec
    /\ Done(r)
    /\ UNCHANGED <<ctr, tun, owner, work, hb, calls, faults>>

E2BEnds(r) ==
    /\ Reached(r) /\ req[r].ask.face = "e2b"
    /\ IF req[r].pc = "failed" \/ req[r].ask.op = "kill" THEN UNCHANGED rec
       ELSE Update(IF req[r].ask.op = "start" THEN "RUNNING" ELSE "STOPPED")
    /\ Done(r)
    /\ UNCHANGED <<ctr, tun, owner, work, hb, calls, faults>>

-----------------------------------------------------------------------------
(* Tunnel, servers and heartbeats *)

Connect ==
    /\ tun = Nowhere
    /\ \E n \in Nodes : tun' = n /\ owner' = n
    /\ UNCHANGED <<rec, ctr, req, work, hb, calls, faults>>

OnTunnel(n) == [r \in Reqs |->
    IF req[r].node = n /\ req[r].pc \in {"mark", "wait"}
    THEN [req[r] EXCEPT !.lost = TRUE] ELSE req[r]]

\* The server notices: the worker's sandboxes are in ERROR until it is back.
\* What the worker has not begun may be lost with the tunnel.
Disconnect ==
    /\ tun # Nowhere /\ Fault
    /\ req' = OnTunnel(tun)
    /\ tun' = Nowhere
    /\ owner' = IF owner = tun THEN Nowhere ELSE owner
    /\ rec' = IF rec \in {"RUNNING", "STARTING"} THEN "ERROR" ELSE rec
    /\ \E gone \in SUBSET {r \in Reqs : work[r] \notin {"none", "started"}} :
          work' = [r \in Reqs |-> IF r \in gone THEN "none" ELSE work[r]]
    /\ UNCHANGED <<ctr, hb, calls>>

\* A server dies: its requests are gone, its row in the table stays a while.
Crash(n) ==
    /\ Fault
    /\ req' = [r \in Reqs |-> IF req[r].node = n THEN NoReq ELSE req[r]]
    /\ work' = [r \in Reqs |-> IF req[r].node = n /\ work[r] = "use" THEN "none" ELSE work[r]]
    /\ tun' = IF tun = n THEN Nowhere ELSE tun
    /\ UNCHANGED <<rec, ctr, owner, hb, calls>>

OwnerExpires ==
    /\ owner \notin {Nowhere, tun}
    /\ owner' = Nowhere
    /\ UNCHANGED <<rec, ctr, tun, req, work, hb, calls, faults>>

ContainerExits ==
    /\ ctr = "running" /\ Fault
    /\ ctr' = "exited"
    /\ UNCHANGED <<rec, tun, owner, req, work, hb, calls>>

\* Mutant of ListRunningSandboxNames: every container, paused ones too.
ListAllSandboxNames == IF ctr # "none" THEN "up" ELSE "down"

ListRunningSandboxNames == IF ctr = "running" THEN "up" ELSE "down"

\* A list without a name in it is left out of the message, and a message
\* without a list changes nothing.
HeartbeatList ==
    /\ hb = "none"
    /\ Others \/ ListRunningSandboxNames = "up"
    /\ hb' = ListRunningSandboxNames
    /\ UNCHANGED <<rec, ctr, tun, owner, req, work, calls, faults>>

\* The record is read, and written later, whatever it says by then.
ReconcileReads ==
    /\ hb \in {"up", "down"}
    /\ hb' = CASE hb = "down" /\ rec \in {"RUNNING", "STARTING"} -> "ERROR"
               [] hb = "up" /\ rec = "ERROR" -> "RUNNING"
               [] OTHER -> "none"
    /\ UNCHANGED <<rec, ctr, tun, owner, req, work, calls, faults>>

ReconcileWrites ==
    /\ hb \in {"ERROR", "RUNNING"}
    /\ Update(hb) /\ hb' = "none"
    /\ UNCHANGED <<ctr, tun, owner, req, work, calls, faults>>

-----------------------------------------------------------------------------

Init ==
    /\ rec = "RUNNING" /\ ctr = "running"
    /\ tun = (CHOOSE n \in Nodes : TRUE) /\ owner = tun
    /\ req = [r \in Reqs |-> NoReq] /\ work = [r \in Reqs |-> "none"]
    /\ hb = "none" /\ calls = 0 /\ faults = 0

Server(r) ==
    \/ ForwardToNode(r) \/ NativeRoute(r) \/ AdminRoute(r) \/ ToolboxTarget(r)
    \/ PoderPodAction(r) \/ KillSandbox(r) \/ MarkRecord(r) \/ LostReply(r)
    \/ NativeEnds(r) \/ AdminEnds(r) \/ E2BEnds(r)

Worker(r) ==
    \/ StartPod(r) \/ WaitUntilRunning(r) \/ WaitTimeout(r) \/ PausePod(r)
    \/ DeletePod(r) \/ ProxyToolbox(r) \/ ProxyTimeout(r)

Heartbeat == HeartbeatList \/ ReconcileReads \/ ReconcileWrites

Next ==
    \/ \E r \in Reqs : Arrive(r) \/ Server(r) \/ Worker(r) \/ ClientLeaves(r)
    \/ Connect \/ Disconnect \/ (\E n \in Nodes : Crash(n)) \/ OwnerExpires
    \/ ContainerExits \/ Heartbeat

\* Handlers and the worker go on, deadlines pass, heartbeats come; nobody has
\* to ask, to leave or to fail.
Fairness ==
    /\ WF_vars(\E r \in Reqs : Server(r) \/ Worker(r))
    /\ WF_vars(Heartbeat)

Spec == Init /\ [][Next]_vars /\ Fairness

-----------------------------------------------------------------------------
(* Properties *)

\* Whatever starts, stops, breaks and late effects there were, a record does
\* not go on saying RUNNING of a container that is not, nor ERROR of one that
\* is: the heartbeats repair it.
Settles ==
    <>[](/\ rec = "RUNNING" => ctr = "running"
         /\ rec = "ERROR" => ctr # "running")

\* The comment at the heartbeat's handler, "empty list is valid and means all
\* containers are gone": a record does not go on saying RUNNING of a container
\* that is gone.
GoneIsNoticed == <>[](rec = "RUNNING" => ctr = "running")

\* A request ends, whichever server it came to and whatever it met there,
\* unless it is an open stream into a container.
Answered == \A r \in Reqs : (req[r].pc # "idle" /\ Ends(req[r].ask)) ~> (req[r].pc = "idle")
=============================================================================
