------------------------------ MODULE Delivery ------------------------------
(***************************************************************************)
(* Durable delivery of sandbox creates in the control plane                *)
(* (pkg/server/create.go, resume.go, provision.go, the delete and idle-reap *)
(* paths of main.go and reclaim.go, and the worker side of a create in      *)
(* cmd/poder and pkg/poder).  Several control-plane instances share one SQL *)
(* database; a worker ("poder") is reached through the tunnel it opened to  *)
(* one of them.                                                             *)
(*                                                                         *)
(* One action is one database write, or one message sent or answered: the  *)
(* instances interleave between those.                                     *)
(*                                                                         *)
(* Shared database:                                                        *)
(*   job      the jobs table: status, PoderID and whether Request is set    *)
(*   stale    jobs whose UpdatedAt is at least ResumeStaleAfter ago         *)
(*   old      jobs whose CreatedAt is more than resumeMaxAge ago            *)
(*   current  for each job, the resumers whose copy of UpdatedAt is still   *)
(*            the row's: what the compare-and-swap of ClaimJob tests        *)
(*   sb       the sandboxes table: state and PoderID, by name              *)
(*   owner    the tunnel_owners table                                      *)
(* Control-plane processes (lost in a crash):                              *)
(*   cf       the create flow of each job (handler and runSandboxCreate)   *)
(*   rs       the resumer of each instance                                 *)
(*   del      the delete handler (or idle reaper) working on a name        *)
(*   up       the running instances                                        *)
(* Workers and the network:                                                *)
(*   tunnel   the instance each worker's tunnel ends at                    *)
(*   call     POST /sandboxes requests in flight, both ends                *)
(*   cnt      containers labelled with each sandbox name, per worker       *)
(*   hb       a heartbeat on its way, with the names it listed             *)
(*   spent    faults, deletes and heartbeats so far, kept under the bounds *)
(* History:                                                                *)
(*   made       names a worker has ever made a container for               *)
(*   overlapped names two deliveries were ever in flight for at once       *)
(*   doom       "busy"/"quiet" for a job whose sandbox was deleted after it *)
(*              was accepted, while something was / nothing was working on  *)
(*              the job                                                     *)
(***************************************************************************)
EXTENDS Naturals, FiniteSets

CONSTANTS Jobs,          \* job ids; each is one accepted create request
          Names,         \* sandbox names
          Nodes,         \* control-plane instances
          Poders,        \* workers
          Calls,         \* slots for create requests in flight to workers
          None,          \* "no such thing": an empty id
          Prompt,        \* TRUE: a flow is never suspended for as long as
                         \* ResumeStaleAfter between two consecutive writes
          MaxFaults,     \* bound on crashes and tunnel drops
          MaxDeletes,    \* bound on deletes and idle reaps
          MaxBeats,      \* bound on heartbeats that carry a container list
          MaxContainers  \* bound on containers of one name on one worker

ASSUME DeliveryAssumption ==
    /\ None \notin Names \cup Nodes \cup Poders \cup Calls
    /\ Prompt \in BOOLEAN
    /\ MaxFaults \in Nat /\ MaxDeletes \in Nat /\ MaxBeats \in Nat
    /\ MaxContainers \in Nat \ {0}

VARIABLES job, stale, old, current, sb, owner, cf, rs, del, up, tunnel, call,
          cnt, hb, spent, made, overlapped, doom

dbVars   == <<job, stale, old, current>>
histVars == <<made, overlapped, doom>>
envVars  == <<owner, up, tunnel, spent>>
vars == <<job, stale, old, current, sb, owner, cf, rs, del, up, tunnel, call,
          cnt, hb, spent, made, overlapped, doom>>

-----------------------------------------------------------------------------
(* Types *)

JobStatus == {"ABSENT", "PENDING", "IN_PROGRESS", "COMPLETED", "FAILED"}
Terminal  == {"COMPLETED", "FAILED"}
SbState   == {"ABSENT", "PENDING", "RUNNING", "ERROR"}

JobRow == [status : JobStatus, poder : Poders \cup {None}, req : BOOLEAN]
SbRow  == [state : SbState, poder : Poders \cup {None}]

\* Where a create flow stands: the next thing it will do.
CreatePhase == {"idle",      \* no request yet
                "row",       \* async: job row written, sandbox record next
                "sched",     \* in Admit / ScheduleSandboxCreation
                "placed",    \* job bookkeeping done, record upsert next
                "recorded",  \* record upserted, intent next
                "intent",    \* payload committed, delivery next
                "push",      \* waiting for the worker's answer
                "peer",      \* waiting for the peer that pushes the request
                "failsb",    \* failBoth: job failed, record next
                "belt",      \* async wrapper: PENDING record to ERROR next
                "done",      \* returned
                "dead"}      \* lost with its process
CreateFlow == [ph : CreatePhase, name : Names \cup {None}, async : BOOLEAN,
               node : Nodes \cup {None}, poder : Poders \cup {None},
               call : Calls \cup {None}]

ResumePhase == {"idle", "read", "norec", "claimed", "push", "peer", "finish"}
Resumer == [ph : ResumePhase, job : Jobs \cup {None}, req : BOOLEAN,
            poder : Poders \cup {None}, call : Calls \cup {None}]

\* w is the worker's side of a request, s the side of the instance that sent
\* it down the tunnel; from is the instance whose flow asked for it, via the
\* one that holds the tunnel.
Call == [w : {"free", "sent", "cleared", "created", "error"},
         s : {"wait", "acked", "gone"},
         kind : {"create", "resume"}, job : Jobs \cup {None},
         poder : Poders \cup {None}, from : Nodes \cup {None},
         via : Nodes \cup {None}]

Deleter == [ph : {"idle", "record", "container"}, node : Nodes \cup {None},
            poder : Poders \cup {None}]

Beat  == [sent : BOOLEAN, names : SUBSET Names]
Spent == [faults : Nat, deletes : Nat, beats : Nat]
Containers == [Poders -> [Names -> Nat]]

NoJob     == [status |-> "ABSENT", poder |-> None, req |-> FALSE]
NoSandbox == [state |-> "ABSENT", poder |-> None]
NoFlow    == [ph |-> "idle", name |-> None, async |-> FALSE, node |-> None,
              poder |-> None, call |-> None]
NoResume  == [ph |-> "idle", job |-> None, req |-> FALSE, poder |-> None,
              call |-> None]
NoCall    == [w |-> "free", s |-> "gone", kind |-> "create", job |-> None,
              poder |-> None, from |-> None, via |-> None]
NoDelete  == [ph |-> "idle", node |-> None, poder |-> None]

\* The type invariant of the tables, the processes and the messages.
TypeOK ==
    /\ job \in [Jobs -> JobRow]
    /\ stale \subseteq Jobs
    /\ old \subseteq Jobs
    /\ current \in [Jobs -> SUBSET Nodes]
    /\ sb \in [Names -> SbRow]
    /\ owner \in [Poders -> Nodes \cup {None}]
    /\ cf \in [Jobs -> CreateFlow]
    /\ rs \in [Nodes -> Resumer]
    /\ del \in [Names -> Deleter]
    /\ up \subseteq Nodes
    /\ tunnel \in [Poders -> Nodes \cup {None}]
    /\ call \in [Calls -> Call]
    /\ cnt \in Containers
    /\ hb \in [Poders -> Beat]
    /\ spent \in Spent
    /\ made \subseteq Names
    /\ overlapped \subseteq Names
    /\ doom \in [Jobs -> {"no", "busy", "quiet"}]

Init ==
    /\ job = [j \in Jobs |-> NoJob]
    /\ stale = {}
    /\ old = {}
    /\ current = [j \in Jobs |-> {}]
    /\ sb = [s \in Names |-> NoSandbox]
    /\ owner = [p \in Poders |-> None]
    /\ cf = [j \in Jobs |-> NoFlow]
    /\ rs = [n \in Nodes |-> NoResume]
    /\ del = [s \in Names |-> NoDelete]
    /\ up = Nodes
    /\ tunnel = [p \in Poders |-> None]
    /\ call = [c \in Calls |-> NoCall]
    /\ cnt = [p \in Poders |-> [s \in Names |-> 0]]
    /\ hb = [p \in Poders |-> [sent |-> FALSE, names |-> {}]]
    /\ spent = [faults |-> 0, deletes |-> 0, beats |-> 0]
    /\ made = {}
    /\ overlapped = {}
    /\ doom = [j \in Jobs |-> "no"]

-----------------------------------------------------------------------------
(* Database helpers *)

NameOf(j) == cf[j].name

\* AddJob and UpdateJob: every write of a row moves its UpdatedAt, which makes
\* it fresh again and outdates the copies the resumers hold.
WriteJob(j, row) ==
    /\ job' = [job EXCEPT ![j] = row]
    /\ stale' = stale \ {j}
    /\ current' = [current EXCEPT ![j] = {}]
    /\ UNCHANGED old

\* UpdateJob(id, status := st), leaving the other columns alone.
SetStatus(j, st) == WriteJob(j, [job[j] EXCEPT !.status = st])

\* sandboxStore.Update(name, state := st): nothing to update when the record
\* is gone.
SetState(s, st) ==
    sb' = [sb EXCEPT ![s] = IF sb[s].state = "ABSENT" THEN sb[s]
                            ELSE [sb[s] EXCEPT !.state = st]]

\* Update that only turns a PENDING record into ERROR.
PendingToError(s) ==
    sb' = [sb EXCEPT ![s] = IF sb[s].state = "PENDING"
                            THEN [sb[s] EXCEPT !.state = "ERROR"] ELSE sb[s]]

\* Where create flow j goes next; only one that waits has a call.
Goto(j, ph) == cf' = [cf EXCEPT ![j].ph = ph, ![j].call = None]

-----------------------------------------------------------------------------
(* The create flow of a job *)

\* POST /sandboxes without async: the name is free at the time of the check;
\* everything else happens inside runSandboxCreate.
AcceptSync(j, n, s) ==
    /\ cf[j].ph = "idle" /\ n \in up
    /\ sb[s].state = "ABSENT"
    /\ cf' = [cf EXCEPT ![j] = [NoFlow EXCEPT !.ph = "sched", !.name = s,
                                              !.node = n]]
    /\ UNCHANGED <<dbVars, sb, rs, del, call, cnt, hb, envVars, histVars>>

\* POST /sandboxes with async: the job row is written with its payload and no
\* worker yet.
AcceptAsync(j, n, s) ==
    /\ cf[j].ph = "idle" /\ n \in up
    /\ sb[s].state = "ABSENT"
    /\ cf' = [cf EXCEPT ![j] = [NoFlow EXCEPT !.ph = "row", !.name = s,
                                              !.node = n, !.async = TRUE]]
    /\ WriteJob(j, [status |-> "PENDING", poder |-> None, req |-> TRUE])
    /\ UNCHANGED <<sb, rs, del, call, cnt, hb, envVars, histVars>>

\* The async handler's sandboxStore.Add: a name taken meanwhile is a 409, and
\* the job row stays as it is.
AddRecord(j) ==
    /\ cf[j].ph = "row"
    /\ IF sb[NameOf(j)].state = "ABSENT"
         THEN /\ sb' = [sb EXCEPT ![NameOf(j)] =
                            [state |-> "PENDING", poder |-> None]]
              /\ Goto(j, "sched")
         ELSE Goto(j, "done") /\ UNCHANGED sb
    /\ UNCHANGED <<dbVars, rs, del, call, cnt, hb, envVars, histVars>>

\* Region check, admission or scheduling refuses: failBoth with the job id the
\* async path has and the sync path has not.
Refuse(j) ==
    /\ cf[j].ph = "sched"
    /\ IF cf[j].async THEN SetStatus(j, "FAILED") ELSE UNCHANGED dbVars
    /\ Goto(j, "failsb")
    /\ UNCHANGED <<sb, rs, del, call, cnt, hb, envVars, histVars>>

\* ScheduleSandboxCreation returns worker p; the sync path adds the scheduler's
\* job row (no payload), the async path moves its row to IN_PROGRESS.
Place(j, p) ==
    /\ cf[j].ph = "sched"
    /\ IF cf[j].async
         THEN WriteJob(j, [status |-> "IN_PROGRESS", poder |-> p, req |-> job[j].req])
         ELSE WriteJob(j, [status |-> "PENDING", poder |-> p, req |-> FALSE])
    /\ cf' = [cf EXCEPT ![j].ph = "placed", ![j].poder = p]
    /\ UNCHANGED <<sb, rs, del, call, cnt, hb, envVars, histVars>>

\* Upsert of the record: an existing one keeps its state, a missing one is
\* added PENDING, whoever removed it.
Upsert(j) ==
    /\ cf[j].ph = "placed"
    /\ sb' = [sb EXCEPT ![NameOf(j)] =
                IF sb[NameOf(j)].state = "ABSENT"
                  THEN [state |-> "PENDING", poder |-> cf[j].poder]
                  ELSE [sb[NameOf(j)] EXCEPT !.poder = cf[j].poder]]
    /\ Goto(j, "recorded")
    /\ UNCHANGED <<dbVars, rs, del, call, cnt, hb, envVars, histVars>>

\* Bug: only the status and the worker are written.
RecordIntentNoPayload(j) ==
    /\ cf[j].ph = "recorded"
    /\ WriteJob(j, [status |-> "PENDING", poder |-> cf[j].poder, req |-> job[j].req])
    /\ Goto(j, "intent")
    /\ UNCHANGED <<sb, rs, del, call, cnt, hb, envVars, histVars>>

\* Step 3a: the payload is committed before any delivery is attempted.
RecordIntent(j) ==
    /\ cf[j].ph = "recorded"
    /\ WriteJob(j, [status |-> "PENDING", poder |-> cf[j].poder, req |-> TRUE])
    /\ Goto(j, "intent")
    /\ UNCHANGED <<sb, rs, del, call, cnt, hb, envVars, histVars>>

-----------------------------------------------------------------------------
(* Delivery: a POST /sandboxes down a tunnel, here or on the peer that has it *)

Active(c) == call[c].w # "free"

\* Another request for the same name is being served by the same worker.
Rival(c, p, s) == \E d \in Calls \ {c} :
    call[d].w \in {"sent", "cleared"} /\ call[d].poder = p
        /\ NameOf(call[d].job) = s

\* pushCreateToPoder on node via, for the flow of kind on node from.
Send(c, kind, j, p, from, via) ==
    /\ ~Active(c)
    /\ call' = [call EXCEPT ![c] =
                  [w |-> "sent", s |-> "wait", kind |-> kind, job |-> j,
                   poder |-> p, from |-> from, via |-> via]]
    /\ overlapped' = IF Rival(c, p, NameOf(j)) THEN overlapped \cup {NameOf(j)}
                     ELSE overlapped

\* wantsPeerDelivery: the tunnel is claimed by another instance.
Peer(n, p) == owner[p] \notin {None, n}

\* The peer is up and still has the tunnel; otherwise it answers 409, or
\* nobody answers.
PeerAccepts(p) == owner[p] \in up /\ tunnel[p] = owner[p]

\* Step 4: deliver through a tunnel held here.
Deliver(j, c) ==
    LET n == cf[j].node  p == cf[j].poder IN
    /\ cf[j].ph = "intent" /\ tunnel[p] = n
    /\ Send(c, "create", j, p, n, n)
    /\ cf' = [cf EXCEPT ![j].ph = "push", ![j].call = c]
    /\ UNCHANGED <<dbVars, sb, rs, del, cnt, hb, envVars, made, doom>>

\* Step 3b: hand the delivery to the instance that claims the tunnel.
DeliverToPeer(j, c) ==
    LET n == cf[j].node  p == cf[j].poder IN
    /\ cf[j].ph = "intent" /\ tunnel[p] # n
    /\ Peer(n, p) /\ PeerAccepts(p)
    /\ Send(c, "create", j, p, n, owner[p])
    /\ cf' = [cf EXCEPT ![j].ph = "peer", ![j].call = c]
    /\ UNCHANGED <<dbVars, sb, rs, del, cnt, hb, envVars, made, doom>>

\* The peer did not accept: failBoth.
PeerRefused(j) ==
    LET n == cf[j].node  p == cf[j].poder IN
    /\ cf[j].ph = "intent"
    /\ tunnel[p] # n /\ Peer(n, p) /\ ~PeerAccepts(p)
    /\ SetStatus(j, "FAILED")
    /\ Goto(j, "failsb")
    /\ UNCHANGED <<sb, rs, del, call, cnt, hb, envVars, histVars>>

\* No tunnel here and nobody claims it: the job fails, and only the async
\* wrapper looks at the record.
NoTunnel(j) ==
    LET n == cf[j].node  p == cf[j].poder IN
    /\ cf[j].ph = "intent"
    /\ tunnel[p] # n /\ ~Peer(n, p)
    /\ SetStatus(j, "FAILED")
    /\ Goto(j, IF cf[j].async THEN "belt" ELSE "done")
    /\ UNCHANGED <<sb, rs, del, call, cnt, hb, envVars, histVars>>

\* The second half of failBoth: the record, whatever its state, is in ERROR.
FailRecord(j) ==
    /\ cf[j].ph = "failsb"
    /\ SetState(NameOf(j), "ERROR")
    /\ Goto(j, "done")
    /\ UNCHANGED <<dbVars, rs, del, call, cnt, hb, envVars, histVars>>

\* The async wrapper after an error: a PENDING record goes to ERROR.
Belt(j) ==
    /\ cf[j].ph = "belt"
    /\ PendingToError(NameOf(j))
    /\ Goto(j, "done")
    /\ UNCHANGED <<dbVars, rs, del, call, cnt, hb, envVars, histVars>>

-----------------------------------------------------------------------------
(* The worker: CreatePod behind POST /sandboxes *)

\* Bug: the existing container is left in place.
WorkerReplaceKeeps(c) ==
    /\ call[c].w = "sent"
    /\ call' = [call EXCEPT ![c].w = "cleared"]
    /\ UNCHANGED <<dbVars, sb, cf, rs, del, cnt, hb, envVars, histVars>>

\* CreatePod removes the container that already has the sandbox's label.  A
\* rival request may have found the same container: its removal then fails and
\* is only logged.
WorkerReplace(c) ==
    LET p == call[c].poder  s == NameOf(call[c].job) IN
    /\ call[c].w = "sent"
    /\ call' = [call EXCEPT ![c].w = "cleared"]
    /\ \/ cnt' = [cnt EXCEPT ![p][s] = IF @ = 0 THEN 0 ELSE @ - 1]
       \/ Rival(c, p, s) /\ UNCHANGED cnt
    /\ UNCHANGED <<dbVars, sb, cf, rs, del, hb, envVars, histVars>>

\* The container is created and started, and the worker answers 201 to whoever
\* still listens: the handler runs on the process context, not the request's.
WorkerCreate(c) ==
    LET p == call[c].poder  s == NameOf(call[c].job) IN
    /\ call[c].w = "cleared"
    /\ cnt[p][s] < MaxContainers
    /\ cnt' = [cnt EXCEPT ![p][s] = @ + 1]
    /\ made' = made \cup {s}
    /\ call' = [call EXCEPT ![c] = IF call[c].s = "gone" THEN NoCall
                                   ELSE [call[c] EXCEPT !.w = "created"]]
    /\ UNCHANGED <<dbVars, sb, cf, rs, del, hb, envVars, overlapped, doom>>

\* Image, network or daemon error: CreatePod undoes what it did, answers 500.
WorkerError(c) ==
    /\ call[c].w \in {"sent", "cleared"}
    /\ call' = [call EXCEPT ![c] = IF call[c].s = "gone" THEN NoCall
                                   ELSE [call[c] EXCEPT !.w = "error"]]
    /\ UNCHANGED <<dbVars, sb, cf, rs, del, cnt, hb, envVars, histVars>>

-----------------------------------------------------------------------------
(* The answer, at the instance that holds the tunnel *)

\* The flow that asked for the request is still waiting for its outcome.
CreateWaits(c) == /\ call[c].kind = "create"
                  /\ cf[call[c].job].ph \in {"push", "peer"}
                  /\ cf[call[c].job].call = c
ResumeWaits(c) == /\ call[c].kind = "resume"
                  /\ rs[call[c].from].ph \in {"push", "peer"}
                  /\ rs[call[c].from].call = c

\* Bug: the status code of the answer is not looked at.
AckJobAnyAnswer(c) ==
    /\ call[c].w \in {"created", "error"} /\ call[c].s = "wait"
    /\ SetStatus(call[c].job, "COMPLETED")
    /\ call' = [call EXCEPT ![c].s = "acked"]
    /\ UNCHANGED <<sb, cf, rs, del, cnt, hb, envVars, histVars>>

\* 201: the job is COMPLETED first ...
AckJob(c) ==
    /\ call[c].w = "created" /\ call[c].s = "wait"
    /\ SetStatus(call[c].job, "COMPLETED")
    /\ call' = [call EXCEPT ![c].s = "acked"]
    /\ UNCHANGED <<sb, cf, rs, del, cnt, hb, envVars, histVars>>

\* ... and the record RUNNING second; then the flow that waits is told.
AckRecord(c) ==
    LET j == call[c].job IN
    /\ call[c].w = "created" /\ call[c].s = "acked"
    /\ SetState(NameOf(j), "RUNNING")
    /\ call' = [call EXCEPT ![c] = NoCall]
    /\ cf' = IF CreateWaits(c)
               THEN [cf EXCEPT ![j].ph = "done", ![j].call = None] ELSE cf
    /\ rs' = IF ResumeWaits(c)
               THEN [rs EXCEPT ![call[c].from].ph = "finish",
                               ![call[c].from].call = None] ELSE rs
    /\ UNCHANGED <<dbVars, del, cnt, hb, envVars, histVars>>

\* What the flow of call c does when its delivery failed: a create runs
\* failBoth; a resumer fails the job when it pushed the request itself, and
\* leaves it PENDING when a peer did.
CallerFails(c) ==
    LET j == call[c].job  n == call[c].from IN
    /\ IF CreateWaits(c) \/ (ResumeWaits(c) /\ rs[n].ph = "push")
         THEN SetStatus(j, "FAILED") ELSE UNCHANGED dbVars
    /\ cf' = IF CreateWaits(c)
               THEN [cf EXCEPT ![j].ph = "failsb", ![j].call = None] ELSE cf
    /\ rs' = IF ResumeWaits(c) THEN [rs EXCEPT ![n] = NoResume] ELSE rs

\* An error answer, a broken tunnel or the 5-minute budget: pushCreateToPoder
\* gives up.  A request the worker already has runs on; one it never got, or
\* one it has answered, is gone.
PushFail(c) ==
    /\ Active(c) /\ call[c].s = "wait"
    /\ \/ call' = [call EXCEPT ![c].s = "gone"] /\ call[c].w \in {"sent", "cleared"}
       \/ call' = [call EXCEPT ![c] = NoCall] /\ call[c].w # "cleared"
    /\ CallerFails(c)
    /\ UNCHANGED <<sb, del, cnt, hb, envVars, histVars>>

\* The peer dies, or the 2-minute budget for its answer ends first; whatever
\* the peer is doing goes on.
PeerTimeout(j) ==
    /\ cf[j].ph = "peer"
    /\ SetStatus(j, "FAILED")
    /\ Goto(j, "failsb")
    /\ UNCHANGED <<sb, rs, del, call, cnt, hb, envVars, histVars>>

-----------------------------------------------------------------------------
(* The resumer of instance n *)

\* A pass lists the jobs; one that is PENDING and stale is looked at.  The copy
\* the pass works from is the row as it was listed.
ResumeList(n, j) ==
    /\ rs[n].ph = "idle" /\ n \in up
    /\ job[j].status = "PENDING" /\ j \in stale
    /\ rs' = [rs EXCEPT ![n] = [ph |-> "read", job |-> j, req |-> job[j].req,
                                poder |-> job[j].poder, call |-> None]]
    /\ current' = [current EXCEPT ![j] = @ \cup {n}]
    /\ UNCHANGED <<job, stale, old, sb, cf, del, call, cnt, hb, envVars, histVars>>

\* No payload on the row: the job fails, then its PENDING record.
ResumeNoPayload(n) ==
    /\ rs[n].ph = "read" /\ ~rs[n].req
    /\ SetStatus(rs[n].job, "FAILED")
    /\ rs' = [rs EXCEPT ![n].ph = "norec"]
    /\ UNCHANGED <<sb, cf, del, call, cnt, hb, envVars, histVars>>

ResumeNoPayloadRecord(n) ==
    /\ rs[n].ph = "norec"
    /\ PendingToError(NameOf(rs[n].job))
    /\ rs' = [rs EXCEPT ![n] = NoResume]
    /\ UNCHANGED <<dbVars, cf, del, call, cnt, hb, envVars, histVars>>

\* Past resumeMaxAge the job fails; the record is not looked at.
ResumeTooOld(n) ==
    /\ rs[n].ph = "read" /\ rs[n].req /\ rs[n].job \in old
    /\ SetStatus(rs[n].job, "FAILED")
    /\ rs' = [rs EXCEPT ![n] = NoResume]
    /\ UNCHANGED <<sb, cf, del, call, cnt, hb, envVars, histVars>>

\* The record decides: RUNNING completes the job, ERROR fails it.
ResumeSettle(n) ==
    LET st == sb[NameOf(rs[n].job)].state IN
    /\ rs[n].ph = "read" /\ rs[n].req /\ rs[n].job \notin old
    /\ st \in {"RUNNING", "ERROR"}
    /\ SetStatus(rs[n].job, IF st = "RUNNING" THEN "COMPLETED" ELSE "FAILED")
    /\ rs' = [rs EXCEPT ![n] = NoResume]
    /\ UNCHANGED <<sb, cf, del, call, cnt, hb, envVars, histVars>>

\* Bug: the claim does not compare updated_at.
ResumeClaimNoCAS(n) ==
    LET j == rs[n].job IN
    /\ rs[n].ph = "read" /\ rs[n].req /\ j \notin old
    /\ sb[NameOf(j)].state \in {"ABSENT", "PENDING"}
    /\ rs' = [rs EXCEPT ![n].ph = "claimed"]
    /\ stale' = stale \ {j}
    /\ current' = [current EXCEPT ![j] = {}]
    /\ UNCHANGED <<job, old, sb, cf, del, call, cnt, hb, envVars, histVars>>

\* ClaimJob: the row's UpdatedAt moves only if it is the one that was listed.
\* The status is not part of the test.
ResumeClaim(n) ==
    LET j == rs[n].job IN
    /\ rs[n].ph = "read" /\ rs[n].req /\ j \notin old
    /\ sb[NameOf(j)].state \in {"ABSENT", "PENDING"}
    /\ n \in current[j]
    /\ rs' = [rs EXCEPT ![n].ph = "claimed"]
    /\ stale' = stale \ {j}
    /\ current' = [current EXCEPT ![j] = {}]
    /\ UNCHANGED <<job, old, sb, cf, del, call, cnt, hb, envVars, histVars>>

\* Somebody wrote the row since: on to the next job.
ResumeSkip(n) ==
    LET j == rs[n].job IN
    /\ rs[n].ph = "read" /\ rs[n].req /\ j \notin old
    /\ sb[NameOf(j)].state \in {"ABSENT", "PENDING"}
    /\ n \notin current[j]
    /\ rs' = [rs EXCEPT ![n] = NoResume]
    /\ UNCHANGED <<dbVars, sb, cf, del, call, cnt, hb, envVars, histVars>>

\* deliverCreate with a tunnel here.
ResumeDeliver(n, c) ==
    LET p == rs[n].poder IN
    /\ rs[n].ph = "claimed" /\ p # None /\ tunnel[p] = n
    /\ Send(c, "resume", rs[n].job, p, n, n)
    /\ rs' = [rs EXCEPT ![n].ph = "push", ![n].call = c]
    /\ UNCHANGED <<dbVars, sb, cf, del, cnt, hb, envVars, made, doom>>

\* deliverCreate through the peer that claims the tunnel.
ResumeDeliverToPeer(n, c) ==
    LET p == rs[n].poder IN
    /\ rs[n].ph = "claimed" /\ p # None /\ tunnel[p] # n
    /\ Peer(n, p) /\ PeerAccepts(p)
    /\ Send(c, "resume", rs[n].job, p, n, owner[p])
    /\ rs' = [rs EXCEPT ![n].ph = "peer", ![n].call = c]
    /\ UNCHANGED <<dbVars, sb, cf, del, cnt, hb, envVars, made, doom>>

\* The peer refused, died or took too long: an error, and the job stays PENDING
\* for a later pass.
ResumePeerFails(n) ==
    LET p == rs[n].poder IN
    /\ \/ rs[n].ph = "peer"
       \/ /\ rs[n].ph = "claimed" /\ p # None /\ tunnel[p] # n
          /\ Peer(n, p) /\ ~PeerAccepts(p)
    /\ rs' = [rs EXCEPT ![n] = NoResume]
    /\ UNCHANGED <<dbVars, sb, cf, del, call, cnt, hb, envVars, histVars>>

\* errNoWorker: no tunnel anywhere, or no worker was ever chosen.
ResumeNoWorker(n) ==
    LET p == rs[n].poder IN
    /\ rs[n].ph = "claimed"
    /\ p # None => (tunnel[p] # n /\ ~Peer(n, p))
    /\ SetStatus(rs[n].job, "FAILED")
    /\ rs' = [rs EXCEPT ![n] = NoResume]
    /\ UNCHANGED <<sb, cf, del, call, cnt, hb, envVars, histVars>>

\* The delivery succeeded: the job is COMPLETED (again).
ResumeFinish(n) ==
    /\ rs[n].ph = "finish"
    /\ SetStatus(rs[n].job, "COMPLETED")
    /\ rs' = [rs EXCEPT ![n] = NoResume]
    /\ UNCHANGED <<sb, cf, del, call, cnt, hb, envVars, histVars>>

-----------------------------------------------------------------------------
(* Deleting a sandbox *)

\* No process is working on job j: its create flow has returned or died, no
\* request for it is in flight, no resumer has claimed it, and no lost flow
\* left it IN_PROGRESS.
Delivering == {"claimed", "push", "peer", "finish"}
Unattended(j) ==
    /\ cf[j].ph \in {"done", "dead"} /\ job[j].status # "IN_PROGRESS"
    /\ \A c \in Calls : Active(c) => call[c].job # j
    /\ \A n \in Nodes : rs[n].ph \in Delivering => rs[n].job # j

\* Bug: the pending jobs of the name are left alone.
DeleteKeepsJobs(s, n) ==
    LET mine == {} IN
    /\ del[s].ph = "idle" /\ n \in up
    /\ spent.deletes < MaxDeletes
    /\ spent' = [spent EXCEPT !.deletes = @ + 1]
    /\ sb[s].state # "ABSENT"
    /\ job' = [j \in Jobs |-> IF j \in mine
                                THEN [job[j] EXCEPT !.status = "FAILED"]
                                ELSE job[j]]
    /\ stale' = stale \ mine
    /\ current' = [j \in Jobs |-> IF j \in mine THEN {} ELSE current[j]]
    /\ del' = [del EXCEPT ![s] = [ph |-> "record", node |-> n,
                                  poder |-> sb[s].poder]]
    /\ doom' = [j \in Jobs |->
                  IF NameOf(j) # s THEN doom[j]
                  ELSE IF Unattended(j) THEN "quiet" ELSE "busy"]
    /\ UNCHANGED <<old, sb, cf, rs, call, cnt, hb, owner, up, tunnel, made,
                   overlapped>>

\* DELETE /sandboxes/{name}: failJobsFor fails the PENDING jobs of the name.
DeleteFailJobs(s, n) ==
    LET mine == {j \in Jobs : NameOf(j) = s /\ job[j].status = "PENDING"} IN
    /\ del[s].ph = "idle" /\ n \in up
    /\ spent.deletes < MaxDeletes
    /\ spent' = [spent EXCEPT !.deletes = @ + 1]
    /\ sb[s].state # "ABSENT"
    /\ job' = [j \in Jobs |-> IF j \in mine
                                THEN [job[j] EXCEPT !.status = "FAILED"]
                                ELSE job[j]]
    /\ stale' = stale \ mine
    /\ current' = [j \in Jobs |-> IF j \in mine THEN {} ELSE current[j]]
    /\ del' = [del EXCEPT ![s] = [ph |-> "record", node |-> n,
                                  poder |-> sb[s].poder]]
    /\ doom' = [j \in Jobs |->
                  IF NameOf(j) # s THEN doom[j]
                  ELSE IF Unattended(j) THEN "quiet" ELSE "busy"]
    /\ UNCHANGED <<old, sb, cf, rs, call, cnt, hb, owner, up, tunnel, made,
                   overlapped>>

\* ... the record goes ...
DeleteRecord(s) ==
    /\ del[s].ph = "record"
    /\ sb' = [sb EXCEPT ![s] = NoSandbox]
    /\ del' = [del EXCEPT ![s].ph = "container"]
    /\ UNCHANGED <<dbVars, cf, rs, call, cnt, hb, envVars, histVars>>

\* ... and the container, when this very instance has the worker's tunnel.
DeleteContainer(s) ==
    LET p == del[s].poder IN
    /\ del[s].ph = "container"
    /\ cnt' = IF p # None /\ tunnel[p] = del[s].node /\ cnt[p][s] > 0
                THEN [cnt EXCEPT ![p][s] = @ - 1] ELSE cnt
    /\ del' = [del EXCEPT ![s] = NoDelete]
    /\ UNCHANGED <<dbVars, sb, cf, rs, call, hb, envVars, histVars>>

\* The idle reaper: teardownSandbox of a settled record past its TTL.  It does
\* not look at the jobs.
IdleReap(s, n) ==
    /\ del[s].ph = "idle" /\ n \in up
    /\ spent.deletes < MaxDeletes
    /\ spent' = [spent EXCEPT !.deletes = @ + 1]
    /\ sb[s].state \in {"RUNNING", "ERROR"}
    /\ sb' = [sb EXCEPT ![s] = NoSandbox]
    /\ del' = [del EXCEPT ![s] = [ph |-> "container", node |-> n,
                                  poder |-> sb[s].poder]]
    /\ UNCHANGED <<dbVars, cf, rs, call, cnt, hb, owner, up, tunnel, histVars>>

-----------------------------------------------------------------------------
(* Time, workers coming and going, and crashes *)

\* ResumeStaleAfter passes without a write to the row.
Age(j) ==
    /\ job[j].status = "PENDING" /\ j \notin stale
    /\ Prompt => cf[j].ph \in {"sched", "push", "peer", "done", "dead"}
    /\ stale' = stale \cup {j}
    /\ UNCHANGED <<job, old, current, sb, cf, rs, del, call, cnt, hb, envVars,
                   histVars>>

\* resumeMaxAge passes since the row was created.
Expire(j) ==
    /\ job[j].status \in {"PENDING", "IN_PROGRESS"} /\ j \notin old
    /\ Prompt => cf[j].ph \in {"done", "dead"}
    /\ old' = old \cup {j}
    /\ UNCHANGED <<job, stale, current, sb, cf, rs, del, call, cnt, hb, envVars,
                   histVars>>

\* A worker dials an instance, which claims its tunnel.
Connect(p, n) ==
    /\ tunnel[p] = None /\ n \in up
    /\ tunnel' = [tunnel EXCEPT ![p] = n]
    /\ owner' = [owner EXCEPT ![p] = n]
    /\ UNCHANGED <<dbVars, sb, cf, rs, del, up, call, cnt, hb, spent, histVars>>

\* A tunnel drops: the deferred cleanup of /ws/poder/connect releases the claim
\* and puts the worker's RUNNING sandboxes in ERROR.
Disconnect(p) ==
    /\ tunnel[p] # None /\ spent.faults < MaxFaults
    /\ spent' = [spent EXCEPT !.faults = @ + 1]
    /\ tunnel' = [tunnel EXCEPT ![p] = None]
    /\ owner' = [owner EXCEPT ![p] = IF @ = tunnel[p] THEN None ELSE @]
    /\ sb' = [s \in Names |-> IF sb[s].poder = p /\ sb[s].state = "RUNNING"
                                THEN [sb[s] EXCEPT !.state = "ERROR"] ELSE sb[s]]
    /\ UNCHANGED <<dbVars, cf, rs, del, up, call, cnt, hb, histVars>>

\* A claim that is no longer refreshed ages out (ownerTTL).
OwnerExpire(p) ==
    /\ owner[p] # None /\ tunnel[p] # owner[p]
    /\ owner' = [owner EXCEPT ![p] = None]
    /\ UNCHANGED <<dbVars, sb, cf, rs, del, up, tunnel, call, cnt, hb, spent,
                   histVars>>

\* A worker lists its running containers for a heartbeat ...
HeartbeatList(p) ==
    /\ ~hb[p].sent /\ spent.beats < MaxBeats
    /\ spent' = [spent EXCEPT !.beats = @ + 1]
    /\ hb' = [hb EXCEPT ![p] = [sent |-> TRUE,
                                names |-> {s \in Names : cnt[p][s] > 0}]]
    /\ UNCHANGED <<dbVars, sb, cf, rs, del, call, cnt, owner, up, tunnel, histVars>>

\* ... and reconcileByHeartbeat applies the list to the records.
Reconcile(p) ==
    /\ hb[p].sent
    /\ sb' = [s \in Names |->
                IF sb[s].poder = p /\ sb[s].state = "RUNNING" /\ s \notin hb[p].names
                  THEN [sb[s] EXCEPT !.state = "ERROR"]
                ELSE IF sb[s].poder = p /\ sb[s].state = "ERROR" /\ s \in hb[p].names
                  THEN [sb[s] EXCEPT !.state = "RUNNING"]
                ELSE sb[s]]
    /\ hb' = [hb EXCEPT ![p] = [sent |-> FALSE, names |-> {}]]
    /\ UNCHANGED <<dbVars, cf, rs, del, call, cnt, envVars, histVars>>

\* An instance dies: its flows, its resumer, its deleters, its ends of the
\* tunnels and of the requests in flight go with it.  The tables stay.
Crash(n) ==
    /\ n \in up /\ spent.faults < MaxFaults
    /\ spent' = [spent EXCEPT !.faults = @ + 1]
    /\ up' = up \ {n}
    /\ cf' = [j \in Jobs |-> IF cf[j].node = n /\ cf[j].ph \notin {"idle", "done"}
                               THEN [NoFlow EXCEPT !.ph = "dead", !.name = cf[j].name]
                               ELSE cf[j]]
    /\ rs' = [rs EXCEPT ![n] = NoResume]
    /\ del' = [s \in Names |-> IF del[s].node = n THEN NoDelete ELSE del[s]]
    /\ tunnel' = [p \in Poders |-> IF tunnel[p] = n THEN None ELSE tunnel[p]]
    /\ call' = [c \in Calls |->
                  IF call[c].via # n THEN call[c]
                  ELSE IF call[c].w \in {"created", "error"} THEN NoCall
                  ELSE [call[c] EXCEPT !.s = "gone"]]
    /\ UNCHANGED <<dbVars, sb, owner, cnt, hb, histVars>>

\* Bug: IN_PROGRESS jobs are not returned to PENDING.
RestartKeepsInProgress(n) ==
    LET back == {} IN
    /\ n \notin up
    /\ up' = up \cup {n}
    /\ job' = [j \in Jobs |-> IF j \in back THEN [job[j] EXCEPT !.status = "PENDING"]
                              ELSE job[j]]
    /\ stale' = stale \ back
    /\ current' = [j \in Jobs |-> IF j \in back THEN {} ELSE current[j]]
    /\ UNCHANGED <<old, sb, owner, cf, rs, del, tunnel, call, cnt, hb, spent,
                   histVars>>

\* An instance starts: opening the database returns every IN_PROGRESS job to
\* PENDING, its own or not.
Restart(n) ==
    LET back == {j \in Jobs : job[j].status = "IN_PROGRESS"} IN
    /\ n \notin up
    /\ up' = up \cup {n}
    /\ job' = [j \in Jobs |-> IF j \in back THEN [job[j] EXCEPT !.status = "PENDING"]
                              ELSE job[j]]
    /\ stale' = stale \ back
    /\ current' = [j \in Jobs |-> IF j \in back THEN {} ELSE current[j]]
    /\ UNCHANGED <<old, sb, owner, cf, rs, del, tunnel, call, cnt, hb, spent,
                   histVars>>

-----------------------------------------------------------------------------
CreateStep(j) ==
    \/ AddRecord(j) \/ Refuse(j) \/ (\E p \in Poders : Place(j, p))
    \/ Upsert(j) \/ RecordIntent(j) \/ (\E c \in Calls : Deliver(j, c) \/ DeliverToPeer(j, c))
    \/ PeerRefused(j) \/ PeerTimeout(j) \/ NoTunnel(j) \/ FailRecord(j) \/ Belt(j)

WorkerStep(c) == WorkerReplace(c) \/ WorkerCreate(c) \/ WorkerError(c)

AnswerStep(c) == AckJob(c) \/ AckRecord(c) \/ PushFail(c)

ResumeStep(n) ==
    \/ \E j \in Jobs : ResumeList(n, j)
    \/ ResumeNoPayload(n) \/ ResumeNoPayloadRecord(n) \/ ResumeTooOld(n)
    \/ ResumeSettle(n) \/ ResumeClaim(n) \/ ResumeSkip(n)
    \/ \E c \in Calls : ResumeDeliver(n, c) \/ ResumeDeliverToPeer(n, c)
    \/ ResumePeerFails(n) \/ ResumeNoWorker(n) \/ ResumeFinish(n)

DeleteStep(s) == DeleteRecord(s) \/ DeleteContainer(s)

\* Nothing left to do: every flow has returned and every job is settled.  The
\* system idles; any other state without a successor is a deadlock.
Idle ==
    /\ \A j \in Jobs : /\ cf[j].ph \in {"idle", "done", "dead"}
                       /\ job[j].status \in Terminal \cup {"ABSENT"}
    /\ \A n \in Nodes : rs[n].ph = "idle"
    /\ \A s \in Names : del[s].ph = "idle"
    /\ \A c \in Calls : ~Active(c)
    /\ UNCHANGED vars

Next ==
    \/ Idle
    \/ \E j \in Jobs, n \in Nodes, s \in Names :
          AcceptSync(j, n, s) \/ AcceptAsync(j, n, s)
    \/ \E j \in Jobs : CreateStep(j) \/ Age(j) \/ Expire(j)
    \/ \E c \in Calls : WorkerStep(c) \/ AnswerStep(c)
    \/ \E n \in Nodes : ResumeStep(n) \/ Crash(n) \/ Restart(n)
    \/ \E s \in Names : DeleteStep(s)
                        \/ \E n \in Nodes : DeleteFailJobs(s, n) \/ IdleReap(s, n)
    \/ \E p \in Poders : Disconnect(p) \/ OwnerExpire(p) \/ HeartbeatList(p)
                         \/ Reconcile(p) \/ \E n \in Nodes : Connect(p, n)

Spec == Init /\ [][Next]_vars

\* What keeps running runs: the goroutines of a create, the worker and the HTTP
\* calls (every one has a deadline), the resumer's ticker, the delete handler.
\* Time passes, and a crashed instance is restarted.
Fairness ==
    /\ \A j \in Jobs : WF_vars(CreateStep(j)) /\ WF_vars(Age(j)) /\ WF_vars(Expire(j))
    /\ \A c \in Calls : WF_vars(WorkerStep(c)) /\ WF_vars(AnswerStep(c))
    /\ \A n \in Nodes : WF_vars(ResumeStep(n)) /\ WF_vars(Restart(n))
    /\ \A s \in Names : WF_vars(DeleteStep(s))

FairSpec == Spec /\ Fairness

-----------------------------------------------------------------------------
(* Properties *)

\* Nothing is reported done that was not done: a COMPLETED job and a RUNNING
\* record (written by pushCreateToPoder, the resumer and the heartbeat
\* reconciliation) name a sandbox for which a worker really made a container.
DeliveredBeforeDone ==
    /\ \A j \in Jobs : job[j].status = "COMPLETED" => NameOf(j) \in made
    /\ \A s \in Names : sb[s].state = "RUNNING" => s \in made

\* The outbox rule of create.go step 3a: while a create is in flight to a
\* worker, its row holds the payload and that worker's id, so that another
\* instance could finish it.
IntentBeforeDelivery ==
    \A c \in Calls : Active(c) => /\ job[call[c].job].status # "ABSENT"
                                  /\ job[call[c].job].req
                                  /\ job[call[c].job].poder = call[c].poder

\* ClaimJob compares only updated_at, yet a claim is only ever won on a row
\* that is still PENDING and has not been written for ResumeStaleAfter: one
\* claim per stale period, however many instances saw it.
ClaimsOnlyStalePending ==
    [][\A n \in Nodes :
         rs[n].ph = "read" /\ rs'[n].ph = "claimed"
           => job[rs[n].job].status = "PENDING" /\ rs[n].job \in stale]_vars

\* CreatePod's replacement makes repeated deliveries idempotent as long as two
\* of them are never with the worker at once: no retry leaves a second
\* container.
SerialDeliveriesReplace ==
    \A p \in Poders, s \in Names : s \notin overlapped => cnt[p][s] <= 1

\* What failJobsFor is for: once a sandbox was deleted while nobody was working
\* on its create, no instance delivers that create again.
DeleteSticks ==
    \A j \in Jobs : doom[j] = "quiet" =>
        /\ \A c \in Calls : Active(c) => call[c].job # j
        /\ \A n \in Nodes : rs[n].ph \in Delivering => rs[n].job # j

\* Every accepted create comes to an end, whatever instance died on the way:
\* its job row settles as COMPLETED or FAILED.
JobsSettle ==
    \A j \in Jobs : <>[](job[j].status \in Terminal \cup {"ABSENT"})
=============================================================================
