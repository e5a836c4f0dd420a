--------------------------- MODULE DeliveryProofs ---------------------------
(***************************************************************************)
(* Proofs about Delivery, for any sets of jobs, names, instances, workers  *)
(* and requests and any bounds: the type invariant, DeliveredBeforeDone,   *)
(* ClaimsOnlyStalePending, IntentBeforeDelivery, DeleteSticks and          *)
(* SerialDeliveriesReplace.                                                *)
(*                                                                         *)
(* None of them is inductive.  Types need that processes and messages name *)
(* creates that were accepted (Assigned); DeliveredBeforeDone needs that   *)
(* every answer, heartbeat and resumer that can still lead to such a write *)
(* is evidence of a container (Evidence); a claim needs that a copy whose  *)
(* updated_at still matches is of a PENDING and stale row (CopiesCurrent); *)
(* the outbox rule needs what the row holds at every phase of a flow and   *)
(* of a resumer (Intent); a delete sticks because the row is settled, the  *)
(* flow over and every copy of the row outdated (QuietStays); and serial   *)
(* deliveries need that a request which cleared the way still finds no     *)
(* container (Serial).                                                     *)
(*                                                                         *)
(* NamesStay, CallsKept, ResumersKept, RowsKept, FlowsForward and          *)
(* EffectsKept say once what the steps do to each piece of state, and the  *)
(* parts of the invariant are proved from those.                           *)
(***************************************************************************)
EXTENDS Delivery, TLAPS

\* A flow that was accepted knows its sandbox, a placed one its worker, and a
\* row in the jobs table belongs to an accepted create.
Placed == {"placed", "recorded", "intent", "push", "peer"}
FlowsAssigned ==
    \A j \in Jobs : /\ cf[j].ph # "idle" => cf[j].name \in Names
                    /\ cf[j].ph \in Placed => cf[j].poder \in Poders
                    /\ job[j].status # "ABSENT" => cf[j].ph # "idle"

\* A request in flight and a busy resumer are about an accepted create.
CallsAssigned ==
    \A c \in Calls : Active(c) => /\ call[c].job \in Jobs
                                  /\ cf[call[c].job].ph # "idle"
                                  /\ call[c].poder \in Poders
ResumersAssigned ==
    \A n \in Nodes : rs[n].ph # "idle" => /\ rs[n].job \in Jobs
                                          /\ cf[rs[n].job].ph # "idle"

Assigned == FlowsAssigned /\ CallsAssigned /\ ResumersAssigned

-----------------------------------------------------------------------------
(* The rows, processes and messages an update makes are again of their type *)

\* What an insert or update of a jobs row makes is a jobs row.
LEMMA JobRowFacts ==
    /\ NoJob \in JobRow
    /\ \A st \in JobStatus, p \in Poders \cup {None}, b \in BOOLEAN :
          [status |-> st, poder |-> p, req |-> b] \in JobRow
    /\ \A r \in JobRow : r.req \in BOOLEAN /\ r.poder \in Poders \cup {None}
    /\ \A r \in JobRow, st \in JobStatus : [r EXCEPT !.status = st] \in JobRow
BY DEF NoJob, JobRow, JobStatus

\* What an insert or update of a sandboxes row makes is a sandboxes row.
LEMMA SbRowFacts ==
    /\ NoSandbox \in SbRow
    /\ \A st \in SbState, p \in Poders \cup {None} : [state |-> st, poder |-> p] \in SbRow
    /\ \A r \in SbRow : r.poder \in Poders \cup {None}
    /\ \A r \in SbRow, st \in SbState : [r EXCEPT !.state = st] \in SbRow
    /\ \A r \in SbRow, p \in Poders \cup {None} : [r EXCEPT !.poder = p] \in SbRow
BY DEF NoSandbox, SbRow, SbState

\* Accepting, moving, placing and losing a create flow yields a create flow.
LEMMA FlowFacts ==
    /\ NoFlow \in CreateFlow
    /\ \A r \in CreateFlow : /\ r.name \in Names \cup {None}
                             /\ r.poder \in Poders \cup {None}
                             /\ r.node \in Nodes \cup {None}
    /\ \A r \in CreateFlow, x \in CreatePhase, c \in Calls \cup {None} :
          [r EXCEPT !.ph = x, !.call = c] \in CreateFlow
    /\ \A r \in CreateFlow, x \in CreatePhase, p \in Poders :
          [r EXCEPT !.ph = x, !.poder = p] \in CreateFlow
    /\ \A x \in CreatePhase, s \in Names \cup {None} :
          [NoFlow EXCEPT !.ph = x, !.name = s] \in CreateFlow
    /\ \A x \in CreatePhase, s \in Names, n \in Nodes :
          [NoFlow EXCEPT !.ph = x, !.name = s, !.node = n] \in CreateFlow
    /\ \A x \in CreatePhase, s \in Names, n \in Nodes :
          [NoFlow EXCEPT !.ph = x, !.name = s, !.node = n, !.async = TRUE] \in CreateFlow
BY ZenonT(40) DEF NoFlow, CreateFlow, CreatePhase

\* Starting and moving a resumer's pass yields a resumer.
LEMMA ResumerFacts ==
    /\ NoResume \in Resumer
    /\ \A r \in Resumer : r.poder \in Poders \cup {None}
    /\ \A j \in Jobs, b \in BOOLEAN, p \in Poders \cup {None} :
          [ph |-> "read", job |-> j, req |-> b, poder |-> p, call |-> None] \in Resumer
    /\ \A r \in Resumer, x \in ResumePhase : [r EXCEPT !.ph = x] \in Resumer
    /\ \A r \in Resumer, x \in ResumePhase, c \in Calls \cup {None} :
          [r EXCEPT !.ph = x, !.call = c] \in Resumer
BY ZenonT(40) DEF NoResume, Resumer, ResumePhase

\* Sending, answering and abandoning a request yields a request.
LEMMA CallFacts ==
    /\ NoCall \in Call
    /\ \A r \in Call : r.from \in Nodes \cup {None} /\ r.poder \in Poders \cup {None}
    /\ \A r \in Call, x \in {"cleared", "created", "error"} : [r EXCEPT !.w = x] \in Call
    /\ \A r \in Call, x \in {"acked", "gone"} : [r EXCEPT !.s = x] \in Call
    /\ \A k \in {"create", "resume"}, j \in Jobs, p \in Poders,
          a \in Nodes \cup {None}, b \in Nodes \cup {None} :
             [w |-> "sent", s |-> "wait", kind |-> k, job |-> j, poder |-> p,
              from |-> a, via |-> b] \in Call
BY DEF NoCall, Call

\* Starting and moving a delete yields a delete handler.
LEMMA DeleterFacts ==
    /\ NoDelete \in Deleter
    /\ \A x \in {"record", "container"}, n \in Nodes, p \in Poders \cup {None} :
          [ph |-> x, node |-> n, poder |-> p] \in Deleter
    /\ \A r \in Deleter : [r EXCEPT !.ph = "container"] \in Deleter
BY DEF NoDelete, Deleter

\* Counting a fault, a delete or a heartbeat keeps the counters natural.
LEMMA SpentFacts ==
    \A r \in Spent : /\ [r EXCEPT !.faults = @ + 1] \in Spent
                     /\ [r EXCEPT !.deletes = @ + 1] \in Spent
                     /\ [r EXCEPT !.beats = @ + 1] \in Spent
BY DEF Spent

\* A heartbeat with any set of names is a heartbeat.
LEMMA BeatFacts ==
    \A b \in BOOLEAN, ns \in SUBSET Names : [sent |-> b, names |-> ns] \in Beat
BY DEF Beat

\* Adding a container, and removing one if there is one, keeps the counts natural.
LEMMA ContainerFacts ==
    \A f \in Containers, p \in Poders, s \in Names :
        /\ [f EXCEPT ![p][s] = @ + 1] \in Containers
        /\ [f EXCEPT ![p][s] = IF @ = 0 THEN 0 ELSE @ - 1] \in Containers
        /\ f[p][s] > 0 => [f EXCEPT ![p][s] = @ - 1] \in Containers
BY DEF Containers

\* The jobs table's part of the type invariant.
JobsTyped ==
    /\ job \in [Jobs -> JobRow]
    /\ stale \subseteq Jobs
    /\ old \subseteq Jobs
    /\ current \in [Jobs -> SUBSET Nodes]

\* A write of a row keeps the jobs table's types.
LEMMA WriteJobType ==
    ASSUME TypeOK, NEW j, NEW row \in JobRow, WriteJob(j, row)
    PROVE  JobsTyped'
BY DEF TypeOK, JobsTyped, WriteJob

\* So does UpdateJob of the status alone.
LEMMA StatusType ==
    ASSUME TypeOK, NEW j \in Jobs, NEW st \in JobStatus, SetStatus(j, st)
    PROVE  JobsTyped'
<1>1. [job[j] EXCEPT !.status = st] \in JobRow
  BY JobRowFacts DEF TypeOK
<1> QED  BY <1>1, WriteJobType DEF SetStatus

\* Moving a create flow to a phase keeps its type.
LEMMA GotoType ==
    ASSUME TypeOK, NEW j \in Jobs, NEW ph \in CreatePhase, Goto(j, ph)
    PROVE  cf' \in [Jobs -> CreateFlow]
BY FlowFacts DEF TypeOK, Goto

\* Once accepted, a create stays accepted, and its sandbox's name with it.
NamesStay == \A j \in Jobs : cf[j].ph # "idle" => /\ cf'[j].ph # "idle"
                                                 /\ cf'[j].name = cf[j].name
\* A step keeps the requests in flight: it may end some or hide an answer, but
\* adds none, and no worker gets on with one except to fail it.
CallsKept == \A c \in Calls : Active(c)' =>
                /\ Active(c)
                /\ call'[c].job = call[c].job /\ call'[c].poder = call[c].poder
                /\ call'[c].kind = call[c].kind /\ call'[c].from = call[c].from
                /\ call'[c].w # "error" => call'[c].w = call[c].w
CallsGrow == \E c \in Calls : \/ WorkerReplace(c) \/ WorkerCreate(c)
                              \/ \E j \in Jobs : Deliver(j, c) \/ DeliverToPeer(j, c)
                              \/ \E n \in Nodes : \/ ResumeDeliver(n, c)
                                                  \/ ResumeDeliverToPeer(n, c)

\* A step keeps the resumers: it may end a pass or move it on, but starts none,
\* claims and sends nothing for one, and brings none to "finish".
ResumersKept == \A n \in Nodes : rs'[n].ph # "idle" =>
                   /\ rs[n].ph # "idle" /\ rs'[n].job = rs[n].job
                   /\ rs'[n].req = rs[n].req /\ rs'[n].poder = rs[n].poder
                   /\ \A x \in {"claimed", "finish"} : rs'[n].ph = x => rs[n].ph = x
                   /\ rs'[n].ph \in {"push", "peer"} =>
                        rs[n].ph \in {"push", "peer"} /\ rs'[n].call = rs[n].call
ResumersMove == \/ \E n \in Nodes, j \in Jobs : ResumeList(n, j)
                \/ \E n \in Nodes : ResumeClaim(n)
                \/ \E n \in Nodes, c \in Calls : ResumeDeliver(n, c) \/ ResumeDeliverToPeer(n, c)
                \/ \E c \in Calls : AckRecord(c)

\* A delivery has put request c for job j in flight to worker p.
Sent(c, kind, j, p, n) ==
    /\ call'[c].w = "sent" /\ call'[c].kind = kind /\ call'[c].job = j
    /\ call'[c].poder = p /\ call'[c].from = n
    /\ \A d \in Calls \ {c} : call'[d] = call[d]

-----------------------------------------------------------------------------
(* The inductive strengthening of each safety property *)

\* DeliveredBeforeDone: whatever may still be turned into a COMPLETED job or a
\* RUNNING record is evidence of a container made for that name.
JobsMade       == \A j \in Jobs : job[j].status = "COMPLETED" => NameOf(j) \in made
RecordsMade    == \A s \in Names : sb[s].state = "RUNNING" => s \in made
CallsMade      == \A c \in Calls : call[c].w = "created" => NameOf(call[c].job) \in made
ResumersMade   == \A n \in Nodes : rs[n].ph = "finish" => NameOf(rs[n].job) \in made
ContainersMade == /\ \A p \in Poders, s \in Names : cnt[p][s] > 0 => s \in made
                  /\ \A p \in Poders : hb[p].names \subseteq made
AnswersMatch   == \A c \in Calls, n \in Nodes :
                     /\ Active(c) /\ call[c].kind = "resume" /\ call[c].from = n
                     /\ rs[n].ph \in {"push", "peer"} /\ rs[n].call = c
                     => rs[n].job = call[c].job
Evidence == AnswersMatch /\ JobsMade /\ RecordsMade /\ CallsMade /\ ResumersMade /\ ContainersMade

\* ClaimsOnlyStalePending: a copy that is still current is of a row that is
\* PENDING and stale, as when it was listed.
CopiesCurrent ==
    \A j \in Jobs, n \in Nodes : n \in current[j] => job[j].status = "PENDING" /\ j \in stale

\* IntentBeforeDelivery: the row of a flow that has not been placed has no worker
\* yet; until the scheduler's row is written, a synchronous create has none.  From
\* then on the row names the flow's worker, and from the intent on it has the
\* payload.
Committed == {"intent", "push", "peer"}
IntentFlows ==
    \A j \in Jobs :
        /\ cf[j].ph = "row" => cf[j].async
        /\ cf[j].ph \in {"idle", "row", "sched"} => job[j].poder = None
        /\ cf[j].ph = "idle" \/ (cf[j].ph = "sched" /\ ~cf[j].async) => job[j].status = "ABSENT"
        /\ cf[j].ph = "row" \/ (cf[j].ph = "sched" /\ cf[j].async) => job[j].status # "ABSENT"
        /\ cf[j].ph \in Placed => job[j].poder = cf[j].poder /\ job[j].status # "ABSENT"
        /\ cf[j].ph \in Committed => job[j].req

\* A resumer works on a row that is there, and what it read of the worker and of
\* the payload is still so.
IntentResumers ==
    \A n \in Nodes : rs[n].ph # "idle" =>
        /\ job[rs[n].job].status # "ABSENT"
        /\ rs[n].poder # None => job[rs[n].job].poder = rs[n].poder
        /\ rs[n].req => job[rs[n].job].req
        /\ rs[n].ph \in Delivering => rs[n].req

Intent == IntentFlows /\ IntentResumers /\ IntentBeforeDelivery

\* A step keeps the rows: it may move a row's status, but makes none and takes
\* none away, brings back no settled job, and leaves worker and payload alone.
Settled == Terminal \cup {"ABSENT"}
RowsKept == \A j \in Jobs :
                /\ job'[j].poder = job[j].poder /\ job'[j].req = job[j].req
                /\ job'[j].status = "ABSENT" <=> job[j].status = "ABSENT"
                /\ job[j].status \in Settled => job'[j].status \in Settled
RowsWritten == \/ \E j \in Jobs, n \in Nodes, s \in Names : AcceptAsync(j, n, s)
               \/ \E j \in Jobs, p \in Poders : Place(j, p)
               \/ \E j \in Jobs : RecordIntent(j)

\* A step moves flows forward: accepts none, places none and commits none to a
\* delivery.
FlowsForward == \A j \in Jobs :
                   /\ cf'[j].ph \in {"idle", "row"} => cf'[j] = cf[j]
                   /\ cf'[j].ph = "sched" => /\ cf[j].ph \in {"row", "sched"}
                                             /\ cf'[j].async = cf[j].async
                   /\ cf'[j].ph \in Placed => cf[j].ph \in Placed /\ cf'[j].poder = cf[j].poder
                   /\ cf'[j].ph \in Committed => cf[j].ph \in Committed
                   /\ cf[j].ph \in {"done", "dead"} => cf'[j].ph \in {"done", "dead"}
FlowsWritten == \E j \in Jobs, n \in Nodes, s \in Names : AcceptSync(j, n, s)

\* DeleteSticks: nothing can bring back a create whose sandbox was deleted while
\* nobody worked on it.
Quiet(j) ==
    /\ cf[j].ph \in {"done", "dead"} /\ job[j].status \in Settled
    /\ \A c \in Calls : Active(c) => call[c].job # j
    /\ \A n \in Nodes : rs[n].ph \in Delivering => rs[n].job # j
QuietStays == \A j \in Jobs : doom[j] = "quiet" => Quiet(j)

\* SerialDeliveriesReplace: two requests with the worker for one name make the
\* name overlapped, and one that has cleared the way finds no container.
AtWorker == {"sent", "cleared"}
OneAtWork ==
    \A c, d \in Calls :
        /\ c # d /\ call[c].w \in AtWorker /\ call[d].w \in AtWorker
        /\ call[c].poder = call[d].poder /\ NameOf(call[c].job) = NameOf(call[d].job)
        => NameOf(call[c].job) \in overlapped
ClearedIsEmpty ==
    \A c \in Calls : call[c].w = "cleared" =>
        NameOf(call[c].job) \in overlapped \/ cnt[call[c].poder][NameOf(call[c].job)] = 0
Serial == OneAtWork /\ ClearedIsEmpty /\ SerialDeliveriesReplace

\* What a step does to containers and histories: no name is forgotten, only a
\* worker that creates one has more containers, only a delete dooms a job.
FewerContainers == \A p \in Poders, s \in Names : cnt'[p][s] \in Nat /\ cnt'[p][s] <= cnt[p][s]
EffectsKept == /\ overlapped \subseteq overlapped'
               /\ FewerContainers \/ \E c \in Calls : WorkerCreate(c)
               /\ \/ UNCHANGED doom
                  \/ \E s \in Names, n \in Nodes : DeleteFailJobs(s, n)

\* A row that is there stays, with its payload and with the worker it names.
RowsStay == \A j \in Jobs : job[j].status # "ABSENT" =>
                /\ job'[j].status # "ABSENT"
                /\ job[j].req => job'[j].req
                /\ job[j].poder # None => job'[j].poder = job[j].poder

USE DeliveryAssumption

\* Every step preserves the type invariant.
LEMMA TypeStep ==
    ASSUME TypeOK, Assigned, [Next]_vars
    PROVE  TypeOK'
<1>1. CASE Idle \/ UNCHANGED vars
  BY <1>1 DEF TypeOK, Idle, vars
<1>2. ASSUME NEW j \in Jobs, NEW n \in Nodes, NEW s \in Names, AcceptSync(j, n, s)
      PROVE  TypeOK'
  BY <1>2, FlowFacts DEF TypeOK, AcceptSync, dbVars, envVars, histVars,
    CreatePhase
<1>3. ASSUME NEW j \in Jobs, NEW n \in Nodes, NEW s \in Names, AcceptAsync(j, n, s)
      PROVE  TypeOK'
  BY <1>3, JobRowFacts, FlowFacts DEF TypeOK, AcceptAsync, WriteJob, envVars,
    histVars, JobStatus, CreatePhase
<1>4. ASSUME NEW j \in Jobs, AddRecord(j)
      PROVE  TypeOK'
  <2> USE <1>4
  <2>1. CASE sb[NameOf(j)].state = "ABSENT"
    <3>1. Goto(j, "sched") /\ "sched" \in CreatePhase
      BY <2>1 DEF AddRecord, CreatePhase
    <3>2. sb' = [sb EXCEPT ![NameOf(j)] = [state |-> "PENDING", poder |-> None]]
      BY <2>1 DEF AddRecord
    <3>3. sb' \in [Names -> SbRow]
      BY <3>2, SbRowFacts DEF TypeOK, SbState
    <3> QED
      BY <3>1, <3>3, GotoType DEF TypeOK, AddRecord, dbVars, envVars, histVars
  <2>2. CASE sb[NameOf(j)].state # "ABSENT"
    <3>1. Goto(j, "done") /\ UNCHANGED sb /\ "done" \in CreatePhase
      BY <2>2 DEF AddRecord, CreatePhase
    <3> QED
      BY <3>1, GotoType DEF TypeOK, AddRecord, dbVars, envVars, histVars
  <2> QED  BY <2>1, <2>2
<1>5. ASSUME NEW j \in Jobs, Refuse(j)
      PROVE  TypeOK'
  <2> USE <1>5
  <2>1. cf' \in [Jobs -> CreateFlow]
    BY FlowFacts, ZenonT(40) DEF TypeOK, Refuse, Goto, CreatePhase
  <2>2. JobsTyped'
    <3>1. CASE cf[j].async
      BY <3>1, StatusType DEF Refuse, JobStatus
    <3>2. CASE ~cf[j].async
      BY <3>2 DEF TypeOK, JobsTyped, Refuse, dbVars
    <3> QED  BY <3>1, <3>2
  <2> QED  BY <2>1, <2>2 DEF TypeOK, JobsTyped, Refuse, envVars, histVars
<1>6. ASSUME NEW j \in Jobs, NEW p \in Poders, Place(j, p)
      PROVE  TypeOK'
  <2> USE <1>6
  <2>1. cf' \in [Jobs -> CreateFlow]
    BY FlowFacts, ZenonT(40) DEF TypeOK, Place, CreatePhase
  <2>2. JobsTyped'
    <3>1. CASE cf[j].async
      <4>1. [status |-> "IN_PROGRESS", poder |-> p, req |-> job[j].req] \in JobRow
        BY JobRowFacts DEF TypeOK, JobStatus
      <4> QED  BY <3>1, <4>1, WriteJobType DEF Place
    <3>2. CASE ~cf[j].async
      <4>1. [status |-> "PENDING", poder |-> p, req |-> FALSE] \in JobRow
        BY JobRowFacts DEF JobStatus
      <4> QED  BY <3>2, <4>1, WriteJobType DEF Place
    <3> QED  BY <3>1, <3>2
  <2> QED  BY <2>1, <2>2 DEF TypeOK, JobsTyped, Place, envVars, histVars
<1>7. ASSUME NEW j \in Jobs, Upsert(j)
      PROVE  TypeOK'
  BY <1>7, SbRowFacts, FlowFacts, ZenonT(40) DEF TypeOK, Upsert, Goto, dbVars, envVars,
    histVars, NameOf, SbState, CreatePhase
<1>8. ASSUME NEW j \in Jobs, RecordIntent(j)
      PROVE  TypeOK'
  BY <1>8, JobRowFacts, FlowFacts, ZenonT(40) DEF TypeOK, RecordIntent, WriteJob, Goto,
    envVars, histVars, JobStatus, CreatePhase
<1>9. ASSUME NEW j \in Jobs, NEW c \in Calls, Deliver(j, c)
      PROVE  TypeOK'
  <2> USE <1>9
  <2>1. cf[j].poder \in Poders /\ NameOf(j) \in Names
    BY DEF Assigned, FlowsAssigned, Placed, Deliver, NameOf
  <2>2. call' \in [Calls -> Call]
    BY <2>1, CallFacts, FlowFacts, ZenonT(40) DEF TypeOK, Deliver, Send
  <2>3. cf' \in [Jobs -> CreateFlow]
    BY FlowFacts, ZenonT(40) DEF TypeOK, Deliver, CreatePhase
  <2>4. overlapped' \subseteq Names
    BY <2>1 DEF TypeOK, Deliver, Send
  <2> QED
    BY <2>2, <2>3, <2>4 DEF TypeOK, Deliver, dbVars, envVars
<1>10. ASSUME NEW j \in Jobs, NEW c \in Calls, DeliverToPeer(j, c)
      PROVE  TypeOK'
  <2> USE <1>10
  <2>1. cf[j].poder \in Poders /\ NameOf(j) \in Names
    BY DEF Assigned, FlowsAssigned, Placed, DeliverToPeer, NameOf
  <2>2. call' \in [Calls -> Call]
    BY <2>1, CallFacts, FlowFacts DEF TypeOK, DeliverToPeer, Send
  <2>3. cf' \in [Jobs -> CreateFlow]
    BY FlowFacts, ZenonT(40) DEF TypeOK, DeliverToPeer, CreatePhase
  <2>4. overlapped' \subseteq Names
    BY <2>1 DEF TypeOK, DeliverToPeer, Send
  <2> QED
    BY <2>2, <2>3, <2>4 DEF TypeOK, DeliverToPeer, dbVars, envVars
<1>11. ASSUME NEW j \in Jobs, PeerRefused(j)
      PROVE  TypeOK'
  BY <1>11, JobRowFacts, FlowFacts, ZenonT(40) DEF TypeOK, PeerRefused, SetStatus, Goto,
    envVars, histVars, WriteJob, JobStatus, CreatePhase
<1>12. ASSUME NEW j \in Jobs, PeerTimeout(j)
      PROVE  TypeOK'
  BY <1>12, JobRowFacts, FlowFacts, ZenonT(40) DEF TypeOK, PeerTimeout, SetStatus, Goto,
    envVars, histVars, WriteJob, JobStatus, CreatePhase
<1>13. ASSUME NEW j \in Jobs, NoTunnel(j)
      PROVE  TypeOK'
  <2> USE <1>13
  <2>1. cf' \in [Jobs -> CreateFlow]
    BY FlowFacts, ZenonT(40) DEF TypeOK, NoTunnel, Goto, CreatePhase
  <2>2. JobsTyped'
    BY StatusType DEF NoTunnel, JobStatus
  <2> QED  BY <2>1, <2>2 DEF TypeOK, JobsTyped, NoTunnel, envVars, histVars
<1>14. ASSUME NEW j \in Jobs, FailRecord(j)
      PROVE  TypeOK'
  BY <1>14, SbRowFacts, FlowFacts, ZenonT(40) DEF TypeOK, FailRecord, SetState, Goto,
    dbVars, envVars, histVars, NameOf, SbState, CreatePhase
<1>15. ASSUME NEW j \in Jobs, Belt(j)
      PROVE  TypeOK'
  BY <1>15, SbRowFacts, FlowFacts, ZenonT(40) DEF TypeOK, Belt, PendingToError, Goto,
    dbVars, envVars, histVars, NameOf, SbState, CreatePhase
<1>16. ASSUME NEW j \in Jobs, Age(j)
      PROVE  TypeOK'
  BY <1>16 DEF TypeOK, Age, envVars, histVars
<1>17. ASSUME NEW j \in Jobs, Expire(j)
      PROVE  TypeOK'
  BY <1>17 DEF TypeOK, Expire, envVars, histVars
<1>18. ASSUME NEW c \in Calls, WorkerReplace(c)
      PROVE  TypeOK'
  <2> USE <1>18
  <2>1. call' \in [Calls -> Call]
    BY CallFacts DEF TypeOK, WorkerReplace
  <2>2. call[c].poder \in Poders /\ NameOf(call[c].job) \in Names
    BY DEF Assigned, FlowsAssigned, CallsAssigned, WorkerReplace, Active, NameOf
  <2>3. cnt' \in Containers
    <3>1. CASE UNCHANGED cnt
      BY <3>1 DEF TypeOK
    <3>2. CASE ~UNCHANGED cnt
      <4>1. cnt' = [cnt EXCEPT ![call[c].poder][NameOf(call[c].job)] =
                                  IF @ = 0 THEN 0 ELSE @ - 1]
        BY <3>2 DEF WorkerReplace
      <4> QED  BY <2>2, <4>1, ContainerFacts DEF TypeOK
    <3> QED  BY <3>1, <3>2
  <2> QED  BY <2>1, <2>3 DEF TypeOK, WorkerReplace, dbVars, envVars, histVars
<1>19. ASSUME NEW c \in Calls, WorkerCreate(c)
      PROVE  TypeOK'
  <2> USE <1>19
  <2>1. call' \in [Calls -> Call]
    BY CallFacts DEF TypeOK, WorkerCreate
  <2>2. call[c].poder \in Poders /\ NameOf(call[c].job) \in Names
    BY DEF Assigned, FlowsAssigned, CallsAssigned, WorkerCreate, Active, NameOf
  <2>3. cnt' \in Containers
    BY <2>2, ContainerFacts DEF TypeOK, WorkerCreate
  <2>4. made' \subseteq Names
    BY <2>2 DEF TypeOK, WorkerCreate
  <2> QED  BY <2>1, <2>3, <2>4 DEF TypeOK, WorkerCreate, dbVars, envVars
<1>20. ASSUME NEW c \in Calls, WorkerError(c)
      PROVE  TypeOK'
  BY <1>20, CallFacts DEF TypeOK, WorkerError, dbVars, envVars, histVars
<1>21. ASSUME NEW c \in Calls, AckJob(c)
      PROVE  TypeOK'
  BY <1>21, JobRowFacts, CallFacts DEF TypeOK, AckJob, SetStatus, envVars,
    histVars, WriteJob, JobStatus, Assigned, CallsAssigned
<1>22. ASSUME NEW c \in Calls, AckRecord(c)
      PROVE  TypeOK'
  <2> USE <1>22
  <2>1. sb' \in [Names -> SbRow]
    BY SbRowFacts DEF TypeOK, AckRecord, SetState, SbState
  <2>2. call' \in [Calls -> Call]
    BY CallFacts DEF TypeOK, AckRecord
  <2>3. cf' \in [Jobs -> CreateFlow]
    BY FlowFacts, ZenonT(40) DEF TypeOK, AckRecord, CreatePhase
  <2>4. rs' \in [Nodes -> Resumer]
    BY ResumerFacts, ZenonT(40) DEF TypeOK, AckRecord, ResumePhase
  <2> QED
    BY <2>1, <2>2, <2>3, <2>4 DEF TypeOK, AckRecord, dbVars, envVars, histVars
<1>23. ASSUME NEW c \in Calls, PushFail(c)
      PROVE  TypeOK'
  <2> USE <1>23
  <2>1. call' \in [Calls -> Call]
    <3>1. CASE call' = [call EXCEPT ![c].s = "gone"]
      BY <3>1, CallFacts DEF TypeOK
    <3>2. CASE call' = [call EXCEPT ![c] = NoCall]
      BY <3>2, CallFacts DEF TypeOK
    <3> QED  BY <3>1, <3>2 DEF PushFail
  <2>2. cf' \in [Jobs -> CreateFlow]
    <3> DEFINE j == call[c].job
    <3>1. cf' = cf \/ cf' = [cf EXCEPT ![j].ph = "failsb", ![j].call = None]
      BY DEF PushFail, CallerFails
    <3>2. j \in Jobs
      BY DEF Assigned, CallsAssigned, PushFail
    <3> HIDE DEF j
    <3>3. CASE cf' = cf
      BY <3>3 DEF TypeOK
    <3>4. CASE cf' = [cf EXCEPT ![j].ph = "failsb", ![j].call = None]
      <4> DEFINE e == [cf[j] EXCEPT !.ph = "failsb", !.call = None]
      <4>1. "failsb" \in CreatePhase /\ cf \in [Jobs -> CreateFlow]
        BY DEF CreatePhase, TypeOK
      <4>2. e \in CreateFlow
        BY <3>2, <4>1, FlowFacts
      <4>3. cf' = [cf EXCEPT ![j] = e]
        BY <3>2, <3>4, <4>1 DEF CreateFlow
      <4> QED  BY <4>1, <4>2, <4>3
    <3> QED  BY <3>1, <3>3, <3>4
  <2>3. rs' \in [Nodes -> Resumer]
    BY ResumerFacts DEF TypeOK, PushFail, CallerFails
  <2>4. JobsTyped'
    <3>1. call[c].job \in Jobs
      BY DEF Assigned, FlowsAssigned, CallsAssigned, PushFail
    <3>2. CASE SetStatus(call[c].job, "FAILED")
      BY <3>1, <3>2, StatusType DEF JobStatus
    <3>3. CASE UNCHANGED dbVars
      BY <3>3 DEF TypeOK, JobsTyped, dbVars
    <3> QED  BY <3>2, <3>3 DEF PushFail, CallerFails
  <2> QED
    BY <2>1, <2>2, <2>3, <2>4 DEF TypeOK, JobsTyped, PushFail, envVars, histVars
<1>24. ASSUME NEW n \in Nodes, NEW j \in Jobs, ResumeList(n, j)
      PROVE  TypeOK'
  <2> USE <1>24
  <2>1. rs' \in [Nodes -> Resumer]
    BY ResumerFacts, JobRowFacts DEF TypeOK, ResumeList
  <2> QED  BY <2>1 DEF TypeOK, ResumeList, envVars, histVars
<1>25. ASSUME NEW n \in Nodes, ResumeNoPayload(n)
      PROVE  TypeOK'
  BY <1>25, JobRowFacts, ResumerFacts, ZenonT(40) DEF TypeOK, ResumeNoPayload, SetStatus,
    envVars, histVars, WriteJob, JobStatus, ResumePhase, Assigned,
    ResumersAssigned
<1>26. ASSUME NEW n \in Nodes, ResumeNoPayloadRecord(n)
      PROVE  TypeOK'
  BY <1>26, SbRowFacts, ResumerFacts DEF TypeOK, ResumeNoPayloadRecord,
    PendingToError, dbVars, envVars, histVars, NameOf, SbState, ResumePhase
<1>27. ASSUME NEW n \in Nodes, ResumeTooOld(n)
      PROVE  TypeOK'
  BY <1>27, JobRowFacts, ResumerFacts DEF TypeOK, ResumeTooOld, SetStatus,
    envVars, histVars, WriteJob, JobStatus, ResumePhase, Assigned,
    ResumersAssigned
<1>28. ASSUME NEW n \in Nodes, ResumeSettle(n)
      PROVE  TypeOK'
  BY <1>28, JobRowFacts, ResumerFacts, ZenonT(40) DEF TypeOK, ResumeSettle, SetStatus,
    envVars, histVars, NameOf, WriteJob, JobStatus, ResumePhase, Assigned,
    ResumersAssigned
<1>29. ASSUME NEW n \in Nodes, ResumeClaim(n)
      PROVE  TypeOK'
  BY <1>29, ResumerFacts DEF TypeOK, ResumeClaim, envVars, histVars, NameOf,
    ResumePhase
<1>30. ASSUME NEW n \in Nodes, ResumeSkip(n)
      PROVE  TypeOK'
  BY <1>30, ResumerFacts DEF TypeOK, ResumeSkip, dbVars, envVars, histVars,
    NameOf, ResumePhase
<1>31. ASSUME NEW n \in Nodes, NEW c \in Calls, ResumeDeliver(n, c)
      PROVE  TypeOK'
  <2> USE <1>31
  <2>1. rs[n].job \in Jobs /\ rs[n].poder \in Poders /\ NameOf(rs[n].job) \in Names
    BY ResumerFacts DEF TypeOK, Assigned, FlowsAssigned, ResumersAssigned, ResumeDeliver, NameOf
  <2>2. call' \in [Calls -> Call]
    BY <2>1, CallFacts DEF TypeOK, ResumeDeliver, Send
  <2>3. rs' \in [Nodes -> Resumer]
    BY ResumerFacts, ZenonT(40) DEF TypeOK, ResumeDeliver, ResumePhase
  <2>4. overlapped' \subseteq Names
    BY <2>1 DEF TypeOK, ResumeDeliver, Send
  <2> QED
    BY <2>2, <2>3, <2>4 DEF TypeOK, ResumeDeliver, dbVars, envVars
<1>32. ASSUME NEW n \in Nodes, NEW c \in Calls, ResumeDeliverToPeer(n, c)
      PROVE  TypeOK'
  <2> USE <1>32
  <2>1. rs[n].job \in Jobs /\ rs[n].poder \in Poders /\ NameOf(rs[n].job) \in Names
    BY ResumerFacts DEF TypeOK, Assigned, FlowsAssigned, ResumersAssigned, ResumeDeliverToPeer, NameOf
  <2>2. call' \in [Calls -> Call]
    BY <2>1, CallFacts DEF TypeOK, ResumeDeliverToPeer, Send
  <2>3. rs' \in [Nodes -> Resumer]
    BY ResumerFacts DEF TypeOK, ResumeDeliverToPeer, ResumePhase
  <2>4. overlapped' \subseteq Names
    BY <2>1 DEF TypeOK, ResumeDeliverToPeer, Send
  <2> QED
    BY <2>2, <2>3, <2>4 DEF TypeOK, ResumeDeliverToPeer, dbVars, envVars
<1>33. ASSUME NEW n \in Nodes, ResumePeerFails(n)
      PROVE  TypeOK'
  BY <1>33, ResumerFacts DEF TypeOK, ResumePeerFails, dbVars, envVars,
    histVars, ResumePhase
<1>34. ASSUME NEW n \in Nodes, ResumeNoWorker(n)
      PROVE  TypeOK'
  BY <1>34, JobRowFacts, ResumerFacts DEF TypeOK, ResumeNoWorker, SetStatus,
    envVars, histVars, WriteJob, JobStatus, ResumePhase, Assigned,
    ResumersAssigned
<1>35. ASSUME NEW n \in Nodes, ResumeFinish(n)
      PROVE  TypeOK'
  BY <1>35, JobRowFacts, ResumerFacts, ZenonT(40) DEF TypeOK, ResumeFinish, SetStatus,
    envVars, histVars, WriteJob, JobStatus, ResumePhase, Assigned,
    ResumersAssigned
<1>36. ASSUME NEW n \in Nodes, Crash(n)
      PROVE  TypeOK'
  <2> USE <1>36
  <2>1. call' \in [Calls -> Call]
    BY CallFacts, ZenonT(40) DEF TypeOK, Crash
  <2>2. cf' \in [Jobs -> CreateFlow]
    BY FlowFacts, ZenonT(40) DEF TypeOK, Crash, CreatePhase
  <2>3. rs' \in [Nodes -> Resumer] /\ del' \in [Names -> Deleter]
    BY ResumerFacts, DeleterFacts DEF TypeOK, Crash
  <2>4. spent' \in Spent
    BY SpentFacts DEF TypeOK, Crash
  <2> QED
    BY <2>1, <2>2, <2>3, <2>4 DEF TypeOK, Crash, dbVars, histVars
<1>37. ASSUME NEW n \in Nodes, Restart(n)
      PROVE  TypeOK'
  BY <1>37, JobRowFacts DEF TypeOK, Restart, histVars, JobStatus
<1>38. ASSUME NEW s \in Names, DeleteRecord(s)
      PROVE  TypeOK'
  BY <1>38, SbRowFacts, DeleterFacts DEF TypeOK, DeleteRecord, dbVars,
    envVars, histVars, SbState
<1>39. ASSUME NEW s \in Names, DeleteContainer(s)
      PROVE  TypeOK'
  <2> USE <1>39
  <2>1. del' \in [Names -> Deleter]
    BY DeleterFacts DEF TypeOK, DeleteContainer
  <2>2. cnt' \in Containers
    <3>1. del[s].poder \in Poders \cup {None}
      BY DEF TypeOK, Deleter
    <3> QED  BY <3>1, ContainerFacts DEF TypeOK, DeleteContainer
  <2> QED  BY <2>1, <2>2 DEF TypeOK, DeleteContainer, dbVars, envVars, histVars
<1>40. ASSUME NEW s \in Names, NEW n \in Nodes, DeleteFailJobs(s, n)
      PROVE  TypeOK'
  <2> USE <1>40
  <2>1. JobsTyped'
    BY JobRowFacts DEF TypeOK, JobsTyped, DeleteFailJobs, JobStatus
  <2>2. del' \in [Names -> Deleter]
    BY DeleterFacts, SbRowFacts DEF TypeOK, DeleteFailJobs
  <2>3. spent' \in Spent
    BY SpentFacts DEF TypeOK, DeleteFailJobs
  <2>4. doom' \in [Jobs -> {"no", "busy", "quiet"}]
    BY DEF TypeOK, DeleteFailJobs
  <2> QED
    BY <2>1, <2>2, <2>3, <2>4 DEF TypeOK, JobsTyped, DeleteFailJobs
<1>41. ASSUME NEW s \in Names, NEW n \in Nodes, IdleReap(s, n)
      PROVE  TypeOK'
  BY <1>41, SbRowFacts, DeleterFacts, SpentFacts DEF TypeOK, IdleReap, dbVars,
    histVars, SbState
<1>42. ASSUME NEW p \in Poders, Disconnect(p)
      PROVE  TypeOK'
  BY <1>42, SbRowFacts, SpentFacts DEF TypeOK, Disconnect, dbVars, histVars,
    SbState
<1>43. ASSUME NEW p \in Poders, OwnerExpire(p)
      PROVE  TypeOK'
  BY <1>43 DEF TypeOK, OwnerExpire, dbVars, histVars
<1>44. ASSUME NEW p \in Poders, HeartbeatList(p)
      PROVE  TypeOK'
  BY <1>44, SpentFacts, BeatFacts DEF TypeOK, HeartbeatList, dbVars, histVars
<1>45. ASSUME NEW p \in Poders, Reconcile(p)
      PROVE  TypeOK'
  BY <1>45, SbRowFacts, BeatFacts DEF TypeOK, Reconcile, dbVars, envVars,
    histVars, SbState
<1>46. ASSUME NEW p \in Poders, NEW n \in Nodes, Connect(p, n)
      PROVE  TypeOK'
  BY <1>46 DEF TypeOK, Connect, dbVars, histVars
<1> QED
  BY <1>1, <1>2, <1>3, <1>4, <1>5, <1>6, <1>7, <1>8, <1>9, <1>10, <1>11,
    <1>12, <1>13, <1>14, <1>15, <1>16, <1>17, <1>18, <1>19, <1>20, <1>21,
    <1>22, <1>23, <1>24, <1>25, <1>26, <1>27, <1>28, <1>29, <1>30, <1>31,
    <1>32, <1>33, <1>34, <1>35, <1>36, <1>37, <1>38, <1>39, <1>40, <1>41,
    <1>42, <1>43, <1>44, <1>45, <1>46 DEF Next, CreateStep, WorkerStep,
    AnswerStep, ResumeStep, DeleteStep

\* No step takes back that a create was accepted, or renames it.
LEMMA NamesStep ==
    ASSUME TypeOK, [Next]_vars
    PROVE  NamesStay
<1>1. ASSUME UNCHANGED cf PROVE NamesStay
  BY <1>1 DEF NamesStay
<1>2. CASE Idle \/ UNCHANGED vars
  BY <1>1, <1>2 DEF Idle, vars
<1>3. ASSUME NEW j \in Jobs, NEW n \in Nodes, NEW s \in Names, AcceptSync(j, n, s)
      PROVE  NamesStay
  BY <1>3 DEF TypeOK, AcceptSync, dbVars, envVars, histVars, CreateFlow,
    NoFlow, NamesStay
<1>4. ASSUME NEW j \in Jobs, NEW n \in Nodes, NEW s \in Names, AcceptAsync(j, n, s)
      PROVE  NamesStay
  BY <1>4 DEF TypeOK, AcceptAsync, WriteJob, envVars, histVars, CreateFlow,
    NoFlow, NamesStay
<1>5. ASSUME NEW j \in Jobs, AddRecord(j)
      PROVE  NamesStay
  <2> USE <1>5
  <2>1. Goto(j, "sched") \/ Goto(j, "done")
    BY DEF AddRecord
  <2> QED  BY <2>1 DEF TypeOK, CreateFlow, Goto, NamesStay
<1>6. ASSUME NEW j \in Jobs, Refuse(j)
      PROVE  NamesStay
  BY <1>6 DEF TypeOK, Refuse, SetStatus, Goto, dbVars, envVars, histVars,
    WriteJob, CreateFlow, NamesStay
<1>7. ASSUME NEW j \in Jobs, NEW p \in Poders, Place(j, p)
      PROVE  NamesStay
  BY <1>7 DEF TypeOK, Place, WriteJob, envVars, histVars, CreateFlow,
    NamesStay
<1>8. ASSUME NEW j \in Jobs, Upsert(j)
      PROVE  NamesStay
  BY <1>8 DEF TypeOK, Upsert, Goto, dbVars, envVars, histVars, NameOf,
    CreateFlow, NamesStay
<1>9. ASSUME NEW j \in Jobs, RecordIntent(j)
      PROVE  NamesStay
  BY <1>9 DEF TypeOK, RecordIntent, WriteJob, Goto, envVars, histVars,
    CreateFlow, NamesStay
<1>10. ASSUME NEW j \in Jobs, NEW c \in Calls, Deliver(j, c)
      PROVE  NamesStay
  BY <1>10 DEF TypeOK, Deliver, Send, dbVars, envVars, NameOf, Active,
    CreateFlow, NamesStay
<1>11. ASSUME NEW j \in Jobs, NEW c \in Calls, DeliverToPeer(j, c)
      PROVE  NamesStay
  BY <1>11 DEF TypeOK, DeliverToPeer, Send, dbVars, envVars, NameOf, Active,
    CreateFlow, NamesStay
<1>12. ASSUME NEW j \in Jobs, PeerRefused(j)
      PROVE  NamesStay
  BY <1>12 DEF TypeOK, PeerRefused, SetStatus, Goto, envVars, histVars,
    WriteJob, CreateFlow, NamesStay
<1>13. ASSUME NEW j \in Jobs, PeerTimeout(j)
      PROVE  NamesStay
  BY <1>13 DEF TypeOK, PeerTimeout, SetStatus, Goto, envVars, histVars,
    WriteJob, CreateFlow, NamesStay
<1>14. ASSUME NEW j \in Jobs, NoTunnel(j)
      PROVE  NamesStay
  BY <1>14 DEF TypeOK, NoTunnel, SetStatus, Goto, envVars, histVars, WriteJob,
    CreateFlow, NamesStay
<1>15. ASSUME NEW j \in Jobs, FailRecord(j)
      PROVE  NamesStay
  BY <1>15 DEF TypeOK, FailRecord, SetState, Goto, dbVars, envVars, histVars,
    NameOf, CreateFlow, NamesStay
<1>16. ASSUME NEW j \in Jobs, Belt(j)
      PROVE  NamesStay
  BY <1>16, SMTT(20) DEF TypeOK, Belt, PendingToError, Goto, dbVars, envVars, histVars,
    NameOf, CreateFlow, NamesStay
<1>17. ASSUME NEW c \in Calls, AckRecord(c)
      PROVE  NamesStay
  BY <1>17 DEF TypeOK, AckRecord, SetState, dbVars, envVars, histVars, NameOf,
    CreateFlow, NoCall, NamesStay
<1>18. ASSUME NEW c \in Calls, PushFail(c)
      PROVE  NamesStay
  BY <1>18 DEF TypeOK, PushFail, CallerFails, envVars, histVars, Active,
    SetStatus, dbVars, WriteJob, CreateFlow, NoCall, NoResume, NamesStay
<1>19. ASSUME NEW n \in Nodes, Crash(n)
      PROVE  NamesStay
  BY <1>19 DEF TypeOK, Crash, dbVars, histVars, CreateFlow, NoFlow, NoCall,
    NoResume, NamesStay
<1>20. ASSUME NEW j \in Jobs, Age(j) \/ Expire(j)
      PROVE  NamesStay
  BY <1>1, <1>20 DEF Age, Expire, envVars, histVars
<1>21. ASSUME NEW c \in Calls, WorkerReplace(c) \/ WorkerCreate(c) \/
             WorkerError(c) \/ AckJob(c)
      PROVE  NamesStay
  BY <1>1, <1>21 DEF WorkerReplace, WorkerCreate, WorkerError, AckJob, dbVars,
    envVars, histVars
<1>22. ASSUME NEW n \in Nodes, NEW j \in Jobs, ResumeList(n, j)
      PROVE  NamesStay
  BY <1>1, <1>22 DEF ResumeList, envVars, histVars
<1>23. ASSUME NEW n \in Nodes, ResumeNoPayload(n) \/ ResumeNoPayloadRecord(n)
             \/ ResumeTooOld(n) \/ ResumeSettle(n) \/ ResumeClaim(n) \/ ResumeSkip(n) \/
             ResumePeerFails(n) \/ ResumeNoWorker(n) \/ ResumeFinish(n) \/ Restart(n)
      PROVE  NamesStay
  BY <1>1, <1>23 DEF ResumeNoPayload, ResumeNoPayloadRecord, ResumeTooOld,
    ResumeSettle, ResumeClaim, ResumeSkip, ResumePeerFails, ResumeNoWorker,
    ResumeFinish, Restart, envVars, histVars, dbVars
<1>24. ASSUME NEW n \in Nodes, NEW c \in Calls, ResumeDeliver(n, c) \/
             ResumeDeliverToPeer(n, c)
      PROVE  NamesStay
  BY <1>1, <1>24 DEF ResumeDeliver, ResumeDeliverToPeer, dbVars, envVars
<1>25. ASSUME NEW s \in Names, DeleteRecord(s) \/ DeleteContainer(s)
      PROVE  NamesStay
  BY <1>1, <1>25 DEF DeleteRecord, DeleteContainer, dbVars, envVars, histVars
<1>26. ASSUME NEW s \in Names, NEW n \in Nodes, DeleteFailJobs(s, n) \/
             IdleReap(s, n)
      PROVE  NamesStay
  BY <1>1, <1>26 DEF DeleteFailJobs, IdleReap, dbVars, histVars
<1>27. ASSUME NEW p \in Poders, Disconnect(p) \/ OwnerExpire(p) \/
             HeartbeatList(p) \/ Reconcile(p)
      PROVE  NamesStay
  BY <1>1, <1>27 DEF Disconnect, OwnerExpire, HeartbeatList, Reconcile,
    dbVars, histVars, envVars
<1>28. ASSUME NEW p \in Poders, NEW n \in Nodes, Connect(p, n)
      PROVE  NamesStay
  BY <1>1, <1>28 DEF Connect, dbVars, histVars
<1> QED
  BY <1>2, <1>3, <1>4, <1>5, <1>6, <1>7, <1>8, <1>9, <1>10, <1>11, <1>12,
    <1>13, <1>14, <1>15, <1>16, <1>17, <1>18, <1>19, <1>20, <1>21, <1>22,
    <1>23, <1>24, <1>25, <1>26, <1>27, <1>28 DEF Next, CreateStep, WorkerStep,
    AnswerStep, ResumeStep, DeleteStep

\* FlowsAssigned is preserved.
LEMMA FlowsStep ==
    ASSUME TypeOK, Assigned, [Next]_vars
    PROVE  FlowsAssigned'
<1>1. ASSUME UNCHANGED <<cf, job>> PROVE FlowsAssigned'
  BY <1>1 DEF Assigned, FlowsAssigned
<1>2. CASE Idle \/ UNCHANGED vars
  BY <1>1, <1>2 DEF Idle, vars
<1>3. ASSUME NEW j \in Jobs, NEW n \in Nodes, NEW s \in Names, AcceptSync(j, n, s)
      PROVE  FlowsAssigned'
  BY <1>3 DEF TypeOK, AcceptSync, dbVars, envVars, histVars, CreateFlow,
    NoFlow, FlowsAssigned, Assigned, Placed
<1>4. ASSUME NEW j \in Jobs, NEW n \in Nodes, NEW s \in Names, AcceptAsync(j, n, s)
      PROVE  FlowsAssigned'
  BY <1>4 DEF TypeOK, AcceptAsync, WriteJob, envVars, histVars, JobRow,
    CreateFlow, NoFlow, FlowsAssigned, Assigned, Placed
<1>5. ASSUME NEW j \in Jobs, AddRecord(j)
      PROVE  FlowsAssigned'
  <2> USE <1>5
  <2>1. Goto(j, "sched") \/ Goto(j, "done")
    BY DEF AddRecord
  <2>2. UNCHANGED job /\ cf[j].ph = "row"
    BY DEF AddRecord, dbVars
  <2>3. CASE Goto(j, "sched")
    BY <2>2, <2>3 DEF TypeOK, CreateFlow, Goto, Assigned, FlowsAssigned, Placed
  <2>4. CASE Goto(j, "done")
    BY <2>2, <2>4 DEF TypeOK, CreateFlow, Goto, Assigned, FlowsAssigned, Placed
  <2> QED  BY <2>1, <2>3, <2>4
<1>6. ASSUME NEW j \in Jobs, Refuse(j)
      PROVE  FlowsAssigned'
  BY <1>6 DEF TypeOK, Refuse, SetStatus, Goto, dbVars, envVars, histVars,
    WriteJob, JobRow, CreateFlow, FlowsAssigned, Assigned, Placed
<1>7. ASSUME NEW j \in Jobs, NEW p \in Poders, Place(j, p)
      PROVE  FlowsAssigned'
  BY <1>7 DEF TypeOK, Place, WriteJob, envVars, histVars, JobRow, CreateFlow,
    FlowsAssigned, Assigned, Placed
<1>8. ASSUME NEW j \in Jobs, Upsert(j)
      PROVE  FlowsAssigned'
  BY <1>8 DEF TypeOK, Upsert, Goto, dbVars, envVars, histVars, NameOf,
    CreateFlow, FlowsAssigned, Assigned, Placed
<1>9. ASSUME NEW j \in Jobs, RecordIntent(j)
      PROVE  FlowsAssigned'
  BY <1>9 DEF TypeOK, RecordIntent, WriteJob, Goto, envVars, histVars, JobRow,
    CreateFlow, FlowsAssigned, Assigned, Placed
<1>10. ASSUME NEW j \in Jobs, NEW c \in Calls, Deliver(j, c)
      PROVE  FlowsAssigned'
  BY <1>10 DEF TypeOK, Deliver, Send, dbVars, envVars, NameOf, Active,
    CreateFlow, FlowsAssigned, Assigned, CallsAssigned, Placed
<1>11. ASSUME NEW j \in Jobs, NEW c \in Calls, DeliverToPeer(j, c)
      PROVE  FlowsAssigned'
  BY <1>11 DEF TypeOK, DeliverToPeer, Send, dbVars, envVars, NameOf, Active,
    CreateFlow, FlowsAssigned, Assigned, CallsAssigned, Placed
<1>12. ASSUME NEW j \in Jobs, PeerRefused(j)
      PROVE  FlowsAssigned'
  BY <1>12 DEF TypeOK, PeerRefused, SetStatus, Goto, envVars, histVars,
    WriteJob, JobRow, CreateFlow, FlowsAssigned, Assigned, Placed
<1>13. ASSUME NEW j \in Jobs, PeerTimeout(j)
      PROVE  FlowsAssigned'
  BY <1>13 DEF TypeOK, PeerTimeout, SetStatus, Goto, envVars, histVars,
    WriteJob, JobRow, CreateFlow, FlowsAssigned, Assigned, Placed
<1>14. ASSUME NEW j \in Jobs, NoTunnel(j)
      PROVE  FlowsAssigned'
  BY <1>14 DEF TypeOK, NoTunnel, SetStatus, Goto, envVars, histVars, WriteJob,
    JobRow, CreateFlow, FlowsAssigned, Assigned, Placed
<1>15. ASSUME NEW j \in Jobs, FailRecord(j)
      PROVE  FlowsAssigned'
  BY <1>15 DEF TypeOK, FailRecord, SetState, Goto, dbVars, envVars, histVars,
    NameOf, CreateFlow, FlowsAssigned, Assigned, Placed
<1>16. ASSUME NEW j \in Jobs, Belt(j)
      PROVE  FlowsAssigned'
  BY <1>16 DEF TypeOK, Belt, PendingToError, Goto, dbVars, envVars, histVars,
    NameOf, CreateFlow, FlowsAssigned, Assigned, Placed
<1>17. ASSUME NEW c \in Calls, AckJob(c)
      PROVE  FlowsAssigned'
  BY <1>17, SMTT(20) DEF TypeOK, AckJob, SetStatus, envVars, histVars, WriteJob, JobRow,
    FlowsAssigned, Assigned, CallsAssigned, Placed, Active
<1>18. ASSUME NEW c \in Calls, AckRecord(c)
      PROVE  FlowsAssigned'
  BY <1>18, SMTT(20) DEF TypeOK, AckRecord, SetState, dbVars, envVars, histVars, NameOf,
    CreateFlow, NoCall, FlowsAssigned, Assigned, CallsAssigned, Placed, Active
<1>19. ASSUME NEW c \in Calls, PushFail(c)
      PROVE  FlowsAssigned'
  BY <1>19 DEF TypeOK, PushFail, CallerFails, envVars, histVars, Active,
    SetStatus, dbVars, WriteJob, JobRow, CreateFlow, NoCall, NoResume,
    FlowsAssigned, Assigned, CallsAssigned, Placed
<1>20. ASSUME NEW n \in Nodes, ResumeNoPayload(n)
      PROVE  FlowsAssigned'
  BY <1>20 DEF TypeOK, ResumeNoPayload, SetStatus, envVars, histVars,
    WriteJob, JobRow, FlowsAssigned, Assigned, ResumersAssigned, Placed
<1>21. ASSUME NEW n \in Nodes, ResumeTooOld(n)
      PROVE  FlowsAssigned'
  BY <1>21 DEF TypeOK, ResumeTooOld, SetStatus, envVars, histVars, WriteJob,
    JobRow, NoResume, FlowsAssigned, Assigned, ResumersAssigned, Placed
<1>22. ASSUME NEW n \in Nodes, ResumeSettle(n)
      PROVE  FlowsAssigned'
  BY <1>22 DEF TypeOK, ResumeSettle, SetStatus, envVars, histVars, NameOf,
    WriteJob, JobRow, NoResume, FlowsAssigned, Assigned, ResumersAssigned,
    Placed
<1>23. ASSUME NEW n \in Nodes, ResumeNoWorker(n)
      PROVE  FlowsAssigned'
  BY <1>23 DEF TypeOK, ResumeNoWorker, SetStatus, envVars, histVars, WriteJob,
    JobRow, NoResume, FlowsAssigned, Assigned, ResumersAssigned, Placed
<1>24. ASSUME NEW n \in Nodes, ResumeFinish(n)
      PROVE  FlowsAssigned'
  BY <1>24 DEF TypeOK, ResumeFinish, SetStatus, envVars, histVars, WriteJob,
    JobRow, NoResume, FlowsAssigned, Assigned, ResumersAssigned, Placed
<1>25. ASSUME NEW n \in Nodes, Crash(n)
      PROVE  FlowsAssigned'
  BY <1>25 DEF TypeOK, Crash, dbVars, histVars, CreateFlow, NoFlow, NoCall,
    NoResume, FlowsAssigned, Assigned, CallsAssigned, Placed, Active
<1>26. ASSUME NEW n \in Nodes, Restart(n)
      PROVE  FlowsAssigned'
  BY <1>26 DEF TypeOK, Restart, histVars, JobRow, FlowsAssigned, Assigned,
    Placed
<1>27. ASSUME NEW s \in Names, NEW n \in Nodes, DeleteFailJobs(s, n)
      PROVE  FlowsAssigned'
  BY <1>27 DEF TypeOK, DeleteFailJobs, NameOf, JobRow, FlowsAssigned,
    Assigned, Placed
<1>28. ASSUME NEW j \in Jobs, Age(j) \/ Expire(j)
      PROVE  FlowsAssigned'
  BY <1>1, <1>28 DEF Age, Expire, envVars, histVars
<1>29. ASSUME NEW c \in Calls, WorkerReplace(c) \/ WorkerCreate(c) \/
             WorkerError(c)
      PROVE  FlowsAssigned'
  BY <1>1, <1>29 DEF WorkerReplace, WorkerCreate, WorkerError, dbVars,
    envVars, histVars
<1>30. ASSUME NEW n \in Nodes, NEW j \in Jobs, ResumeList(n, j)
      PROVE  FlowsAssigned'
  BY <1>1, <1>30 DEF ResumeList, envVars, histVars
<1>31. ASSUME NEW n \in Nodes, ResumeNoPayloadRecord(n) \/ ResumeClaim(n) \/
             ResumeSkip(n) \/ ResumePeerFails(n)
      PROVE  FlowsAssigned'
  BY <1>1, <1>31 DEF ResumeNoPayloadRecord, ResumeClaim, ResumeSkip,
    ResumePeerFails, dbVars, envVars, histVars
<1>32. ASSUME NEW n \in Nodes, NEW c \in Calls, ResumeDeliver(n, c) \/
             ResumeDeliverToPeer(n, c)
      PROVE  FlowsAssigned'
  BY <1>1, <1>32 DEF ResumeDeliver, ResumeDeliverToPeer, dbVars, envVars
<1>33. ASSUME NEW s \in Names, DeleteRecord(s) \/ DeleteContainer(s)
      PROVE  FlowsAssigned'
  BY <1>1, <1>33 DEF DeleteRecord, DeleteContainer, dbVars, envVars, histVars
<1>34. ASSUME NEW s \in Names, NEW n \in Nodes, IdleReap(s, n)
      PROVE  FlowsAssigned'
  BY <1>1, <1>34 DEF IdleReap, dbVars, histVars
<1>35. ASSUME NEW p \in Poders, Disconnect(p) \/ OwnerExpire(p) \/
             HeartbeatList(p) \/ Reconcile(p)
      PROVE  FlowsAssigned'
  BY <1>1, <1>35 DEF Disconnect, OwnerExpire, HeartbeatList, Reconcile,
    dbVars, histVars, envVars
<1>36. ASSUME NEW p \in Poders, NEW n \in Nodes, Connect(p, n)
      PROVE  FlowsAssigned'
  BY <1>1, <1>36 DEF Connect, dbVars, histVars
<1> QED
  BY <1>2, <1>3, <1>4, <1>5, <1>6, <1>7, <1>8, <1>9, <1>10, <1>11, <1>12,
    <1>13, <1>14, <1>15, <1>16, <1>17, <1>18, <1>19, <1>20, <1>21, <1>22,
    <1>23, <1>24, <1>25, <1>26, <1>27, <1>28, <1>29, <1>30, <1>31, <1>32,
    <1>33, <1>34, <1>35, <1>36 DEF Next, CreateStep, WorkerStep, AnswerStep,
    ResumeStep, DeleteStep

\* Only a delivery adds a request, and only the worker's two steps get on with
\* one.
LEMMA CallsStep ==
    ASSUME TypeOK, [Next]_vars
    PROVE  CallsKept \/ CallsGrow
<1>1. ASSUME UNCHANGED call PROVE CallsKept \/ CallsGrow
  BY <1>1 DEF CallsKept, Active
<1>2. CASE Idle \/ UNCHANGED vars
  BY <1>1, <1>2 DEF Idle, vars
<1>3. ASSUME NEW c \in Calls, WorkerReplace(c)
      PROVE  CallsKept \/ CallsGrow
  BY <1>3 DEF CallsGrow
<1>4. ASSUME NEW c \in Calls, WorkerError(c)
      PROVE  CallsKept \/ CallsGrow
  BY <1>4 DEF TypeOK, WorkerError, Call, CallsKept, Active, NoCall
<1>5. ASSUME NEW c \in Calls, AckJob(c)
      PROVE  CallsKept \/ CallsGrow
  BY <1>5 DEF TypeOK, AckJob, Call, CallsKept, Active
<1>6. ASSUME NEW c \in Calls, AckRecord(c)
      PROVE  CallsKept \/ CallsGrow
  BY <1>6 DEF TypeOK, AckRecord, Call, CallsKept, Active, NoCall
<1>7. ASSUME NEW c \in Calls, PushFail(c)
      PROVE  CallsKept \/ CallsGrow
  <2> USE <1>7
  <2>1. CASE call' = [call EXCEPT ![c].s = "gone"]
    BY <2>1 DEF TypeOK, Call, CallsKept, Active
  <2>2. CASE call' = [call EXCEPT ![c] = NoCall]
    BY <2>2, SMTT(20) DEF TypeOK, NoCall, CallsKept, Active
  <2> QED  BY <2>1, <2>2 DEF PushFail
<1>8. ASSUME NEW n \in Nodes, Crash(n)
      PROVE  CallsKept \/ CallsGrow
  <2> USE <1>8
  <2> SUFFICES ASSUME NEW c \in Calls, Active(c)'
               PROVE  /\ Active(c)
                      /\ call'[c].job = call[c].job /\ call'[c].poder = call[c].poder
                      /\ call'[c].kind = call[c].kind /\ call'[c].from = call[c].from
                      /\ call'[c].w # "error" => call'[c].w = call[c].w
    BY DEF CallsKept
  <2>1. CASE call'[c] = call[c]
    BY <2>1 DEF Active
  <2>2. CASE call'[c] = NoCall
    BY <2>2 DEF NoCall, Active
  <2>3. CASE call'[c] = [call[c] EXCEPT !.s = "gone"]
    BY <2>3 DEF TypeOK, Call, Active
  <2> QED  BY <2>1, <2>2, <2>3 DEF Crash
<1>9. ASSUME NEW j \in Jobs, NEW n \in Nodes, NEW s \in Names, AcceptSync(j,
             n, s) \/ AcceptAsync(j, n, s)
      PROVE  CallsKept \/ CallsGrow
  BY <1>1, <1>9 DEF AcceptSync, AcceptAsync, dbVars, envVars, histVars
<1>10. ASSUME NEW j \in Jobs, AddRecord(j) \/ Refuse(j) \/ Upsert(j) \/
             RecordIntent(j) \/ PeerRefused(j) \/ PeerTimeout(j) \/ NoTunnel(j) \/
             FailRecord(j) \/ Belt(j) \/ Age(j) \/ Expire(j)
      PROVE  CallsKept \/ CallsGrow
  BY <1>1, <1>10 DEF AddRecord, Refuse, Upsert, RecordIntent, PeerRefused,
    PeerTimeout, NoTunnel, FailRecord, Belt, Age, Expire, dbVars, envVars,
    histVars
<1>11. ASSUME NEW j \in Jobs, NEW p \in Poders, Place(j, p)
      PROVE  CallsKept \/ CallsGrow
  BY <1>1, <1>11 DEF Place, envVars, histVars
<1>12. ASSUME NEW n \in Nodes, NEW j \in Jobs, ResumeList(n, j)
      PROVE  CallsKept \/ CallsGrow
  BY <1>1, <1>12 DEF ResumeList, envVars, histVars
<1>13. ASSUME NEW n \in Nodes, ResumeNoPayload(n) \/ ResumeNoPayloadRecord(n)
             \/ ResumeTooOld(n) \/ ResumeSettle(n) \/ ResumeClaim(n) \/ ResumeSkip(n) \/
             ResumePeerFails(n) \/ ResumeNoWorker(n) \/ ResumeFinish(n) \/ Restart(n)
      PROVE  CallsKept \/ CallsGrow
  BY <1>1, <1>13 DEF ResumeNoPayload, ResumeNoPayloadRecord, ResumeTooOld,
    ResumeSettle, ResumeClaim, ResumeSkip, ResumePeerFails, ResumeNoWorker,
    ResumeFinish, Restart, envVars, histVars, dbVars
<1>14. ASSUME NEW s \in Names, DeleteRecord(s) \/ DeleteContainer(s)
      PROVE  CallsKept \/ CallsGrow
  BY <1>1, <1>14 DEF DeleteRecord, DeleteContainer, dbVars, envVars, histVars
<1>15. ASSUME NEW s \in Names, NEW n \in Nodes, DeleteFailJobs(s, n) \/
             IdleReap(s, n)
      PROVE  CallsKept \/ CallsGrow
  BY <1>1, <1>15 DEF DeleteFailJobs, IdleReap, dbVars, histVars
<1>16. ASSUME NEW p \in Poders, Disconnect(p) \/ OwnerExpire(p) \/
             HeartbeatList(p) \/ Reconcile(p)
      PROVE  CallsKept \/ CallsGrow
  BY <1>1, <1>16 DEF Disconnect, OwnerExpire, HeartbeatList, Reconcile,
    dbVars, histVars, envVars
<1>17. ASSUME NEW p \in Poders, NEW n \in Nodes, Connect(p, n)
      PROVE  CallsKept \/ CallsGrow
  BY <1>1, <1>17 DEF Connect, dbVars, histVars
<1> QED
  BY <1>2, <1>3, <1>4, <1>5, <1>6, <1>7, <1>8, <1>9, <1>10, <1>11, <1>12,
    <1>13, <1>14, <1>15, <1>16, <1>17 DEF Next, CreateStep, WorkerStep,
    AnswerStep, ResumeStep, DeleteStep, CallsGrow

\* Only listing a job makes a resumer busy, only a delivery makes it wait, and
\* only the answer lets it finish.
LEMMA ResumersStep ==
    ASSUME TypeOK, [Next]_vars
    PROVE  ResumersKept \/ ResumersMove
<1>1. ASSUME UNCHANGED rs PROVE ResumersKept \/ ResumersMove
  BY <1>1 DEF ResumersKept
<1>2. CASE Idle \/ UNCHANGED vars
  BY <1>1, <1>2 DEF Idle, vars
<1>3. ASSUME NEW c \in Calls, PushFail(c)
      PROVE  ResumersKept \/ ResumersMove
  BY <1>3 DEF TypeOK, PushFail, CallerFails, Resumer, ResumersKept, NoResume
<1>4. ASSUME NEW n \in Nodes, ResumeNoPayload(n)
      PROVE  ResumersKept \/ ResumersMove
  BY <1>4 DEF TypeOK, ResumeNoPayload, Resumer, ResumersKept
<1>5. ASSUME NEW n \in Nodes, ResumeNoPayloadRecord(n)
      PROVE  ResumersKept \/ ResumersMove
  BY <1>5 DEF TypeOK, ResumeNoPayloadRecord, Resumer, ResumersKept, NoResume
<1>6. ASSUME NEW n \in Nodes, ResumeTooOld(n)
      PROVE  ResumersKept \/ ResumersMove
  BY <1>6 DEF TypeOK, ResumeTooOld, Resumer, ResumersKept, NoResume
<1>7. ASSUME NEW n \in Nodes, ResumeSettle(n)
      PROVE  ResumersKept \/ ResumersMove
  BY <1>7 DEF TypeOK, ResumeSettle, Resumer, ResumersKept, NoResume
<1>8. ASSUME NEW n \in Nodes, ResumeSkip(n)
      PROVE  ResumersKept \/ ResumersMove
  BY <1>8 DEF TypeOK, ResumeSkip, Resumer, ResumersKept, NoResume
<1>9. ASSUME NEW n \in Nodes, ResumePeerFails(n)
      PROVE  ResumersKept \/ ResumersMove
  BY <1>9 DEF TypeOK, ResumePeerFails, Resumer, ResumersKept, NoResume
<1>10. ASSUME NEW n \in Nodes, ResumeNoWorker(n)
      PROVE  ResumersKept \/ ResumersMove
  BY <1>10 DEF TypeOK, ResumeNoWorker, Resumer, ResumersKept, NoResume
<1>11. ASSUME NEW n \in Nodes, ResumeFinish(n)
      PROVE  ResumersKept \/ ResumersMove
  BY <1>11 DEF TypeOK, ResumeFinish, Resumer, ResumersKept, NoResume
<1>12. ASSUME NEW n \in Nodes, Crash(n)
      PROVE  ResumersKept \/ ResumersMove
  BY <1>12 DEF TypeOK, Crash, Resumer, ResumersKept, NoResume
<1>13. ASSUME NEW j \in Jobs, NEW n \in Nodes, NEW s \in Names, AcceptSync(j,
             n, s) \/ AcceptAsync(j, n, s)
      PROVE  ResumersKept \/ ResumersMove
  BY <1>1, <1>13 DEF AcceptSync, AcceptAsync, dbVars, envVars, histVars
<1>14. ASSUME NEW j \in Jobs, AddRecord(j) \/ Refuse(j) \/ Upsert(j) \/
             RecordIntent(j) \/ PeerRefused(j) \/ PeerTimeout(j) \/ NoTunnel(j) \/
             FailRecord(j) \/ Belt(j) \/ Age(j) \/ Expire(j)
      PROVE  ResumersKept \/ ResumersMove
  BY <1>1, <1>14 DEF AddRecord, Refuse, Upsert, RecordIntent, PeerRefused,
    PeerTimeout, NoTunnel, FailRecord, Belt, Age, Expire, dbVars, envVars,
    histVars
<1>15. ASSUME NEW j \in Jobs, NEW p \in Poders, Place(j, p)
      PROVE  ResumersKept \/ ResumersMove
  BY <1>1, <1>15 DEF Place, envVars, histVars
<1>16. ASSUME NEW j \in Jobs, NEW c \in Calls, Deliver(j, c) \/
             DeliverToPeer(j, c)
      PROVE  ResumersKept \/ ResumersMove
  BY <1>1, <1>16 DEF Deliver, DeliverToPeer, dbVars, envVars
<1>17. ASSUME NEW c \in Calls, WorkerReplace(c) \/ WorkerCreate(c) \/
             WorkerError(c) \/ AckJob(c)
      PROVE  ResumersKept \/ ResumersMove
  BY <1>1, <1>17 DEF WorkerReplace, WorkerCreate, WorkerError, AckJob, dbVars,
    envVars, histVars
<1>18. ASSUME NEW n \in Nodes, Restart(n)
      PROVE  ResumersKept \/ ResumersMove
  BY <1>1, <1>18 DEF Restart, histVars
<1>19. ASSUME NEW s \in Names, DeleteRecord(s) \/ DeleteContainer(s)
      PROVE  ResumersKept \/ ResumersMove
  BY <1>1, <1>19 DEF DeleteRecord, DeleteContainer, dbVars, envVars, histVars
<1>20. ASSUME NEW s \in Names, NEW n \in Nodes, DeleteFailJobs(s, n) \/
             IdleReap(s, n)
      PROVE  ResumersKept \/ ResumersMove
  BY <1>1, <1>20 DEF DeleteFailJobs, IdleReap, dbVars, histVars
<1>21. ASSUME NEW p \in Poders, Disconnect(p) \/ OwnerExpire(p) \/
             HeartbeatList(p) \/ Reconcile(p)
      PROVE  ResumersKept \/ ResumersMove
  BY <1>1, <1>21 DEF Disconnect, OwnerExpire, HeartbeatList, Reconcile,
    dbVars, histVars, envVars
<1>22. ASSUME NEW p \in Poders, NEW n \in Nodes, Connect(p, n)
      PROVE  ResumersKept \/ ResumersMove
  BY <1>1, <1>22 DEF Connect, dbVars, histVars
<1> QED
  BY <1>2, <1>3, <1>4, <1>5, <1>6, <1>7, <1>8, <1>9, <1>10, <1>11, <1>12,
    <1>13, <1>14, <1>15, <1>16, <1>17, <1>18, <1>19, <1>20, <1>21, <1>22 DEF
    Next, CreateStep, WorkerStep, AnswerStep, ResumeStep, DeleteStep,
    ResumersMove

\* CallsAssigned is preserved.
LEMMA CallsAssignedStep ==
    ASSUME TypeOK, Assigned, NamesStay, CallsKept \/ CallsGrow
    PROVE  CallsAssigned'
<1>1. CASE CallsKept
  BY <1>1 DEF Assigned, CallsAssigned, CallsKept, NamesStay, Active
<1>2. ASSUME NEW c \in Calls, WorkerReplace(c) \/ WorkerCreate(c)
      PROVE  CallsAssigned'
  <2>1. /\ \A d \in Calls \ {c} : call'[d] = call[d]
        /\ Active(c)' => call'[c].job = call[c].job /\ call'[c].poder = call[c].poder
        /\ Active(c) /\ UNCHANGED cf
    BY <1>2 DEF WorkerReplace, WorkerCreate, TypeOK, Call, NoCall, Active
  <2> QED  BY <2>1 DEF Assigned, CallsAssigned, Active
<1>3. ASSUME NEW c \in Calls, NEW j \in Jobs, Deliver(j, c) \/ DeliverToPeer(j, c)
      PROVE  CallsAssigned'
  <2>1. cf[j].ph # "idle" /\ cf[j].poder \in Poders
    BY <1>3 DEF Deliver, DeliverToPeer, Assigned, FlowsAssigned, Placed
  <2>2. Sent(c, "create", j, cf[j].poder, cf[j].node)
    BY <1>3 DEF Deliver, DeliverToPeer, Send, Sent, TypeOK
  <2> QED
    BY <2>1, <2>2 DEF Sent, Assigned, CallsAssigned, NamesStay, Active
<1>4. ASSUME NEW c \in Calls, NEW n \in Nodes,
             ResumeDeliver(n, c) \/ ResumeDeliverToPeer(n, c)
      PROVE  CallsAssigned'
  <2>1. rs[n].job \in Jobs /\ cf[rs[n].job].ph # "idle"
    BY <1>4 DEF ResumeDeliver, ResumeDeliverToPeer, Assigned, ResumersAssigned
  <2>2. rs[n].poder \in Poders
    BY <1>4, ResumerFacts DEF ResumeDeliver, ResumeDeliverToPeer, TypeOK
  <2>3. Sent(c, "resume", rs[n].job, rs[n].poder, n)
    BY <1>4 DEF ResumeDeliver, ResumeDeliverToPeer, Send, Sent, TypeOK
  <2> QED
    BY <2>1, <2>2, <2>3 DEF Sent, Assigned, CallsAssigned, NamesStay, Active
<1> QED  BY <1>1, <1>2, <1>3, <1>4 DEF CallsGrow

\* CallsMade is preserved.
LEMMA CallsMadeStep ==
    ASSUME TypeOK, Assigned, Evidence, NamesStay, made \subseteq made',
           CallsKept \/ CallsGrow
    PROVE  CallsMade'
<1> USE DEF Evidence, CallsMade, NameOf
<1>1. CASE CallsKept
  BY <1>1 DEF Assigned, CallsAssigned, CallsKept, NamesStay, Active
<1>2. ASSUME NEW c \in Calls, WorkerCreate(c)
      PROVE  CallsMade'
  <2>1. /\ \A d \in Calls \ {c} : call'[d] = call[d]
        /\ call'[c].w = "created" => call'[c].job = call[c].job
        /\ Active(c) /\ UNCHANGED cf /\ cf[call[c].job].name \in made'
    BY <1>2 DEF WorkerCreate, TypeOK, Call, NoCall, Active
  <2> QED  BY <2>1
<1>3. ASSUME NEW c \in Calls, NEW k, NEW j, NEW p, NEW n, Sent(c, k, j, p, n)
      PROVE  CallsMade'
  BY <1>3 DEF Sent, Assigned, CallsAssigned, NamesStay, Active
<1>4. ASSUME NEW c \in Calls, NEW j \in Jobs, Deliver(j, c) \/ DeliverToPeer(j, c)
      PROVE  CallsMade'
  BY <1>3, <1>4 DEF Deliver, DeliverToPeer, Send, Sent, TypeOK
<1>5. ASSUME NEW c \in Calls, NEW n \in Nodes,
             ResumeDeliver(n, c) \/ ResumeDeliverToPeer(n, c)
      PROVE  CallsMade'
  BY <1>3, <1>5, SMTT(20) DEF ResumeDeliver, ResumeDeliverToPeer, Send, Sent, TypeOK
<1>6. ASSUME NEW c \in Calls, WorkerReplace(c)
      PROVE  CallsMade'
  <2>1. call'[c].w = "cleared" /\ UNCHANGED cf /\ \A d \in Calls \ {c} : call'[d] = call[d]
    BY <1>6 DEF WorkerReplace, TypeOK, Call
  <2> QED  BY <2>1
<1> QED  BY <1>1, <1>2, <1>4, <1>5, <1>6 DEF CallsGrow

\* ResumersAssigned is preserved.
LEMMA ResumersAssignedStep ==
    ASSUME TypeOK, Assigned, NamesStay, ResumersKept \/ ResumersMove
    PROVE  ResumersAssigned'
<1> USE DEF Assigned, ResumersAssigned
<1>1. CASE ResumersKept
  BY <1>1 DEF ResumersKept, NamesStay
<1>2. ASSUME NEW n \in Nodes, NEW j \in Jobs, ResumeList(n, j)
      PROVE  ResumersAssigned'
  <2>1. cf[j].ph # "idle"
    BY <1>2 DEF ResumeList, FlowsAssigned
  <2> QED  BY <1>2, <2>1 DEF ResumeList, TypeOK, NamesStay
<1>3. ASSUME NEW c \in Calls, AckRecord(c)
      PROVE  ResumersAssigned'
  <2>1. \A n \in Nodes : rs'[n].job = rs[n].job /\ (rs'[n].ph # "idle" => rs[n].ph # "idle")
    BY <1>3 DEF AckRecord, ResumeWaits, TypeOK, Resumer
  <2> QED  BY <2>1 DEF NamesStay
<1>4. ASSUME NEW n \in Nodes, NEW c \in Calls,
             ResumeDeliver(n, c) \/ ResumeDeliverToPeer(n, c)
      PROVE  ResumersAssigned'
  <2>1. \A m \in Nodes : rs'[m].job = rs[m].job /\ (rs'[m].ph # "idle" => rs[m].ph # "idle")
    BY <1>4, SMTT(20) DEF ResumeDeliver, ResumeDeliverToPeer, TypeOK, Resumer
  <2> QED  BY <2>1 DEF NamesStay
<1>5. ASSUME NEW n \in Nodes, ResumeClaim(n)
      PROVE  ResumersAssigned'
  BY <1>5 DEF ResumeClaim, TypeOK, Resumer, NamesStay
<1> QED  BY <1>1, <1>2, <1>3, <1>4, <1>5 DEF ResumersMove

\* ResumersMade is preserved.
LEMMA ResumersMadeStep ==
    ASSUME TypeOK, Assigned, Evidence, NamesStay, made \subseteq made',
           ResumersKept \/ ResumersMove
    PROVE  ResumersMade'
<1> USE DEF Evidence, ResumersMade, NameOf
<1>1. CASE ResumersKept
  BY <1>1 DEF Assigned, ResumersAssigned, ResumersKept, NamesStay
<1>2. ASSUME NEW n \in Nodes, NEW j \in Jobs, ResumeList(n, j)
      PROVE  ResumersMade'
  BY <1>2 DEF ResumeList, TypeOK, Assigned, ResumersAssigned, NamesStay
<1>3. ASSUME NEW c \in Calls, AckRecord(c)
      PROVE  ResumersMade'
  <2>1. cf[call[c].job].name \in made /\ call[c].job \in Jobs
    BY <1>3 DEF AckRecord, CallsMade, Assigned, CallsAssigned, Active
  <2>2. \A n \in Nodes : rs'[n].ph = "finish" =>
           rs'[n].job = rs[n].job /\ (rs[n].ph = "finish" \/ rs[n].job = call[c].job)
    BY <1>3 DEF AckRecord, ResumeWaits, AnswersMatch, Active, TypeOK, Resumer
  <2>3. \A n \in Nodes : rs'[n].ph = "finish" => rs[n].ph # "idle"
    BY <1>3 DEF AckRecord, ResumeWaits, TypeOK, Resumer
  <2> QED
    BY <2>1, <2>2, <2>3 DEF Assigned, CallsAssigned, ResumersAssigned, NamesStay
<1>4. ASSUME NEW n \in Nodes, NEW c \in Calls,
             ResumeDeliver(n, c) \/ ResumeDeliverToPeer(n, c)
      PROVE  ResumersMade'
  <2>1. \A m \in Nodes : rs'[m].ph = "finish" =>
           rs[m].ph = "finish" /\ rs'[m].job = rs[m].job
    BY <1>4 DEF ResumeDeliver, ResumeDeliverToPeer, TypeOK, Resumer
  <2> QED  BY <2>1 DEF Assigned, ResumersAssigned, NamesStay
<1>5. ASSUME NEW n \in Nodes, ResumeClaim(n)
      PROVE  ResumersMade'
  BY <1>5 DEF ResumeClaim, TypeOK, Resumer, Assigned, ResumersAssigned, NamesStay
<1> QED  BY <1>1, <1>2, <1>3, <1>4, <1>5 DEF ResumersMove

\* AnswersMatch is preserved: a slot is given to a resumer's request only when
\* that resumer waits for no other.
LEMMA AnswersStep ==
    ASSUME TypeOK, AnswersMatch, CallsKept \/ CallsGrow, ResumersKept \/ ResumersMove
    PROVE  AnswersMatch'
<1>1. CASE CallsKept /\ ResumersKept
  BY <1>1 DEF AnswersMatch, CallsKept, ResumersKept, Active
<1>2. ASSUME NEW c \in Calls, WorkerReplace(c) \/ WorkerCreate(c)
      PROVE  AnswersMatch'
  <2>1. /\ \A d \in Calls \ {c} : call'[d] = call[d]
        /\ Active(c)' => /\ call'[c].job = call[c].job
                         /\ call'[c].kind = call[c].kind /\ call'[c].from = call[c].from
        /\ Active(c) /\ UNCHANGED rs
    BY <1>2 DEF WorkerReplace, WorkerCreate, TypeOK, Call, NoCall, Active
  <2> QED  BY <2>1 DEF AnswersMatch, Active
<1>3. ASSUME NEW c \in Calls, NEW j \in Jobs, Deliver(j, c) \/ DeliverToPeer(j, c)
      PROVE  AnswersMatch'
  <2>1. Sent(c, "create", j, cf[j].poder, cf[j].node) /\ UNCHANGED rs
    BY <1>3 DEF Deliver, DeliverToPeer, Send, Sent, TypeOK
  <2> QED  BY <2>1 DEF Sent, AnswersMatch, Active
<1>4. ASSUME NEW n \in Nodes, NEW c \in Calls,
             ResumeDeliver(n, c) \/ ResumeDeliverToPeer(n, c)
      PROVE  AnswersMatch'
  <2>1. Sent(c, "resume", rs[n].job, rs[n].poder, n)
    BY <1>4 DEF ResumeDeliver, ResumeDeliverToPeer, Send, Sent, TypeOK
  <2>2. /\ rs'[n].job = rs[n].job /\ rs'[n].call = c
        /\ \A m \in Nodes \ {n} : rs'[m] = rs[m]
    BY <1>4 DEF ResumeDeliver, ResumeDeliverToPeer, TypeOK, Resumer
  <2> QED  BY <2>1, <2>2 DEF Sent, AnswersMatch, Active
<1>5. ASSUME NEW n \in Nodes, NEW j \in Jobs, ResumeList(n, j)
      PROVE  AnswersMatch'
  BY <1>5 DEF ResumeList, TypeOK, AnswersMatch, Active
<1>6. ASSUME NEW c \in Calls, AckRecord(c)
      PROVE  AnswersMatch'
  <2>1. \A d \in Calls : Active(d)' => call'[d] = call[d] /\ Active(d)
    BY <1>6 DEF AckRecord, TypeOK, NoCall, Active
  <2>2. \A n \in Nodes : rs'[n].ph \in {"push", "peer"} => rs'[n] = rs[n]
    BY <1>6 DEF AckRecord, TypeOK, Resumer
  <2> QED  BY <2>1, <2>2 DEF AnswersMatch, Active
<1>7. ASSUME NEW n \in Nodes, ResumeClaim(n)
      PROVE  AnswersMatch'
  BY <1>7 DEF ResumeClaim, TypeOK, Resumer, AnswersMatch, Active
<1> QED
  BY <1>1, <1>2, <1>3, <1>4, <1>5, <1>6, <1>7 DEF CallsGrow, ResumersMove

\* made only grows.
LEMMA MadeStep ==
    ASSUME TypeOK, [Next]_vars
    PROVE  made \subseteq made'
<1>1. ASSUME UNCHANGED made PROVE made \subseteq made'
  BY <1>1
<1>2. CASE Idle \/ UNCHANGED vars
  BY <1>1, <1>2 DEF Idle, vars
<1>3. ASSUME NEW c \in Calls, WorkerCreate(c)
      PROVE  made \subseteq made'
  BY <1>3 DEF WorkerCreate
<1>4. ASSUME NEW j \in Jobs, NEW n \in Nodes, NEW s \in Names, AcceptSync(j,
             n, s) \/ AcceptAsync(j, n, s)
      PROVE  made \subseteq made'
  BY <1>1, <1>4 DEF AcceptSync, AcceptAsync, dbVars, envVars, histVars
<1>5. ASSUME NEW j \in Jobs, AddRecord(j) \/ Refuse(j) \/ Upsert(j) \/
             RecordIntent(j) \/ PeerRefused(j) \/ PeerTimeout(j) \/ NoTunnel(j) \/
             FailRecord(j) \/ Belt(j) \/ Age(j) \/ Expire(j)
      PROVE  made \subseteq made'
  BY <1>1, <1>5 DEF AddRecord, Refuse, Upsert, RecordIntent, PeerRefused,
    PeerTimeout, NoTunnel, FailRecord, Belt, Age, Expire, dbVars, envVars,
    histVars
<1>6. ASSUME NEW j \in Jobs, NEW p \in Poders, Place(j, p)
      PROVE  made \subseteq made'
  BY <1>1, <1>6 DEF Place, envVars, histVars
<1>7. ASSUME NEW j \in Jobs, NEW c \in Calls, Deliver(j, c) \/
             DeliverToPeer(j, c)
      PROVE  made \subseteq made'
  BY <1>1, <1>7 DEF Deliver, DeliverToPeer, dbVars, envVars
<1>8. ASSUME NEW c \in Calls, WorkerReplace(c) \/ WorkerError(c) \/ AckJob(c)
             \/ AckRecord(c) \/ PushFail(c)
      PROVE  made \subseteq made'
  BY <1>1, <1>8 DEF WorkerReplace, WorkerError, AckJob, AckRecord, PushFail,
    dbVars, envVars, histVars
<1>9. ASSUME NEW n \in Nodes, NEW j \in Jobs, ResumeList(n, j)
      PROVE  made \subseteq made'
  BY <1>1, <1>9, SMTT(20) DEF ResumeList, envVars, histVars
<1>10. ASSUME NEW n \in Nodes, ResumeNoPayload(n) \/ ResumeNoPayloadRecord(n)
             \/ ResumeTooOld(n) \/ ResumeSettle(n) \/ ResumeClaim(n) \/ ResumeSkip(n) \/
             ResumePeerFails(n) \/ ResumeNoWorker(n) \/ ResumeFinish(n) \/ Crash(n) \/
             Restart(n)
      PROVE  made \subseteq made'
  BY <1>1, <1>10 DEF ResumeNoPayload, ResumeNoPayloadRecord, ResumeTooOld,
    ResumeSettle, ResumeClaim, ResumeSkip, ResumePeerFails, ResumeNoWorker,
    ResumeFinish, Crash, Restart, envVars, histVars, dbVars
<1>11. ASSUME NEW n \in Nodes, NEW c \in Calls, ResumeDeliver(n, c) \/
             ResumeDeliverToPeer(n, c)
      PROVE  made \subseteq made'
  BY <1>1, <1>11 DEF ResumeDeliver, ResumeDeliverToPeer, dbVars, envVars
<1>12. ASSUME NEW s \in Names, DeleteRecord(s) \/ DeleteContainer(s)
      PROVE  made \subseteq made'
  BY <1>1, <1>12 DEF DeleteRecord, DeleteContainer, dbVars, envVars, histVars
<1>13. ASSUME NEW s \in Names, NEW n \in Nodes, DeleteFailJobs(s, n) \/
             IdleReap(s, n)
      PROVE  made \subseteq made'
  BY <1>1, <1>13 DEF DeleteFailJobs, IdleReap, dbVars, histVars
<1>14. ASSUME NEW p \in Poders, Disconnect(p) \/ OwnerExpire(p) \/
             HeartbeatList(p) \/ Reconcile(p)
      PROVE  made \subseteq made'
  BY <1>1, <1>14 DEF Disconnect, OwnerExpire, HeartbeatList, Reconcile,
    dbVars, histVars, envVars
<1>15. ASSUME NEW p \in Poders, NEW n \in Nodes, Connect(p, n)
      PROVE  made \subseteq made'
  BY <1>1, <1>15 DEF Connect, dbVars, histVars
<1> QED
  BY <1>2, <1>3, <1>4, <1>5, <1>6, <1>7, <1>8, <1>9, <1>10, <1>11, <1>12,
    <1>13, <1>14, <1>15 DEF Next, CreateStep, WorkerStep, AnswerStep,
    ResumeStep, DeleteStep

\* JobsMade is preserved: the writers of COMPLETED are AckJob, ResumeSettle and
\* ResumeFinish.
LEMMA JobsMadeStep ==
    ASSUME TypeOK, Assigned, Evidence, NamesStay, [Next]_vars
    PROVE  JobsMade'
<1>1. ASSUME UNCHANGED <<job, made>> PROVE JobsMade'
  BY <1>1 DEF Evidence, JobsMade, NameOf, NamesStay, Assigned, FlowsAssigned
<1>2. CASE Idle \/ UNCHANGED vars
  BY <1>1, <1>2 DEF Idle, vars
<1>3. ASSUME NEW j \in Jobs, NEW n \in Nodes, NEW s \in Names, AcceptAsync(j, n, s)
      PROVE  JobsMade'
  BY <1>3 DEF TypeOK, AcceptAsync, WriteJob, envVars, histVars, JobRow,
    CreateFlow, NoFlow, JobsMade, NamesStay, Assigned, FlowsAssigned,
    Evidence, Placed, NameOf
<1>4. ASSUME NEW j \in Jobs, Refuse(j)
      PROVE  JobsMade'
  BY <1>4 DEF TypeOK, Refuse, SetStatus, Goto, dbVars, envVars, histVars,
    WriteJob, JobRow, CreateFlow, JobsMade, NamesStay, Assigned,
    FlowsAssigned, Evidence, Placed, NameOf
<1>5. ASSUME NEW j \in Jobs, NEW p \in Poders, Place(j, p)
      PROVE  JobsMade'
  <2> USE <1>5
  <2>1. job'[j].status # "COMPLETED" /\ \A k \in Jobs \ {j} : job'[k] = job[k]
    <3>1. CASE cf[j].async
      <4>1. job' = [job EXCEPT ![j] = [status |-> "IN_PROGRESS", poder |-> p,
                                       req |-> job[j].req]]
        BY <3>1 DEF Place, WriteJob
      <4>2. job \in [Jobs -> JobRow]
        BY DEF TypeOK
      <4> QED  BY <4>1, <4>2 DEF JobRow
    <3>2. CASE ~cf[j].async
      BY <3>2 DEF TypeOK, Place, WriteJob
    <3> QED  BY <3>1, <3>2
  <2>2. UNCHANGED made
    BY DEF Place, histVars
  <2> QED
    BY <2>1, <2>2 DEF Evidence, JobsMade, NameOf, NamesStay, Assigned, FlowsAssigned
<1>6. ASSUME NEW j \in Jobs, RecordIntent(j)
      PROVE  JobsMade'
  BY <1>6 DEF TypeOK, RecordIntent, WriteJob, Goto, envVars, histVars, JobRow,
    CreateFlow, JobsMade, NamesStay, Assigned, FlowsAssigned, Evidence,
    Placed, NameOf
<1>7. ASSUME NEW j \in Jobs, PeerRefused(j)
      PROVE  JobsMade'
  BY <1>7 DEF TypeOK, PeerRefused, SetStatus, Goto, envVars, histVars,
    WriteJob, JobRow, CreateFlow, JobsMade, NamesStay, Assigned,
    FlowsAssigned, Evidence, Placed, NameOf
<1>8. ASSUME NEW j \in Jobs, PeerTimeout(j)
      PROVE  JobsMade'
  BY <1>8 DEF TypeOK, PeerTimeout, SetStatus, Goto, envVars, histVars,
    WriteJob, JobRow, CreateFlow, JobsMade, NamesStay, Assigned,
    FlowsAssigned, Evidence, Placed, NameOf
<1>9. ASSUME NEW j \in Jobs, NoTunnel(j)
      PROVE  JobsMade'
  BY <1>9 DEF TypeOK, NoTunnel, SetStatus, Goto, envVars, histVars, WriteJob,
    JobRow, CreateFlow, JobsMade, NamesStay, Assigned, FlowsAssigned,
    Evidence, Placed, NameOf
<1>10. ASSUME NEW c \in Calls, WorkerCreate(c)
      PROVE  JobsMade'
  BY <1>10 DEF TypeOK, WorkerCreate, dbVars, envVars, NameOf, NoCall,
    JobsMade, NamesStay, Assigned, FlowsAssigned, CallsAssigned, Evidence,
    CallsMade, Placed, Active
<1>11. ASSUME NEW c \in Calls, AckJob(c)
      PROVE  JobsMade'
  BY <1>11 DEF TypeOK, AckJob, SetStatus, envVars, histVars, WriteJob, JobRow,
    JobsMade, NamesStay, Assigned, FlowsAssigned, CallsAssigned, Evidence,
    CallsMade, Placed, Active, NameOf
<1>12. ASSUME NEW c \in Calls, PushFail(c)
      PROVE  JobsMade'
  <2> USE <1>12
  <2>1. \A k \in Jobs : job'[k].status = "COMPLETED" => job[k].status = "COMPLETED"
    BY SMTT(20) DEF TypeOK, JobRow, PushFail, CallerFails, SetStatus, WriteJob, dbVars
  <2>2. UNCHANGED made
    BY DEF PushFail, histVars
  <2> QED
    BY <2>1, <2>2 DEF Evidence, JobsMade, NameOf, NamesStay, Assigned, FlowsAssigned
<1>13. ASSUME NEW n \in Nodes, ResumeNoPayload(n)
      PROVE  JobsMade'
  BY <1>13 DEF TypeOK, ResumeNoPayload, SetStatus, envVars, histVars,
    WriteJob, JobRow, JobsMade, NamesStay, Assigned, FlowsAssigned,
    ResumersAssigned, Evidence, ResumersMade, Placed, NameOf
<1>14. ASSUME NEW n \in Nodes, ResumeTooOld(n)
      PROVE  JobsMade'
  BY <1>14 DEF TypeOK, ResumeTooOld, SetStatus, envVars, histVars, WriteJob,
    JobRow, NoResume, JobsMade, NamesStay, Assigned, FlowsAssigned,
    ResumersAssigned, Evidence, ResumersMade, Placed, NameOf
<1>15. ASSUME NEW n \in Nodes, ResumeSettle(n)
      PROVE  JobsMade'
  BY <1>15 DEF TypeOK, ResumeSettle, SetStatus, envVars, histVars, NameOf,
    WriteJob, JobRow, NoResume, JobsMade, NamesStay, Assigned, FlowsAssigned,
    ResumersAssigned, Evidence, RecordsMade, ResumersMade, Placed
<1>16. ASSUME NEW n \in Nodes, ResumeNoWorker(n)
      PROVE  JobsMade'
  BY <1>16 DEF TypeOK, ResumeNoWorker, SetStatus, envVars, histVars, WriteJob,
    JobRow, NoResume, JobsMade, NamesStay, Assigned, FlowsAssigned,
    ResumersAssigned, Evidence, ResumersMade, Placed, NameOf
<1>17. ASSUME NEW n \in Nodes, ResumeFinish(n)
      PROVE  JobsMade'
  BY <1>17 DEF TypeOK, ResumeFinish, SetStatus, envVars, histVars, WriteJob,
    JobRow, NoResume, JobsMade, NamesStay, Assigned, FlowsAssigned,
    ResumersAssigned, Evidence, ResumersMade, Placed, NameOf
<1>18. ASSUME NEW n \in Nodes, Restart(n)
      PROVE  JobsMade'
  BY <1>18 DEF TypeOK, Restart, histVars, JobRow, JobsMade, NamesStay,
    Assigned, FlowsAssigned, Evidence, Placed, NameOf
<1>19. ASSUME NEW s \in Names, NEW n \in Nodes, DeleteFailJobs(s, n)
      PROVE  JobsMade'
  BY <1>19 DEF TypeOK, DeleteFailJobs, NameOf, JobRow, JobsMade, NamesStay,
    Assigned, FlowsAssigned, Evidence, Placed
<1>20. ASSUME NEW j \in Jobs, NEW n \in Nodes, NEW s \in Names, AcceptSync(j,
             n, s)
      PROVE  JobsMade'
  BY <1>1, <1>20 DEF AcceptSync, dbVars, envVars, histVars
<1>21. ASSUME NEW j \in Jobs, AddRecord(j) \/ Upsert(j) \/ FailRecord(j) \/
             Belt(j) \/ Age(j) \/ Expire(j)
      PROVE  JobsMade'
  BY <1>1, <1>21 DEF AddRecord, Upsert, FailRecord, Belt, Age, Expire, dbVars,
    envVars, histVars
<1>22. ASSUME NEW j \in Jobs, NEW c \in Calls, Deliver(j, c) \/
             DeliverToPeer(j, c)
      PROVE  JobsMade'
  BY <1>1, <1>22 DEF Deliver, DeliverToPeer, dbVars, envVars
<1>23. ASSUME NEW c \in Calls, WorkerReplace(c) \/ WorkerError(c) \/
             AckRecord(c)
      PROVE  JobsMade'
  BY <1>1, <1>23 DEF WorkerReplace, WorkerError, AckRecord, dbVars, envVars,
    histVars
<1>24. ASSUME NEW n \in Nodes, NEW j \in Jobs, ResumeList(n, j)
      PROVE  JobsMade'
  BY <1>1, <1>24, SMTT(20) DEF ResumeList, envVars, histVars
<1>25. ASSUME NEW n \in Nodes, ResumeNoPayloadRecord(n) \/ ResumeClaim(n) \/
             ResumeSkip(n) \/ ResumePeerFails(n) \/ Crash(n)
      PROVE  JobsMade'
  BY <1>1, <1>25 DEF ResumeNoPayloadRecord, ResumeClaim, ResumeSkip,
    ResumePeerFails, Crash, dbVars, envVars, histVars
<1>26. ASSUME NEW n \in Nodes, NEW c \in Calls, ResumeDeliver(n, c) \/
             ResumeDeliverToPeer(n, c)
      PROVE  JobsMade'
  BY <1>1, <1>26 DEF ResumeDeliver, ResumeDeliverToPeer, dbVars, envVars
<1>27. ASSUME NEW s \in Names, DeleteRecord(s) \/ DeleteContainer(s)
      PROVE  JobsMade'
  BY <1>1, <1>27 DEF DeleteRecord, DeleteContainer, dbVars, envVars, histVars
<1>28. ASSUME NEW s \in Names, NEW n \in Nodes, IdleReap(s, n)
      PROVE  JobsMade'
  BY <1>1, <1>28 DEF IdleReap, dbVars, histVars
<1>29. ASSUME NEW p \in Poders, Disconnect(p) \/ OwnerExpire(p) \/
             HeartbeatList(p) \/ Reconcile(p)
      PROVE  JobsMade'
  BY <1>1, <1>29 DEF Disconnect, OwnerExpire, HeartbeatList, Reconcile,
    dbVars, histVars, envVars
<1>30. ASSUME NEW p \in Poders, NEW n \in Nodes, Connect(p, n)
      PROVE  JobsMade'
  BY <1>1, <1>30 DEF Connect, dbVars, histVars
<1> QED
  BY <1>2, <1>3, <1>4, <1>5, <1>6, <1>7, <1>8, <1>9, <1>10, <1>11, <1>12,
    <1>13, <1>14, <1>15, <1>16, <1>17, <1>18, <1>19, <1>20, <1>21, <1>22,
    <1>23, <1>24, <1>25, <1>26, <1>27, <1>28, <1>29, <1>30 DEF Next,
    CreateStep, WorkerStep, AnswerStep, ResumeStep, DeleteStep

\* RecordsMade is preserved: the writers of RUNNING are AckRecord and Reconcile.
LEMMA RecordsMadeStep ==
    ASSUME TypeOK, Assigned, Evidence, [Next]_vars
    PROVE  RecordsMade'
<1>1. ASSUME UNCHANGED <<sb, made>> PROVE RecordsMade'
  BY <1>1 DEF Evidence, RecordsMade
<1>2. CASE Idle \/ UNCHANGED vars
  BY <1>1, <1>2 DEF Idle, vars
<1>3. ASSUME NEW j \in Jobs, AddRecord(j)
      PROVE  RecordsMade'
  <2> USE <1>3
  <2>1. \A s \in Names : sb'[s].state = "RUNNING" => sb[s].state = "RUNNING"
    BY DEF TypeOK, AddRecord
  <2> QED  BY <2>1 DEF AddRecord, histVars, Evidence, RecordsMade
<1>4. ASSUME NEW j \in Jobs, Upsert(j)
      PROVE  RecordsMade'
  BY <1>4 DEF TypeOK, Upsert, Goto, dbVars, envVars, histVars, NameOf, SbRow,
    RecordsMade, Assigned, Evidence
<1>5. ASSUME NEW j \in Jobs, FailRecord(j)
      PROVE  RecordsMade'
  BY <1>5 DEF TypeOK, FailRecord, SetState, Goto, dbVars, envVars, histVars,
    NameOf, SbRow, RecordsMade, Assigned, Evidence
<1>6. ASSUME NEW j \in Jobs, Belt(j)
      PROVE  RecordsMade'
  BY <1>6 DEF TypeOK, Belt, PendingToError, Goto, dbVars, envVars, histVars,
    NameOf, SbRow, RecordsMade, Assigned, Evidence
<1>7. ASSUME NEW c \in Calls, WorkerCreate(c)
      PROVE  RecordsMade'
  BY <1>7, SMTT(20) DEF TypeOK, WorkerCreate, dbVars, envVars, NameOf, NoCall,
    RecordsMade, Assigned, CallsAssigned, Evidence, CallsMade, Active
<1>8. ASSUME NEW c \in Calls, AckRecord(c)
      PROVE  RecordsMade'
  BY <1>8 DEF TypeOK, AckRecord, SetState, dbVars, envVars, histVars, NameOf,
    SbRow, NoCall, RecordsMade, Assigned, CallsAssigned, Evidence, CallsMade,
    Active
<1>9. ASSUME NEW n \in Nodes, ResumeNoPayloadRecord(n)
      PROVE  RecordsMade'
  BY <1>9 DEF TypeOK, ResumeNoPayloadRecord, PendingToError, dbVars, envVars,
    histVars, NameOf, SbRow, NoResume, RecordsMade, Assigned,
    ResumersAssigned, Evidence, ResumersMade
<1>10. ASSUME NEW s \in Names, DeleteRecord(s)
      PROVE  RecordsMade'
  BY <1>10 DEF TypeOK, DeleteRecord, dbVars, envVars, histVars, SbRow,
    NoSandbox, RecordsMade, Assigned, Evidence
<1>11. ASSUME NEW s \in Names, NEW n \in Nodes, IdleReap(s, n)
      PROVE  RecordsMade'
  BY <1>11 DEF TypeOK, IdleReap, dbVars, histVars, SbRow, NoSandbox,
    RecordsMade, Assigned, Evidence
<1>12. ASSUME NEW p \in Poders, Disconnect(p)
      PROVE  RecordsMade'
  BY <1>12 DEF TypeOK, Disconnect, dbVars, histVars, SbRow, RecordsMade,
    Assigned, Evidence
<1>13. ASSUME NEW p \in Poders, Reconcile(p)
      PROVE  RecordsMade'
  BY <1>13 DEF TypeOK, Reconcile, dbVars, envVars, histVars, SbRow,
    RecordsMade, Assigned, Evidence, ContainersMade
<1>14. ASSUME NEW j \in Jobs, NEW n \in Nodes, NEW s \in Names, AcceptSync(j,
             n, s) \/ AcceptAsync(j, n, s)
      PROVE  RecordsMade'
  BY <1>1, <1>14 DEF AcceptSync, AcceptAsync, dbVars, envVars, histVars
<1>15. ASSUME NEW j \in Jobs, Refuse(j) \/ RecordIntent(j) \/ PeerRefused(j)
             \/ PeerTimeout(j) \/ NoTunnel(j) \/ Age(j) \/ Expire(j)
      PROVE  RecordsMade'
  BY <1>1, <1>15 DEF Refuse, RecordIntent, PeerRefused, PeerTimeout, NoTunnel,
    Age, Expire, dbVars, envVars, histVars
<1>16. ASSUME NEW j \in Jobs, NEW p \in Poders, Place(j, p)
      PROVE  RecordsMade'
  BY <1>1, <1>16 DEF Place, envVars, histVars
<1>17. ASSUME NEW j \in Jobs, NEW c \in Calls, Deliver(j, c) \/
             DeliverToPeer(j, c)
      PROVE  RecordsMade'
  BY <1>1, <1>17 DEF Deliver, DeliverToPeer, dbVars, envVars
<1>18. ASSUME NEW c \in Calls, WorkerReplace(c) \/ WorkerError(c) \/ AckJob(c)
             \/ PushFail(c)
      PROVE  RecordsMade'
  BY <1>1, <1>18 DEF WorkerReplace, WorkerError, AckJob, PushFail, dbVars,
    envVars, histVars
<1>19. ASSUME NEW n \in Nodes, NEW j \in Jobs, ResumeList(n, j)
      PROVE  RecordsMade'
  BY <1>1, <1>19, SMTT(20) DEF ResumeList, envVars, histVars
<1>20. ASSUME NEW n \in Nodes, ResumeNoPayload(n) \/ ResumeTooOld(n) \/
             ResumeSettle(n) \/ ResumeClaim(n) \/ ResumeSkip(n) \/ ResumePeerFails(n) \/
             ResumeNoWorker(n) \/ ResumeFinish(n) \/ Crash(n) \/ Restart(n)
      PROVE  RecordsMade'
  BY <1>1, <1>20 DEF ResumeNoPayload, ResumeTooOld, ResumeSettle, ResumeClaim,
    ResumeSkip, ResumePeerFails, ResumeNoWorker, ResumeFinish, Crash, Restart,
    envVars, histVars, dbVars
<1>21. ASSUME NEW n \in Nodes, NEW c \in Calls, ResumeDeliver(n, c) \/
             ResumeDeliverToPeer(n, c)
      PROVE  RecordsMade'
  BY <1>1, <1>21 DEF ResumeDeliver, ResumeDeliverToPeer, dbVars, envVars
<1>22. ASSUME NEW s \in Names, DeleteContainer(s)
      PROVE  RecordsMade'
  BY <1>1, <1>22 DEF DeleteContainer, dbVars, envVars, histVars
<1>23. ASSUME NEW s \in Names, NEW n \in Nodes, DeleteFailJobs(s, n)
      PROVE  RecordsMade'
  BY <1>1, <1>23 DEF DeleteFailJobs
<1>24. ASSUME NEW p \in Poders, OwnerExpire(p) \/ HeartbeatList(p)
      PROVE  RecordsMade'
  BY <1>1, <1>24 DEF OwnerExpire, HeartbeatList, dbVars, histVars
<1>25. ASSUME NEW p \in Poders, NEW n \in Nodes, Connect(p, n)
      PROVE  RecordsMade'
  BY <1>1, <1>25 DEF Connect, dbVars, histVars
<1> QED
  BY <1>2, <1>3, <1>4, <1>5, <1>6, <1>7, <1>8, <1>9, <1>10, <1>11, <1>12,
    <1>13, <1>14, <1>15, <1>16, <1>17, <1>18, <1>19, <1>20, <1>21, <1>22,
    <1>23, <1>24, <1>25 DEF Next, CreateStep, WorkerStep, AnswerStep,
    ResumeStep, DeleteStep

\* ContainersMade is preserved.
LEMMA ContainersMadeStep ==
    ASSUME TypeOK, Assigned, Evidence, [Next]_vars
    PROVE  ContainersMade'
<1>1. ASSUME UNCHANGED <<cnt, hb, made>> PROVE ContainersMade'
  BY <1>1 DEF Evidence, ContainersMade
<1>2. CASE Idle \/ UNCHANGED vars
  BY <1>1, <1>2 DEF Idle, vars
<1>3. ASSUME NEW c \in Calls, WorkerReplace(c)
      PROVE  ContainersMade'
  <2> USE <1>3
  <2>1. \A p \in Poders, s \in Names : cnt'[p][s] > 0 => cnt[p][s] > 0
    <3>1. CASE UNCHANGED cnt
      BY <3>1
    <3>2. CASE ~UNCHANGED cnt
      <4>1. cnt' = [cnt EXCEPT ![call[c].poder][NameOf(call[c].job)] =
                                  IF @ = 0 THEN 0 ELSE @ - 1]
        BY <3>2 DEF WorkerReplace
      <4>2. cnt \in [Poders -> [Names -> Nat]]
        BY SMTT(20) DEF TypeOK, Containers
      <4> QED  BY <4>1, <4>2
    <3> QED  BY <3>1, <3>2
  <2> QED
    BY <2>1 DEF WorkerReplace, envVars, histVars, Evidence, ContainersMade
<1>4. ASSUME NEW c \in Calls, WorkerCreate(c)
      PROVE  ContainersMade'
  BY <1>4 DEF TypeOK, WorkerCreate, dbVars, envVars, NameOf, Containers,
    NoCall, ContainersMade, Assigned, CallsAssigned, Evidence, CallsMade,
    Active
<1>5. ASSUME NEW s \in Names, DeleteContainer(s)
      PROVE  ContainersMade'
  BY <1>5 DEF TypeOK, DeleteContainer, dbVars, envVars, histVars, Containers,
    ContainersMade, Assigned, Evidence
<1>6. ASSUME NEW p \in Poders, HeartbeatList(p)
      PROVE  ContainersMade'
  BY <1>6 DEF TypeOK, HeartbeatList, dbVars, histVars, Beat, ContainersMade,
    Assigned, Evidence
<1>7. ASSUME NEW p \in Poders, Reconcile(p)
      PROVE  ContainersMade'
  BY <1>7 DEF TypeOK, Reconcile, dbVars, envVars, histVars, Beat,
    ContainersMade, Assigned, Evidence
<1>8. ASSUME NEW j \in Jobs, NEW n \in Nodes, NEW s \in Names, AcceptSync(j,
             n, s) \/ AcceptAsync(j, n, s)
      PROVE  ContainersMade'
  BY <1>1, <1>8 DEF AcceptSync, AcceptAsync, dbVars, envVars, histVars
<1>9. ASSUME NEW j \in Jobs, AddRecord(j) \/ Refuse(j) \/ Upsert(j) \/
             RecordIntent(j) \/ PeerRefused(j) \/ PeerTimeout(j) \/ NoTunnel(j) \/
             FailRecord(j) \/ Belt(j) \/ Age(j) \/ Expire(j)
      PROVE  ContainersMade'
  BY <1>1, <1>9 DEF AddRecord, Refuse, Upsert, RecordIntent, PeerRefused,
    PeerTimeout, NoTunnel, FailRecord, Belt, Age, Expire, dbVars, envVars,
    histVars
<1>10. ASSUME NEW j \in Jobs, NEW p \in Poders, Place(j, p)
      PROVE  ContainersMade'
  BY <1>1, <1>10 DEF Place, envVars, histVars
<1>11. ASSUME NEW j \in Jobs, NEW c \in Calls, Deliver(j, c) \/
             DeliverToPeer(j, c)
      PROVE  ContainersMade'
  BY <1>1, <1>11 DEF Deliver, DeliverToPeer, dbVars, envVars
<1>12. ASSUME NEW c \in Calls, WorkerError(c) \/ AckJob(c) \/ AckRecord(c) \/
             PushFail(c)
      PROVE  ContainersMade'
  BY <1>1, <1>12 DEF WorkerError, AckJob, AckRecord, PushFail, dbVars,
    envVars, histVars
<1>13. ASSUME NEW n \in Nodes, NEW j \in Jobs, ResumeList(n, j)
      PROVE  ContainersMade'
  BY <1>1, <1>13, SMTT(20) DEF ResumeList, envVars, histVars
<1>14. ASSUME NEW n \in Nodes, ResumeNoPayload(n) \/ ResumeNoPayloadRecord(n)
             \/ ResumeTooOld(n) \/ ResumeSettle(n) \/ ResumeClaim(n) \/ ResumeSkip(n) \/
             ResumePeerFails(n) \/ ResumeNoWorker(n) \/ ResumeFinish(n) \/ Crash(n) \/
             Restart(n)
      PROVE  ContainersMade'
  BY <1>1, <1>14 DEF ResumeNoPayload, ResumeNoPayloadRecord, ResumeTooOld,
    ResumeSettle, ResumeClaim, ResumeSkip, ResumePeerFails, ResumeNoWorker,
    ResumeFinish, Crash, Restart, envVars, histVars, dbVars
<1>15. ASSUME NEW n \in Nodes, NEW c \in Calls, ResumeDeliver(n, c) \/
             ResumeDeliverToPeer(n, c)
      PROVE  ContainersMade'
  BY <1>1, <1>15 DEF ResumeDeliver, ResumeDeliverToPeer, dbVars, envVars
<1>16. ASSUME NEW s \in Names, DeleteRecord(s)
      PROVE  ContainersMade'
  BY <1>1, <1>16 DEF DeleteRecord, dbVars, envVars, histVars
<1>17. ASSUME NEW s \in Names, NEW n \in Nodes, DeleteFailJobs(s, n) \/
             IdleReap(s, n)
      PROVE  ContainersMade'
  BY <1>1, <1>17 DEF DeleteFailJobs, IdleReap, dbVars, histVars
<1>18. ASSUME NEW p \in Poders, Disconnect(p) \/ OwnerExpire(p)
      PROVE  ContainersMade'
  BY <1>1, <1>18 DEF Disconnect, OwnerExpire, dbVars, histVars
<1>19. ASSUME NEW p \in Poders, NEW n \in Nodes, Connect(p, n)
      PROVE  ContainersMade'
  BY <1>1, <1>19 DEF Connect, dbVars, histVars
<1> QED
  BY <1>2, <1>3, <1>4, <1>5, <1>6, <1>7, <1>8, <1>9, <1>10, <1>11, <1>12,
    <1>13, <1>14, <1>15, <1>16, <1>17, <1>18, <1>19 DEF Next, CreateStep,
    WorkerStep, AnswerStep, ResumeStep, DeleteStep

\* CopiesCurrent is preserved: every write of a row outdates the copies.
LEMMA CopiesStep ==
    ASSUME TypeOK, CopiesCurrent, [Next]_vars
    PROVE  CopiesCurrent'
<1>1. ASSUME UNCHANGED <<job, stale, current>> PROVE CopiesCurrent'
  BY <1>1 DEF CopiesCurrent
<1>2. CASE Idle \/ UNCHANGED vars
  BY <1>1, <1>2 DEF Idle, vars
<1>3. ASSUME NEW j \in Jobs, NEW n \in Nodes, NEW s \in Names, AcceptAsync(j, n, s)
      PROVE  CopiesCurrent'
  BY <1>3 DEF TypeOK, AcceptAsync, WriteJob, envVars, histVars, JobRow,
    NoFlow, CopiesCurrent
<1>4. ASSUME NEW j \in Jobs, Refuse(j)
      PROVE  CopiesCurrent'
  BY <1>4 DEF TypeOK, Refuse, SetStatus, Goto, dbVars, envVars, histVars,
    WriteJob, JobRow, CopiesCurrent
<1>5. ASSUME NEW j \in Jobs, NEW p \in Poders, Place(j, p)
      PROVE  CopiesCurrent'
  BY <1>5 DEF TypeOK, Place, WriteJob, envVars, histVars, JobRow,
    CopiesCurrent
<1>6. ASSUME NEW j \in Jobs, RecordIntent(j)
      PROVE  CopiesCurrent'
  BY <1>6 DEF TypeOK, RecordIntent, WriteJob, Goto, envVars, histVars, JobRow,
    CopiesCurrent
<1>7. ASSUME NEW j \in Jobs, PeerRefused(j)
      PROVE  CopiesCurrent'
  BY <1>7 DEF TypeOK, PeerRefused, SetStatus, Goto, envVars, histVars,
    WriteJob, JobRow, CopiesCurrent
<1>8. ASSUME NEW j \in Jobs, PeerTimeout(j)
      PROVE  CopiesCurrent'
  BY <1>8 DEF TypeOK, PeerTimeout, SetStatus, Goto, envVars, histVars,
    WriteJob, JobRow, CopiesCurrent
<1>9. ASSUME NEW j \in Jobs, NoTunnel(j)
      PROVE  CopiesCurrent'
  BY <1>9 DEF TypeOK, NoTunnel, SetStatus, Goto, envVars, histVars, WriteJob,
    JobRow, CopiesCurrent
<1>10. ASSUME NEW j \in Jobs, Age(j)
      PROVE  CopiesCurrent'
  BY <1>10 DEF TypeOK, Age, envVars, histVars, CopiesCurrent
<1>11. ASSUME NEW c \in Calls, AckJob(c)
      PROVE  CopiesCurrent'
  BY <1>11 DEF TypeOK, AckJob, SetStatus, envVars, histVars, WriteJob, JobRow,
    CopiesCurrent
<1>12. ASSUME NEW c \in Calls, PushFail(c)
      PROVE  CopiesCurrent'
  BY <1>12 DEF TypeOK, PushFail, CallerFails, envVars, histVars, Active,
    SetStatus, dbVars, WriteJob, JobRow, NoCall, NoResume, CopiesCurrent
<1>13. ASSUME NEW n \in Nodes, NEW j \in Jobs, ResumeList(n, j)
      PROVE  CopiesCurrent'
  BY <1>13 DEF TypeOK, ResumeList, envVars, histVars, CopiesCurrent
<1>14. ASSUME NEW n \in Nodes, ResumeNoPayload(n)
      PROVE  CopiesCurrent'
  BY <1>14 DEF TypeOK, ResumeNoPayload, SetStatus, envVars, histVars,
    WriteJob, JobRow, CopiesCurrent
<1>15. ASSUME NEW n \in Nodes, ResumeTooOld(n)
      PROVE  CopiesCurrent'
  BY <1>15 DEF TypeOK, ResumeTooOld, SetStatus, envVars, histVars, WriteJob,
    JobRow, NoResume, CopiesCurrent
<1>16. ASSUME NEW n \in Nodes, ResumeSettle(n)
      PROVE  CopiesCurrent'
  BY <1>16 DEF TypeOK, ResumeSettle, SetStatus, envVars, histVars, NameOf,
    WriteJob, JobRow, NoResume, CopiesCurrent
<1>17. ASSUME NEW n \in Nodes, ResumeClaim(n)
      PROVE  CopiesCurrent'
  BY <1>17 DEF TypeOK, ResumeClaim, envVars, histVars, NameOf, CopiesCurrent
<1>18. ASSUME NEW n \in Nodes, ResumeNoWorker(n)
      PROVE  CopiesCurrent'
  BY <1>18 DEF TypeOK, ResumeNoWorker, SetStatus, envVars, histVars, WriteJob,
    JobRow, NoResume, CopiesCurrent
<1>19. ASSUME NEW n \in Nodes, ResumeFinish(n)
      PROVE  CopiesCurrent'
  BY <1>19 DEF TypeOK, ResumeFinish, SetStatus, envVars, histVars, WriteJob,
    JobRow, NoResume, CopiesCurrent
<1>20. ASSUME NEW n \in Nodes, Restart(n)
      PROVE  CopiesCurrent'
  BY <1>20 DEF TypeOK, Restart, histVars, JobRow, CopiesCurrent
<1>21. ASSUME NEW s \in Names, NEW n \in Nodes, DeleteFailJobs(s, n)
      PROVE  CopiesCurrent'
  BY <1>21 DEF TypeOK, DeleteFailJobs, NameOf, JobRow, CopiesCurrent
<1>22. ASSUME NEW j \in Jobs, NEW n \in Nodes, NEW s \in Names, AcceptSync(j,
             n, s)
      PROVE  CopiesCurrent'
  BY <1>1, <1>22 DEF AcceptSync, dbVars, envVars, histVars
<1>23. ASSUME NEW j \in Jobs, AddRecord(j) \/ Upsert(j) \/ FailRecord(j) \/
             Belt(j) \/ Expire(j)
      PROVE  CopiesCurrent'
  BY <1>1, <1>23 DEF AddRecord, Upsert, FailRecord, Belt, Expire, dbVars,
    envVars, histVars
<1>24. ASSUME NEW j \in Jobs, NEW c \in Calls, Deliver(j, c) \/
             DeliverToPeer(j, c)
      PROVE  CopiesCurrent'
  BY <1>1, <1>24, SMTT(20) DEF Deliver, DeliverToPeer, dbVars, envVars
<1>25. ASSUME NEW c \in Calls, WorkerReplace(c) \/ WorkerCreate(c) \/
             WorkerError(c) \/ AckRecord(c)
      PROVE  CopiesCurrent'
  BY <1>1, <1>25, SMTT(20) DEF WorkerReplace, WorkerCreate, WorkerError, AckRecord,
    dbVars, envVars, histVars
<1>26. ASSUME NEW n \in Nodes, ResumeNoPayloadRecord(n) \/ ResumeSkip(n) \/
             ResumePeerFails(n) \/ Crash(n)
      PROVE  CopiesCurrent'
  BY <1>1, <1>26 DEF ResumeNoPayloadRecord, ResumeSkip, ResumePeerFails,
    Crash, dbVars, envVars, histVars
<1>27. ASSUME NEW n \in Nodes, NEW c \in Calls, ResumeDeliver(n, c) \/
             ResumeDeliverToPeer(n, c)
      PROVE  CopiesCurrent'
  BY <1>1, <1>27 DEF ResumeDeliver, ResumeDeliverToPeer, dbVars, envVars
<1>28. ASSUME NEW s \in Names, DeleteRecord(s) \/ DeleteContainer(s)
      PROVE  CopiesCurrent'
  BY <1>1, <1>28 DEF DeleteRecord, DeleteContainer, dbVars, envVars, histVars
<1>29. ASSUME NEW s \in Names, NEW n \in Nodes, IdleReap(s, n)
      PROVE  CopiesCurrent'
  BY <1>1, <1>29 DEF IdleReap, dbVars, histVars
<1>30. ASSUME NEW p \in Poders, Disconnect(p) \/ OwnerExpire(p) \/
             HeartbeatList(p) \/ Reconcile(p)
      PROVE  CopiesCurrent'
  BY <1>1, <1>30 DEF Disconnect, OwnerExpire, HeartbeatList, Reconcile,
    dbVars, histVars, envVars
<1>31. ASSUME NEW p \in Poders, NEW n \in Nodes, Connect(p, n)
      PROVE  CopiesCurrent'
  BY <1>1, <1>31 DEF Connect, dbVars, histVars
<1> QED
  BY <1>2, <1>3, <1>4, <1>5, <1>6, <1>7, <1>8, <1>9, <1>10, <1>11, <1>12,
    <1>13, <1>14, <1>15, <1>16, <1>17, <1>18, <1>19, <1>20, <1>21, <1>22,
    <1>23, <1>24, <1>25, <1>26, <1>27, <1>28, <1>29, <1>30, <1>31 DEF Next,
    CreateStep, WorkerStep, AnswerStep, ResumeStep, DeleteStep

-----------------------------------------------------------------------------
(* The intent, deletes and serial deliveries *)

\* Settling a row that is there keeps the rows.
LEMMA SettleKept ==
    ASSUME TypeOK, NEW j \in Jobs, NEW st \in Terminal, SetStatus(j, st),
           job[j].status # "ABSENT"
    PROVE  RowsKept
BY DEF TypeOK, SetStatus, WriteJob, JobRow, RowsKept, Settled, Terminal

\* Only an accepted asynchronous create, the scheduler and the intent write more
\* of a row than its status.
LEMMA RowsStep ==
    ASSUME TypeOK, Assigned, Intent, [Next]_vars
    PROVE  RowsKept \/ RowsWritten
<1>1. ASSUME UNCHANGED job PROVE RowsKept \/ RowsWritten
  BY <1>1 DEF RowsKept, Settled
<1>2. CASE Idle \/ UNCHANGED vars
  BY <1>1, <1>2 DEF Idle, vars
<1>3. ASSUME NEW j \in Jobs, NEW n \in Nodes, NEW s \in Names, AcceptAsync(j,
             n, s)
      PROVE  RowsKept \/ RowsWritten
  BY <1>3 DEF RowsWritten
<1>4. ASSUME NEW j \in Jobs, Refuse(j)
      PROVE  RowsKept \/ RowsWritten
  <2>1. CASE cf[j].async
    <3>1. SetStatus(j, "FAILED") /\ "FAILED" \in Terminal /\ job[j].status # "ABSENT"
      BY <1>4, <2>1 DEF Refuse, Terminal, Intent, IntentFlows
    <3> QED
      BY <3>1, SettleKept
  <2>2. CASE ~cf[j].async
    BY <1>1, <1>4, <2>2 DEF Refuse, dbVars
  <2> QED
    BY <2>1, <2>2
<1>5. ASSUME NEW j \in Jobs, NEW p \in Poders, Place(j, p)
      PROVE  RowsKept \/ RowsWritten
  BY <1>5 DEF RowsWritten
<1>6. ASSUME NEW j \in Jobs, RecordIntent(j)
      PROVE  RowsKept \/ RowsWritten
  BY <1>6 DEF RowsWritten
<1>7. ASSUME NEW j \in Jobs, PeerRefused(j)
      PROVE  RowsKept \/ RowsWritten
  <2>1. SetStatus(j, "FAILED") /\ "FAILED" \in Terminal
    BY <1>7 DEF PeerRefused, Terminal
  <2>2. j \in Jobs /\ job[j].status # "ABSENT"
    BY <1>7 DEF PeerRefused, Intent, IntentFlows, Placed
  <2> QED
    BY <2>1, <2>2, SettleKept
<1>8. ASSUME NEW j \in Jobs, PeerTimeout(j)
      PROVE  RowsKept \/ RowsWritten
  <2>1. SetStatus(j, "FAILED") /\ "FAILED" \in Terminal
    BY <1>8 DEF PeerTimeout, Terminal
  <2>2. j \in Jobs /\ job[j].status # "ABSENT"
    BY <1>8 DEF PeerTimeout, Intent, IntentFlows, Placed
  <2> QED
    BY <2>1, <2>2, SettleKept
<1>9. ASSUME NEW j \in Jobs, NoTunnel(j)
      PROVE  RowsKept \/ RowsWritten
  <2>1. SetStatus(j, "FAILED") /\ "FAILED" \in Terminal
    BY <1>9 DEF NoTunnel, Terminal
  <2>2. j \in Jobs /\ job[j].status # "ABSENT"
    BY <1>9 DEF NoTunnel, Intent, IntentFlows, Placed
  <2> QED
    BY <2>1, <2>2, SettleKept
<1>10. ASSUME NEW c \in Calls, AckJob(c)
      PROVE  RowsKept \/ RowsWritten
  <2>1. SetStatus(call[c].job, "COMPLETED") /\ "COMPLETED" \in Terminal
    BY <1>10 DEF AckJob, Terminal
  <2>2. call[c].job \in Jobs /\ job[call[c].job].status # "ABSENT"
    BY <1>10 DEF AckJob, Assigned, CallsAssigned, Intent, IntentBeforeDelivery, Active
  <2> QED
    BY <2>1, <2>2, SettleKept
<1>11. ASSUME NEW c \in Calls, PushFail(c)
      PROVE  RowsKept \/ RowsWritten
  <2>1. CASE UNCHANGED dbVars
    BY <1>1, <2>1 DEF dbVars
  <2>2. CASE ~UNCHANGED dbVars
    <3>1. SetStatus(call[c].job, "FAILED") /\ "FAILED" \in Terminal
      BY <1>11, <2>2 DEF PushFail, CallerFails, Terminal
    <3>2. call[c].job \in Jobs /\ job[call[c].job].status # "ABSENT"
      BY <1>11 DEF PushFail, Assigned, CallsAssigned, Intent, IntentBeforeDelivery
    <3> QED
      BY <3>1, <3>2, SettleKept
  <2> QED
    BY <2>1, <2>2
<1>12. ASSUME NEW n \in Nodes, ResumeNoPayload(n)
      PROVE  RowsKept \/ RowsWritten
  <2>1. SetStatus(rs[n].job, "FAILED") /\ "FAILED" \in Terminal
    BY <1>12 DEF ResumeNoPayload, Terminal
  <2>2. rs[n].job \in Jobs /\ job[rs[n].job].status # "ABSENT"
    BY <1>12 DEF ResumeNoPayload, Assigned, ResumersAssigned, Intent, IntentResumers
  <2> QED
    BY <2>1, <2>2, SettleKept
<1>13. ASSUME NEW n \in Nodes, ResumeTooOld(n)
      PROVE  RowsKept \/ RowsWritten
  <2>1. SetStatus(rs[n].job, "FAILED") /\ "FAILED" \in Terminal
    BY <1>13 DEF ResumeTooOld, Terminal
  <2>2. rs[n].job \in Jobs /\ job[rs[n].job].status # "ABSENT"
    BY <1>13 DEF ResumeTooOld, Assigned, ResumersAssigned, Intent, IntentResumers
  <2> QED
    BY <2>1, <2>2, SettleKept
<1>14. ASSUME NEW n \in Nodes, ResumeSettle(n)
      PROVE  RowsKept \/ RowsWritten
  <2>1. \E st \in Terminal : SetStatus(rs[n].job, st)
    BY <1>14 DEF ResumeSettle, Terminal
  <2>2. rs[n].job \in Jobs /\ job[rs[n].job].status # "ABSENT"
    BY <1>14 DEF ResumeSettle, Assigned, ResumersAssigned, Intent, IntentResumers
  <2> QED
    BY <2>1, <2>2, SettleKept
<1>15. ASSUME NEW n \in Nodes, ResumeNoWorker(n)
      PROVE  RowsKept \/ RowsWritten
  <2>1. SetStatus(rs[n].job, "FAILED") /\ "FAILED" \in Terminal
    BY <1>15 DEF ResumeNoWorker, Terminal
  <2>2. rs[n].job \in Jobs /\ job[rs[n].job].status # "ABSENT"
    BY <1>15 DEF ResumeNoWorker, Assigned, ResumersAssigned, Intent, IntentResumers
  <2> QED
    BY <2>1, <2>2, SettleKept
<1>16. ASSUME NEW n \in Nodes, ResumeFinish(n)
      PROVE  RowsKept \/ RowsWritten
  <2>1. SetStatus(rs[n].job, "COMPLETED") /\ "COMPLETED" \in Terminal
    BY <1>16 DEF ResumeFinish, Terminal
  <2>2. rs[n].job \in Jobs /\ job[rs[n].job].status # "ABSENT"
    BY <1>16 DEF ResumeFinish, Assigned, ResumersAssigned, Intent, IntentResumers
  <2> QED
    BY <2>1, <2>2, SettleKept
<1>17. ASSUME NEW n \in Nodes, Restart(n)
      PROVE  RowsKept \/ RowsWritten
  BY <1>17 DEF TypeOK, Restart, histVars, JobRow, RowsKept, Settled, Terminal
<1>18. ASSUME NEW s \in Names, NEW n \in Nodes, DeleteFailJobs(s, n)
      PROVE  RowsKept \/ RowsWritten
  BY <1>18 DEF TypeOK, DeleteFailJobs, JobRow, RowsKept, Settled, Terminal
<1>19. ASSUME NEW j \in Jobs, NEW n \in Nodes, NEW s \in Names, AcceptSync(j,
             n, s)
      PROVE  RowsKept \/ RowsWritten
  BY <1>1, <1>19 DEF AcceptSync, dbVars, envVars, histVars
<1>20. ASSUME NEW j \in Jobs, AddRecord(j) \/ Upsert(j) \/ FailRecord(j) \/
             Belt(j) \/ Age(j) \/ Expire(j)
      PROVE  RowsKept \/ RowsWritten
  BY <1>1, <1>20 DEF AddRecord, Upsert, FailRecord, Belt, Age, Expire, dbVars,
    envVars, histVars
<1>21. ASSUME NEW j \in Jobs, NEW c \in Calls, Deliver(j, c) \/
             DeliverToPeer(j, c)
      PROVE  RowsKept \/ RowsWritten
  BY <1>1, <1>21, SMTT(20) DEF Deliver, DeliverToPeer, dbVars, envVars
<1>22. ASSUME NEW c \in Calls, WorkerReplace(c) \/ WorkerCreate(c) \/
             WorkerError(c) \/ AckRecord(c)
      PROVE  RowsKept \/ RowsWritten
  BY <1>1, <1>22 DEF WorkerReplace, WorkerCreate, WorkerError, AckRecord,
    dbVars, envVars, histVars
<1>23. ASSUME NEW n \in Nodes, NEW j \in Jobs, ResumeList(n, j)
      PROVE  RowsKept \/ RowsWritten
  BY <1>1, <1>23, SMTT(20) DEF ResumeList, envVars, histVars
<1>24. ASSUME NEW n \in Nodes, ResumeNoPayloadRecord(n) \/ ResumeClaim(n) \/
             ResumeSkip(n) \/ ResumePeerFails(n) \/ Crash(n)
      PROVE  RowsKept \/ RowsWritten
  BY <1>1, <1>24 DEF ResumeNoPayloadRecord, ResumeClaim, ResumeSkip,
    ResumePeerFails, Crash, dbVars, envVars, histVars
<1>25. ASSUME NEW n \in Nodes, NEW c \in Calls, ResumeDeliver(n, c) \/
             ResumeDeliverToPeer(n, c)
      PROVE  RowsKept \/ RowsWritten
  BY <1>1, <1>25 DEF ResumeDeliver, ResumeDeliverToPeer, dbVars, envVars
<1>26. ASSUME NEW s \in Names, DeleteRecord(s) \/ DeleteContainer(s)
      PROVE  RowsKept \/ RowsWritten
  BY <1>1, <1>26 DEF DeleteRecord, DeleteContainer, dbVars, envVars, histVars
<1>27. ASSUME NEW s \in Names, NEW n \in Nodes, IdleReap(s, n)
      PROVE  RowsKept \/ RowsWritten
  BY <1>1, <1>27 DEF IdleReap, dbVars, histVars
<1>28. ASSUME NEW p \in Poders, Disconnect(p) \/ OwnerExpire(p) \/
             HeartbeatList(p) \/ Reconcile(p)
      PROVE  RowsKept \/ RowsWritten
  BY <1>1, <1>28 DEF Disconnect, OwnerExpire, HeartbeatList, Reconcile,
    dbVars, histVars, envVars
<1>29. ASSUME NEW p \in Poders, NEW n \in Nodes, Connect(p, n)
      PROVE  RowsKept \/ RowsWritten
  BY <1>1, <1>29 DEF Connect, dbVars, histVars
<1> QED
  BY <1>2, <1>3, <1>4, <1>5, <1>6, <1>7, <1>8, <1>9, <1>10, <1>11, <1>12,
    <1>13, <1>14, <1>15, <1>16, <1>17, <1>18, <1>19, <1>20, <1>21, <1>22,
    <1>23, <1>24, <1>25, <1>26, <1>27, <1>28, <1>29 DEF Next, CreateStep,
    WorkerStep, AnswerStep, ResumeStep, DeleteStep

\* Only a new create is accepted, only the scheduler places one, and only the
\* intent commits one.
LEMMA ForwardStep ==
    ASSUME TypeOK, [Next]_vars
    PROVE  FlowsForward \/ FlowsWritten \/ RowsWritten
<1>1. ASSUME UNCHANGED cf PROVE FlowsForward \/ FlowsWritten \/ RowsWritten
  BY <1>1 DEF FlowsForward
<1>2. CASE Idle \/ UNCHANGED vars
  BY <1>1, <1>2 DEF Idle, vars
<1>3. ASSUME NEW j \in Jobs, NEW n \in Nodes, NEW s \in Names, AcceptSync(j,
             n, s)
      PROVE  FlowsForward \/ FlowsWritten \/ RowsWritten
  BY <1>3 DEF FlowsWritten
<1>4. ASSUME NEW j \in Jobs, NEW n \in Nodes, NEW s \in Names, AcceptAsync(j,
             n, s)
      PROVE  FlowsForward \/ FlowsWritten \/ RowsWritten
  BY <1>4 DEF RowsWritten
<1>5. ASSUME NEW j \in Jobs, AddRecord(j)
      PROVE  FlowsForward \/ FlowsWritten \/ RowsWritten
  BY <1>5, SMTT(20) DEF TypeOK, AddRecord, Goto, dbVars, envVars, histVars, CreateFlow,
    FlowsForward, Placed, Committed
<1>6. ASSUME NEW j \in Jobs, Refuse(j)
      PROVE  FlowsForward \/ FlowsWritten \/ RowsWritten
  BY <1>6 DEF TypeOK, Refuse, dbVars, Goto, envVars, histVars, WriteJob,
    CreateFlow, FlowsForward, Placed, Committed
<1>7. ASSUME NEW j \in Jobs, NEW p \in Poders, Place(j, p)
      PROVE  FlowsForward \/ FlowsWritten \/ RowsWritten
  BY <1>7 DEF RowsWritten
<1>8. ASSUME NEW j \in Jobs, Upsert(j)
      PROVE  FlowsForward \/ FlowsWritten \/ RowsWritten
  BY <1>8 DEF TypeOK, Upsert, Goto, dbVars, envVars, histVars, CreateFlow,
    FlowsForward, Placed, Committed
<1>9. ASSUME NEW j \in Jobs, RecordIntent(j)
      PROVE  FlowsForward \/ FlowsWritten \/ RowsWritten
  BY <1>9 DEF RowsWritten
<1>10. ASSUME NEW j \in Jobs, NEW c \in Calls, Deliver(j, c)
      PROVE  FlowsForward \/ FlowsWritten \/ RowsWritten
  BY <1>10 DEF TypeOK, Deliver, Send, dbVars, envVars, CreateFlow,
    FlowsForward, Placed, Committed
<1>11. ASSUME NEW j \in Jobs, NEW c \in Calls, DeliverToPeer(j, c)
      PROVE  FlowsForward \/ FlowsWritten \/ RowsWritten
  BY <1>11 DEF TypeOK, DeliverToPeer, Send, dbVars, envVars, CreateFlow,
    FlowsForward, Placed, Committed
<1>12. ASSUME NEW j \in Jobs, PeerRefused(j)
      PROVE  FlowsForward \/ FlowsWritten \/ RowsWritten
  BY <1>12 DEF TypeOK, PeerRefused, Goto, envVars, histVars, WriteJob,
    CreateFlow, FlowsForward, Placed, Committed
<1>13. ASSUME NEW j \in Jobs, PeerTimeout(j)
      PROVE  FlowsForward \/ FlowsWritten \/ RowsWritten
  BY <1>13 DEF TypeOK, PeerTimeout, Goto, envVars, histVars, WriteJob,
    CreateFlow, FlowsForward, Placed, Committed
<1>14. ASSUME NEW j \in Jobs, NoTunnel(j)
      PROVE  FlowsForward \/ FlowsWritten \/ RowsWritten
  BY <1>14 DEF TypeOK, NoTunnel, Goto, envVars, histVars, WriteJob,
    CreateFlow, FlowsForward, Placed, Committed
<1>15. ASSUME NEW j \in Jobs, FailRecord(j)
      PROVE  FlowsForward \/ FlowsWritten \/ RowsWritten
  BY <1>15 DEF TypeOK, FailRecord, SetState, Goto, dbVars, envVars, histVars,
    CreateFlow, FlowsForward, Placed, Committed
<1>16. ASSUME NEW j \in Jobs, Belt(j)
      PROVE  FlowsForward \/ FlowsWritten \/ RowsWritten
  BY <1>16, SMTT(20) DEF TypeOK, Belt, PendingToError, Goto, dbVars, envVars, histVars,
    CreateFlow, FlowsForward, Placed, Committed
<1>17. ASSUME NEW c \in Calls, AckRecord(c)
      PROVE  FlowsForward \/ FlowsWritten \/ RowsWritten
  BY <1>17, SMTT(20) DEF TypeOK, AckRecord, SetState, NoCall, dbVars, envVars, histVars,
    CreateFlow, FlowsForward, Placed, Committed
<1>18. ASSUME NEW c \in Calls, PushFail(c)
      PROVE  FlowsForward \/ FlowsWritten \/ RowsWritten
  <2>1. CASE CreateWaits(c)
    BY <1>18, <2>1 DEF PushFail, CallerFails, CreateWaits, TypeOK, CreateFlow, FlowsForward,
      Placed, Committed
  <2>2. CASE ~CreateWaits(c)
    BY <1>1, <1>18, <2>2 DEF PushFail, CallerFails
  <2> QED
    BY <2>1, <2>2
<1>19. ASSUME NEW n \in Nodes, Crash(n)
      PROVE  FlowsForward \/ FlowsWritten \/ RowsWritten
  BY <1>19 DEF TypeOK, Crash, NoFlow, NoResume, NoDelete, NoCall, dbVars,
    histVars, CreateFlow, FlowsForward, Placed, Committed
<1>20. ASSUME NEW j \in Jobs, Age(j) \/ Expire(j)
      PROVE  FlowsForward \/ FlowsWritten \/ RowsWritten
  BY <1>1, <1>20 DEF Age, Expire, envVars, histVars
<1>21. ASSUME NEW c \in Calls, WorkerReplace(c) \/ WorkerCreate(c) \/
             WorkerError(c) \/ AckJob(c)
      PROVE  FlowsForward \/ FlowsWritten \/ RowsWritten
  BY <1>1, <1>21 DEF WorkerReplace, WorkerCreate, WorkerError, AckJob,
    WriteJob, dbVars, envVars, histVars
<1>22. ASSUME NEW n \in Nodes, NEW j \in Jobs, ResumeList(n, j)
      PROVE  FlowsForward \/ FlowsWritten \/ RowsWritten
  BY <1>1, <1>22 DEF ResumeList, envVars, histVars
<1>23. ASSUME NEW n \in Nodes, ResumeNoPayload(n) \/ ResumeNoPayloadRecord(n)
             \/ ResumeTooOld(n) \/ ResumeSettle(n) \/ ResumeClaim(n) \/ ResumeSkip(n) \/
             ResumePeerFails(n) \/ ResumeNoWorker(n) \/ ResumeFinish(n) \/ Restart(n)
      PROVE  FlowsForward \/ FlowsWritten \/ RowsWritten
  BY <1>1, <1>23 DEF ResumeNoPayload, ResumeNoPayloadRecord, ResumeTooOld,
    ResumeSettle, ResumeClaim, ResumeSkip, ResumePeerFails, ResumeNoWorker,
    ResumeFinish, Restart, WriteJob, envVars, histVars, dbVars
<1>24. ASSUME NEW n \in Nodes, NEW c \in Calls, ResumeDeliver(n, c) \/
             ResumeDeliverToPeer(n, c)
      PROVE  FlowsForward \/ FlowsWritten \/ RowsWritten
  BY <1>1, <1>24 DEF ResumeDeliver, ResumeDeliverToPeer, dbVars, envVars
<1>25. ASSUME NEW s \in Names, DeleteRecord(s) \/ DeleteContainer(s)
      PROVE  FlowsForward \/ FlowsWritten \/ RowsWritten
  BY <1>1, <1>25 DEF DeleteRecord, DeleteContainer, dbVars, envVars, histVars
<1>26. ASSUME NEW s \in Names, NEW n \in Nodes, DeleteFailJobs(s, n) \/
             IdleReap(s, n)
      PROVE  FlowsForward \/ FlowsWritten \/ RowsWritten
  BY <1>1, <1>26 DEF DeleteFailJobs, IdleReap, dbVars, histVars
<1>27. ASSUME NEW p \in Poders, Disconnect(p) \/ OwnerExpire(p) \/
             HeartbeatList(p) \/ Reconcile(p)
      PROVE  FlowsForward \/ FlowsWritten \/ RowsWritten
  BY <1>1, <1>27 DEF Disconnect, OwnerExpire, HeartbeatList, Reconcile,
    dbVars, histVars, envVars
<1>28. ASSUME NEW p \in Poders, NEW n \in Nodes, Connect(p, n)
      PROVE  FlowsForward \/ FlowsWritten \/ RowsWritten
  BY <1>1, <1>28 DEF Connect, dbVars, histVars
<1> QED
  BY <1>2, <1>3, <1>4, <1>5, <1>6, <1>7, <1>8, <1>9, <1>10, <1>11, <1>12,
    <1>13, <1>14, <1>15, <1>16, <1>17, <1>18, <1>19, <1>20, <1>21, <1>22,
    <1>23, <1>24, <1>25, <1>26, <1>27, <1>28 DEF Next, CreateStep, WorkerStep,
    AnswerStep, ResumeStep, DeleteStep

\* Changing the count of one worker and name changes no other.
LEMMA ContainerValues ==
    ASSUME NEW f \in Containers, NEW g, NEW p \in Poders, NEW s \in Names, NEW v,
           g = [f EXCEPT ![p][s] = v]
    PROVE  /\ g[p][s] = v
           /\ \A q \in Poders, r \in Names : q # p \/ r # s => g[q][r] = f[q][r]
BY DEF Containers

\* A count is a number.
LEMMA ContainerNumbers ==
    ASSUME NEW f \in Containers, NEW p \in Poders, NEW s \in Names
    PROVE  f[p][s] \in Nat
BY DEF Containers

\* The histories only grow, and only CreatePod adds a container.
LEMMA EffectsStep ==
    ASSUME TypeOK, CallsAssigned, FlowsAssigned, [Next]_vars
    PROVE  EffectsKept
<1>1. ASSUME UNCHANGED <<overlapped, cnt, doom>> PROVE EffectsKept
  BY <1>1 DEF EffectsKept, FewerContainers, TypeOK, Containers
<1>2. CASE Idle \/ UNCHANGED vars
  BY <1>1, <1>2 DEF Idle, vars
<1>3. ASSUME NEW j \in Jobs, NEW c \in Calls, Deliver(j, c)
      PROVE  EffectsKept
  BY <1>3 DEF Deliver, Send, EffectsKept, FewerContainers, TypeOK, Containers
<1>4. ASSUME NEW j \in Jobs, NEW c \in Calls, DeliverToPeer(j, c)
      PROVE  EffectsKept
  BY <1>4 DEF DeliverToPeer, Send, EffectsKept, FewerContainers, TypeOK, Containers
<1>5. ASSUME NEW c \in Calls, WorkerReplace(c)
      PROVE  EffectsKept
  <2>1. call[c].poder \in Poders /\ NameOf(call[c].job) \in Names
    BY <1>5 DEF WorkerReplace, CallsAssigned, FlowsAssigned, Active, NameOf
  <2> DEFINE p == call[c].poder  s == NameOf(call[c].job)  v == IF cnt[p][s] = 0 THEN 0 ELSE cnt[p][s] - 1
  <2>2. cnt' = [cnt EXCEPT ![p][s] = v] \/ UNCHANGED cnt
    BY <1>5 DEF WorkerReplace
  <2>3. cnt \in Containers /\ p \in Poders /\ s \in Names
    BY <2>1 DEF TypeOK
  <2>4. cnt[p][s] \in Nat /\ v \in Nat /\ v <= cnt[p][s]
    BY <2>3, ContainerNumbers
  <2>5. FewerContainers
    <3> HIDE DEF p, s, v
    <3> QED  
      <4>1. CASE UNCHANGED cnt
        BY <2>3, <4>1, ContainerNumbers DEF FewerContainers
      <4>2. CASE cnt' = [cnt EXCEPT ![p][s] = v]
        <5>1. /\ cnt'[p][s] = v
              /\ \A q \in Poders, r \in Names : q # p \/ r # s => cnt'[q][r] = cnt[q][r]
          BY <2>3, <4>2, ContainerValues, SMTT(20)
        <5> QED  BY <2>3, <2>4, <5>1, ContainerNumbers DEF FewerContainers
      <4> QED  BY <2>2, <4>1, <4>2
  <2> QED  BY <1>5, <2>5, SMTT(20) DEF WorkerReplace, histVars, EffectsKept
<1>6. ASSUME NEW c \in Calls, WorkerCreate(c)
      PROVE  EffectsKept
  BY <1>6 DEF WorkerCreate, EffectsKept
<1>7. ASSUME NEW n \in Nodes, NEW c \in Calls, ResumeDeliver(n, c)
      PROVE  EffectsKept
  BY <1>7 DEF ResumeDeliver, Send, EffectsKept, FewerContainers, TypeOK, Containers
<1>8. ASSUME NEW n \in Nodes, NEW c \in Calls, ResumeDeliverToPeer(n, c)
      PROVE  EffectsKept
  BY <1>8 DEF ResumeDeliverToPeer, Send, EffectsKept, FewerContainers, TypeOK, Containers
<1>9. ASSUME NEW s \in Names, DeleteContainer(s)
      PROVE  EffectsKept
  <2>1. FewerContainers
    <3>1. CASE UNCHANGED cnt
      BY <3>1 DEF TypeOK, Containers, FewerContainers
    <3>2. CASE cnt' # cnt
      <4> DEFINE p == del[s].poder  v == cnt[p][s] - 1
      <4>1. cnt' = [cnt EXCEPT ![p][s] = v] /\ p # None /\ cnt[p][s] > 0
        BY <1>9, <3>2 DEF DeleteContainer
      <4>2. cnt \in Containers /\ p \in Poders
        BY <4>1 DEF TypeOK, Deleter
      <4>3. cnt[p][s] \in Nat /\ v \in Nat /\ v <= cnt[p][s]
        BY <4>1, <4>2, ContainerNumbers
      <4>4. FewerContainers
        <5> HIDE DEF p, v
        <5> QED  
          <6>1. /\ cnt'[p][s] = v
                /\ \A q \in Poders, r \in Names : q # p \/ r # s => cnt'[q][r] = cnt[q][r]
            BY <4>1, <4>2, ContainerValues
          <6> QED  BY <4>2, <4>3, <6>1, ContainerNumbers DEF FewerContainers
      <4> QED  BY <4>4
    <3> QED  BY <3>1, <3>2
  <2> QED  BY <1>9, <2>1 DEF DeleteContainer, histVars, EffectsKept
<1>10. ASSUME NEW s \in Names, NEW n \in Nodes, DeleteFailJobs(s, n)
      PROVE  EffectsKept
  <2>1. UNCHANGED <<cnt, overlapped>>
    BY <1>10 DEF DeleteFailJobs
  <2> QED  BY <1>10, <2>1 DEF EffectsKept, FewerContainers, TypeOK, Containers
<1>11. ASSUME NEW j \in Jobs, NEW n \in Nodes, NEW s \in Names, AcceptSync(j,
             n, s) \/ AcceptAsync(j, n, s)
      PROVE  EffectsKept
  BY <1>1, <1>11 DEF AcceptSync, AcceptAsync, WriteJob, dbVars, envVars,
    histVars
<1>12. ASSUME NEW j \in Jobs, AddRecord(j) \/ Refuse(j) \/ Upsert(j) \/
             RecordIntent(j) \/ PeerRefused(j) \/ PeerTimeout(j) \/ NoTunnel(j) \/
             FailRecord(j) \/ Belt(j) \/ Age(j) \/ Expire(j)
      PROVE  EffectsKept
  BY <1>1, <1>12 DEF AddRecord, Refuse, Upsert, RecordIntent, PeerRefused,
    PeerTimeout, NoTunnel, FailRecord, Belt, Age, Expire, WriteJob, dbVars,
    envVars, histVars
<1>13. ASSUME NEW j \in Jobs, NEW p \in Poders, Place(j, p)
      PROVE  EffectsKept
  BY <1>1, <1>13, SMTT(20) DEF Place, WriteJob, envVars, histVars
<1>14. ASSUME NEW c \in Calls, WorkerError(c) \/ AckJob(c) \/ AckRecord(c) \/
             PushFail(c)
      PROVE  EffectsKept
  BY <1>1, <1>14 DEF WorkerError, AckJob, AckRecord, PushFail, WriteJob,
    CallerFails, dbVars, envVars, histVars
<1>15. ASSUME NEW n \in Nodes, NEW j \in Jobs, ResumeList(n, j)
      PROVE  EffectsKept
  BY <1>1, <1>15, SMTT(20) DEF ResumeList, envVars, histVars
<1>16. ASSUME NEW n \in Nodes, ResumeNoPayload(n) \/ ResumeNoPayloadRecord(n)
             \/ ResumeTooOld(n) \/ ResumeSettle(n) \/ ResumeClaim(n) \/ ResumeSkip(n) \/
             ResumePeerFails(n) \/ ResumeNoWorker(n) \/ ResumeFinish(n) \/ Crash(n) \/
             Restart(n)
      PROVE  EffectsKept
  BY <1>1, <1>16 DEF ResumeNoPayload, ResumeNoPayloadRecord, ResumeTooOld,
    ResumeSettle, ResumeClaim, ResumeSkip, ResumePeerFails, ResumeNoWorker,
    ResumeFinish, Crash, Restart, WriteJob, envVars, histVars, dbVars
<1>17. ASSUME NEW s \in Names, DeleteRecord(s)
      PROVE  EffectsKept
  BY <1>1, <1>17 DEF DeleteRecord, dbVars, envVars, histVars
<1>18. ASSUME NEW s \in Names, NEW n \in Nodes, IdleReap(s, n)
      PROVE  EffectsKept
  BY <1>1, <1>18 DEF IdleReap, dbVars, histVars
<1>19. ASSUME NEW p \in Poders, Disconnect(p) \/ OwnerExpire(p) \/
             HeartbeatList(p) \/ Reconcile(p)
      PROVE  EffectsKept
  BY <1>1, <1>19 DEF Disconnect, OwnerExpire, HeartbeatList, Reconcile,
    dbVars, histVars, envVars
<1>20. ASSUME NEW p \in Poders, NEW n \in Nodes, Connect(p, n)
      PROVE  EffectsKept
  BY <1>1, <1>20 DEF Connect, dbVars, histVars
<1> QED
  BY <1>2, <1>3, <1>4, <1>5, <1>6, <1>7, <1>8, <1>9, <1>10, <1>11, <1>12,
    <1>13, <1>14, <1>15, <1>16, <1>17, <1>18, <1>19, <1>20 DEF Next,
    CreateStep, WorkerStep, AnswerStep, ResumeStep, DeleteStep

\* IntentFlows is preserved.
LEMMA IntentFlowsStep ==
    ASSUME TypeOK, Assigned, Intent, RowsKept \/ RowsWritten,
           FlowsForward \/ FlowsWritten \/ RowsWritten
    PROVE  IntentFlows'
<1> USE DEF Intent, IntentFlows
<1>1. CASE RowsKept /\ FlowsForward
  BY <1>1 DEF RowsKept, FlowsForward
<1>2. ASSUME NEW j \in Jobs, NEW n \in Nodes, NEW s \in Names, AcceptSync(j, n, s)
      PROVE  IntentFlows'
  <2>1. /\ UNCHANGED job /\ cf[j].ph = "idle"
        /\ cf'[j].ph = "sched" /\ cf'[j].async = FALSE
        /\ \A i \in Jobs \ {j} : cf'[i] = cf[i]
    BY <1>2 DEF AcceptSync, dbVars, TypeOK, NoFlow
  <2> QED  BY <2>1 DEF Placed, Committed
<1>3. ASSUME NEW j \in Jobs, NEW n \in Nodes, NEW s \in Names, AcceptAsync(j, n, s)
      PROVE  IntentFlows'
  <2>1. /\ cf'[j].ph = "row" /\ cf'[j].async = TRUE
        /\ job'[j].poder = None /\ job'[j].status = "PENDING"
        /\ \A i \in Jobs \ {j} : cf'[i] = cf[i] /\ job'[i] = job[i]
    BY <1>3 DEF AcceptAsync, WriteJob, TypeOK, NoFlow
  <2> QED  BY <2>1 DEF Placed, Committed
<1>4. ASSUME NEW j \in Jobs, NEW p \in Poders, Place(j, p)
      PROVE  IntentFlows'
  <2>1. /\ cf'[j].ph = "placed" /\ cf'[j].poder = p
        /\ \A i \in Jobs \ {j} : cf'[i] = cf[i]
    BY <1>4 DEF Place, TypeOK, CreateFlow
  <2>2. /\ job'[j].poder = p /\ job'[j].status # "ABSENT"
        /\ \A i \in Jobs \ {j} : job'[i] = job[i]
    BY <1>4 DEF Place, WriteJob, TypeOK, JobRow
  <2> QED  BY <2>1, <2>2 DEF Placed, Committed
<1>5. ASSUME NEW j \in Jobs, RecordIntent(j)
      PROVE  IntentFlows'
  <2>1. /\ cf'[j].ph = "intent" /\ cf'[j].poder = cf[j].poder
        /\ \A i \in Jobs \ {j} : cf'[i] = cf[i]
    BY <1>5 DEF RecordIntent, Goto, TypeOK, CreateFlow
  <2>2. /\ job'[j].poder = cf[j].poder /\ job'[j].status # "ABSENT" /\ job'[j].req = TRUE
        /\ \A i \in Jobs \ {j} : job'[i] = job[i]
    BY <1>5 DEF RecordIntent, WriteJob, TypeOK, JobRow
  <2> QED  BY <2>1, <2>2 DEF Placed, Committed
<1> QED
  BY <1>1, <1>2, <1>3, <1>4, <1>5 DEF RowsWritten, FlowsWritten

\* No step takes a row, its payload or its worker away.
LEMMA RowsStayStep ==
    ASSUME TypeOK, Intent, RowsKept \/ RowsWritten
    PROVE  RowsStay
<1>1. CASE RowsKept
  BY <1>1 DEF RowsKept, RowsStay
<1>2. ASSUME NEW j \in Jobs, NEW n \in Nodes, NEW s \in Names, AcceptAsync(j, n, s)
      PROVE  RowsStay
  <2>1. job[j].status = "ABSENT" /\ \A i \in Jobs \ {j} : job'[i] = job[i]
    BY <1>2 DEF AcceptAsync, WriteJob, TypeOK, Intent, IntentFlows
  <2> QED  BY <2>1 DEF RowsStay
<1>3. ASSUME NEW j \in Jobs, NEW p \in Poders, Place(j, p)
      PROVE  RowsStay
  <2>1. \A i \in Jobs \ {j} : job'[i] = job[i]
    BY <1>3 DEF Place, WriteJob, TypeOK
  <2>2. CASE cf[j].async
    <3>1. job'[j].status = "IN_PROGRESS" /\ job'[j].req = job[j].req /\ job[j].poder = None
      BY <1>3, <2>2 DEF Place, WriteJob, TypeOK, JobRow, Intent, IntentFlows
    <3> QED  BY <2>1, <3>1 DEF RowsStay
  <2>3. CASE ~cf[j].async
    <3>1. job[j].status = "ABSENT"
      BY <1>3, <2>3 DEF Place, Intent, IntentFlows
    <3> QED  BY <2>1, <3>1 DEF RowsStay
  <2> QED  BY <2>2, <2>3
<1>4. ASSUME NEW j \in Jobs, RecordIntent(j)
      PROVE  RowsStay
  <2>1. /\ job'[j].status = "PENDING" /\ job'[j].req = TRUE
        /\ job'[j].poder = cf[j].poder /\ job[j].poder = cf[j].poder
        /\ \A i \in Jobs \ {j} : job'[i] = job[i]
    BY <1>4 DEF RecordIntent, WriteJob, TypeOK, Intent, IntentFlows, Placed
  <2> QED  BY <2>1 DEF RowsStay
<1> QED  BY <1>1, <1>2, <1>3, <1>4 DEF RowsWritten

\* IntentResumers is preserved.
LEMMA IntentResumersStep ==
    ASSUME TypeOK, Assigned, Intent, RowsStay, ResumersKept \/ ResumersMove
    PROVE  IntentResumers'
<1> USE DEF Assigned, ResumersAssigned, Intent, IntentResumers, Delivering
<1>1. CASE ResumersKept
  BY <1>1 DEF ResumersKept, RowsStay
<1>2. ASSUME NEW n \in Nodes, NEW j \in Jobs, ResumeList(n, j)
      PROVE  IntentResumers'
  <2>1. /\ UNCHANGED job /\ job[j].status = "PENDING"
        /\ rs'[n].ph = "read" /\ rs'[n].job = j
        /\ rs'[n].req = job[j].req /\ rs'[n].poder = job[j].poder
        /\ \A m \in Nodes \ {n} : rs'[m] = rs[m]
    BY <1>2 DEF ResumeList, TypeOK
  <2> QED  BY <2>1
<1>3. ASSUME NEW m \in Nodes, rs[m].ph # "idle", rs[m].req, rs'[m].req,
             rs'[m].job = rs[m].job, rs'[m].poder = rs[m].poder,
             \A n \in Nodes \ {m} : rs'[n] = rs[n]
      PROVE  IntentResumers'
  BY <1>3 DEF RowsStay
<1>4. ASSUME NEW n \in Nodes, ResumeClaim(n)
      PROVE  IntentResumers'
  BY <1>3, <1>4 DEF ResumeClaim, TypeOK, Resumer
<1>5. ASSUME NEW n \in Nodes, NEW c \in Calls,
             ResumeDeliver(n, c) \/ ResumeDeliverToPeer(n, c)
      PROVE  IntentResumers'
  BY <1>3, <1>5, SMTT(20) DEF ResumeDeliver, ResumeDeliverToPeer, TypeOK, Resumer
<1>6. ASSUME NEW c \in Calls, AckRecord(c)
      PROVE  IntentResumers'
  <2>1. \A n \in Nodes : rs'[n].ph # "idle" =>
           /\ rs[n].ph # "idle" /\ rs'[n].req = rs[n].req
           /\ rs'[n].job = rs[n].job /\ rs'[n].poder = rs[n].poder
           /\ rs'[n].ph \in Delivering => rs[n].ph \in Delivering
    BY <1>6 DEF AckRecord, ResumeWaits, TypeOK, Resumer
  <2> QED  BY <2>1 DEF RowsStay
<1> QED  BY <1>1, <1>2, <1>4, <1>5, <1>6 DEF ResumersMove

\* IntentBeforeDelivery is preserved: both kinds of delivery find the intent in
\* the row, and the row stays as long as the request.
LEMMA IntentCallsStep ==
    ASSUME TypeOK, Assigned, Intent, RowsStay, CallsKept \/ CallsGrow
    PROVE  IntentBeforeDelivery'
<1> USE DEF Assigned, CallsAssigned, Intent, IntentBeforeDelivery, Active
<1>0. \A p \in Poders : p # None
  OBVIOUS
<1>1. CASE CallsKept
  BY <1>0, <1>1 DEF CallsKept, RowsStay
<1>2. ASSUME NEW c \in Calls, WorkerReplace(c) \/ WorkerCreate(c)
      PROVE  IntentBeforeDelivery'
  <2>1. /\ \A d \in Calls \ {c} : call'[d] = call[d]
        /\ Active(c)' => call'[c].job = call[c].job /\ call'[c].poder = call[c].poder
        /\ Active(c) /\ UNCHANGED job
    BY <1>2 DEF WorkerReplace, WorkerCreate, dbVars, TypeOK, Call, NoCall
  <2> QED  BY <2>1
<1>3. ASSUME NEW c \in Calls, NEW k, NEW j \in Jobs, NEW p, NEW n, Sent(c, k, j, p, n),
             job[j].status # "ABSENT", job[j].req, job[j].poder = p, UNCHANGED job
      PROVE  IntentBeforeDelivery'
  BY <1>3 DEF Sent
<1>4. ASSUME NEW c \in Calls, NEW j \in Jobs, Deliver(j, c) \/ DeliverToPeer(j, c)
      PROVE  IntentBeforeDelivery'
  <2>1. Sent(c, "create", j, cf[j].poder, cf[j].node) /\ UNCHANGED job
    BY <1>4 DEF Deliver, DeliverToPeer, Send, Sent, TypeOK, dbVars
  <2>2. job[j].status # "ABSENT" /\ job[j].req /\ job[j].poder = cf[j].poder
    BY <1>4 DEF Deliver, DeliverToPeer, IntentFlows, Placed, Committed
  <2> QED  BY <1>3, <2>1, <2>2
<1>5. ASSUME NEW c \in Calls, NEW n \in Nodes,
             ResumeDeliver(n, c) \/ ResumeDeliverToPeer(n, c)
      PROVE  IntentBeforeDelivery'
  <2>1. Sent(c, "resume", rs[n].job, rs[n].poder, n) /\ UNCHANGED job
    BY <1>5 DEF ResumeDeliver, ResumeDeliverToPeer, Send, Sent, TypeOK, dbVars
  <2>2. /\ rs[n].job \in Jobs /\ job[rs[n].job].status # "ABSENT" /\ job[rs[n].job].req
        /\ job[rs[n].job].poder = rs[n].poder
    BY <1>5 DEF ResumeDeliver, ResumeDeliverToPeer, IntentResumers, ResumersAssigned,
      Delivering
  <2> QED  BY <1>3, <2>1, <2>2
<1> QED  BY <1>1, <1>2, <1>4, <1>5 DEF CallsGrow

\* QuietStays is preserved: only a flow, or a resumer with a current copy, could
\* deliver the create again.
LEMMA QuietStep ==
    ASSUME TypeOK, Assigned, CopiesCurrent, QuietStays,
           RowsKept \/ RowsWritten, FlowsForward \/ FlowsWritten \/ RowsWritten,
           CallsKept \/ CallsGrow, ResumersKept \/ ResumersMove,
           NEW j \in Jobs, doom[j] = "quiet"
    PROVE  Quiet(j)'
<1>0. Quiet(j)
  BY DEF QuietStays
<1> USE <1>0 DEF Quiet
<1>1. cf'[j].ph \in {"done", "dead"} /\ job'[j].status \in Settled
  <2>1. CASE RowsKept /\ FlowsForward
    BY <2>1 DEF RowsKept, FlowsForward
  <2>2. ASSUME NEW i \in Jobs, NEW n \in Nodes, NEW s \in Names,
               AcceptSync(i, n, s) \/ AcceptAsync(i, n, s)
        PROVE  cf'[j].ph \in {"done", "dead"} /\ job'[j].status \in Settled
    <3>1. cf[i].ph = "idle" /\ \A k \in Jobs \ {i} : cf'[k] = cf[k] /\ job'[k] = job[k]
      BY <2>2 DEF AcceptSync, AcceptAsync, WriteJob, dbVars, TypeOK
    <3> QED  BY <3>1
  <2>3. ASSUME NEW i \in Jobs, NEW p \in Poders, Place(i, p)
        PROVE  cf'[j].ph \in {"done", "dead"} /\ job'[j].status \in Settled
    <3>1. cf[i].ph = "sched" /\ \A k \in Jobs \ {i} : cf'[k] = cf[k] /\ job'[k] = job[k]
      BY <2>3 DEF Place, WriteJob, TypeOK
    <3> QED  BY <3>1
  <2>4. ASSUME NEW i \in Jobs, RecordIntent(i)
        PROVE  cf'[j].ph \in {"done", "dead"} /\ job'[j].status \in Settled
    <3>1. cf[i].ph = "recorded" /\ \A k \in Jobs \ {i} : cf'[k] = cf[k] /\ job'[k] = job[k]
      BY <2>4 DEF RecordIntent, Goto, WriteJob, TypeOK
    <3> QED  BY <3>1
  <2> QED
    BY <2>1, <2>2, <2>3, <2>4 DEF RowsWritten, FlowsWritten
<1>2. \A c \in Calls : Active(c)' => call'[c].job # j
  <2>1. CASE CallsKept
    BY <2>1 DEF CallsKept, Active
  <2>2. ASSUME NEW c \in Calls, WorkerReplace(c) \/ WorkerCreate(c)
        PROVE  \A d \in Calls : Active(d)' => call'[d].job # j
    <3>1. /\ \A d \in Calls \ {c} : call'[d] = call[d]
          /\ Active(c)' => call'[c].job = call[c].job
          /\ Active(c)
      BY <2>2 DEF WorkerReplace, WorkerCreate, TypeOK, Call, NoCall, Active
    <3> QED  BY <3>1 DEF Active
  <2>3. ASSUME NEW c \in Calls, NEW k, NEW i \in Jobs, NEW p, NEW n, Sent(c, k, i, p, n), i # j
        PROVE  \A d \in Calls : Active(d)' => call'[d].job # j
    BY <2>3 DEF Sent, Active
  <2>4. ASSUME NEW c \in Calls, NEW i \in Jobs, Deliver(i, c) \/ DeliverToPeer(i, c)
        PROVE  \A d \in Calls : Active(d)' => call'[d].job # j
    <3>1. Sent(c, "create", i, cf[i].poder, cf[i].node) /\ cf[i].ph = "intent"
      BY <2>4 DEF Deliver, DeliverToPeer, Send, Sent, TypeOK
    <3> QED  BY <2>3, <3>1
  <2>5. ASSUME NEW c \in Calls, NEW n \in Nodes,
               ResumeDeliver(n, c) \/ ResumeDeliverToPeer(n, c)
        PROVE  \A d \in Calls : Active(d)' => call'[d].job # j
    <3>1. Sent(c, "resume", rs[n].job, rs[n].poder, n) /\ rs[n].ph = "claimed"
      BY <2>5 DEF ResumeDeliver, ResumeDeliverToPeer, Send, Sent, TypeOK
    <3>2. rs[n].job \in Jobs /\ rs[n].job # j
      BY <3>1 DEF Assigned, ResumersAssigned, Delivering
    <3> QED  BY <2>3, <3>1, <3>2
  <2> QED  BY <2>1, <2>2, <2>4, <2>5 DEF CallsGrow
<1>3. \A n \in Nodes : rs'[n].ph \in Delivering => rs'[n].job # j
  <2> USE DEF Delivering
  <2>1. CASE ResumersKept
    BY <2>1 DEF ResumersKept
  <2>2. ASSUME NEW n \in Nodes, NEW i \in Jobs, ResumeList(n, i)
        PROVE  \A m \in Nodes : rs'[m].ph \in Delivering => rs'[m].job # j
    BY <2>2 DEF ResumeList, TypeOK
  <2>3. ASSUME NEW n \in Nodes, ResumeClaim(n)
        PROVE  \A m \in Nodes : rs'[m].ph \in Delivering => rs'[m].job # j
    <3>1. n \in current[rs[n].job] /\ rs'[n].job = rs[n].job
          /\ \A m \in Nodes \ {n} : rs'[m] = rs[m]
      BY <2>3 DEF ResumeClaim, TypeOK, Resumer
    <3>2. rs[n].job # j
      BY <3>1 DEF CopiesCurrent, Settled, Terminal
    <3> QED  BY <3>1, <3>2
  <2>4. ASSUME NEW n \in Nodes, NEW c \in Calls,
               ResumeDeliver(n, c) \/ ResumeDeliverToPeer(n, c)
        PROVE  \A m \in Nodes : rs'[m].ph \in Delivering => rs'[m].job # j
    BY <2>4 DEF ResumeDeliver, ResumeDeliverToPeer, TypeOK, Resumer
  <2>5. ASSUME NEW c \in Calls, AckRecord(c)
        PROVE  \A m \in Nodes : rs'[m].ph \in Delivering => rs'[m].job # j
    BY <2>5 DEF AckRecord, ResumeWaits, TypeOK, Resumer
  <2> QED  BY <2>1, <2>2, <2>3, <2>4, <2>5 DEF ResumersMove
<1> QED  BY <1>1, <1>2, <1>3 DEF Active

\* A deleted job that nobody works on is quiet, and a quiet one stays so.
LEMMA QuietStaysStep ==
    ASSUME TypeOK, Assigned, CopiesCurrent, QuietStays, EffectsKept,
           RowsKept \/ RowsWritten, FlowsForward \/ FlowsWritten \/ RowsWritten,
           CallsKept \/ CallsGrow, ResumersKept \/ ResumersMove
    PROVE  QuietStays'
<1>1. CASE UNCHANGED doom
  BY <1>1, QuietStep DEF QuietStays
<1>2. ASSUME NEW s \in Names, NEW n \in Nodes, DeleteFailJobs(s, n)
      PROVE  QuietStays'
  <2>1. SUFFICES ASSUME NEW j \in Jobs, doom'[j] = "quiet" PROVE Quiet(j)'
    BY DEF QuietStays
  <2>2. CASE NameOf(j) # s
    BY <1>2, <2>1, <2>2, QuietStep DEF DeleteFailJobs
  <2>3. CASE NameOf(j) = s
    <3>1. Unattended(j)
      BY <1>2, <2>1, <2>3 DEF DeleteFailJobs
    <3>2. job'[j].status \in Settled
      BY <1>2, <2>3, <3>1 DEF DeleteFailJobs, Unattended, TypeOK, JobRow, JobStatus,
        Settled, Terminal
    <3> QED  BY <1>2, <3>1, <3>2 DEF DeleteFailJobs, Unattended, Quiet, Active
  <2> QED  BY <2>2, <2>3
<1> QED  BY <1>1, <1>2 DEF EffectsKept

\* Where the steps of a request leave the name it is about.
LEMMA NamesOfCalls ==
    ASSUME CallsAssigned, FlowsAssigned, NamesStay
    PROVE  \A c \in Calls : Active(c) =>
              /\ call[c].job \in Jobs /\ call[c].poder \in Poders
              /\ NameOf(call[c].job) \in Names
              /\ cf'[call[c].job].name = NameOf(call[c].job)
BY DEF CallsAssigned, FlowsAssigned, NamesStay, NameOf

\* Serial is preserved by the steps that send nothing and create nothing.
LEMMA SerialQuietly ==
    ASSUME TypeOK, TypeOK', Assigned, Serial, NamesStay, CallsKept, FewerContainers,
           overlapped \subseteq overlapped'
    PROVE  Serial'
<1> USE DEF NameOf
<1>1. \A c \in Calls : call'[c].w \in AtWorker =>
         /\ call'[c].w = call[c].w /\ call[c].w \in AtWorker
         /\ call'[c].poder = call[c].poder /\ call[c].poder \in Poders
         /\ cf'[call'[c].job].name = NameOf(call[c].job) /\ NameOf(call[c].job) \in Names
  BY NamesOfCalls DEF CallsKept, Active, AtWorker, Assigned
<1>2. OneAtWork'
  BY <1>1 DEF OneAtWork, Serial
<1>3. ClearedIsEmpty'
  <2>1. SUFFICES ASSUME NEW c \in Calls, call'[c].w = "cleared",
                        cf'[call'[c].job].name \notin overlapped'
                 PROVE  cnt'[call'[c].poder][cf'[call'[c].job].name] = 0
    BY DEF ClearedIsEmpty
  <2>2. /\ call[c].w = "cleared" /\ call'[c].poder = call[c].poder /\ call[c].poder \in Poders
        /\ cf'[call'[c].job].name = cf[call[c].job].name /\ cf[call[c].job].name \in Names
    BY <1>1, <2>1 DEF AtWorker
  <2>3. cnt[call[c].poder][cf[call[c].job].name] = 0
    BY <2>1, <2>2 DEF ClearedIsEmpty, Serial
  <2>4. \A p \in Poders, s \in Names : cnt[p][s] = 0 => cnt'[p][s] = 0
    BY DEF FewerContainers
  <2> QED  BY <2>2, <2>3, <2>4
<1>4. SerialDeliveriesReplace'
  BY DEF SerialDeliveriesReplace, Serial, FewerContainers, TypeOK, Containers
<1> QED  BY <1>2, <1>3, <1>4 DEF Serial

\* Serial is preserved by a delivery: a second request for the name is noticed
\* when it is sent.
LEMMA SerialSend ==
    ASSUME TypeOK, TypeOK', Assigned, Serial, NamesStay, UNCHANGED <<cnt>>,
           overlapped \subseteq overlapped',
           NEW c \in Calls, NEW j \in Jobs, NEW p \in Poders, NEW k, NEW n,
           Sent(c, k, j, p, n), cf[j].ph # "idle",
           Rival(c, p, NameOf(j)) => NameOf(j) \in overlapped'
    PROVE  Serial'
<1> USE DEF NameOf
<1>1. \A d \in Calls \ {c} : call'[d].w \in AtWorker =>
         /\ call'[d] = call[d] /\ call[d].poder \in Poders
         /\ cf'[call[d].job].name = NameOf(call[d].job) /\ NameOf(call[d].job) \in Names
  BY NamesOfCalls DEF Sent, Active, AtWorker, Assigned
<1>2. /\ call'[c].w = "sent" /\ call'[c].poder = p /\ call'[c].job = j
      /\ cf'[j].name = NameOf(j)
  BY DEF Sent, NamesStay
<1>3. \A d \in Calls \ {c} :
         /\ call[d].w \in AtWorker /\ call[d].poder = p /\ NameOf(call[d].job) = NameOf(j)
         => NameOf(j) \in overlapped'
  BY DEF Rival, AtWorker
<1>4. OneAtWork'
  BY <1>1, <1>2, <1>3 DEF OneAtWork, Serial
<1>5. ClearedIsEmpty'
  BY <1>1, <1>2, SMTT(20) DEF ClearedIsEmpty, Serial, AtWorker
<1>6. SerialDeliveriesReplace'
  BY DEF SerialDeliveriesReplace, Serial
<1> QED  BY <1>4, <1>5, <1>6 DEF Serial

\* Serial is preserved by the worker's two steps: the replacement leaves no
\* container, and the creation then leaves one.
LEMMA SerialWorker ==
    ASSUME TypeOK, TypeOK', Assigned, Serial, NamesStay,
           NEW c \in Calls, WorkerReplace(c) \/ WorkerCreate(c)
    PROVE  Serial'
<1> USE DEF NameOf
<1> DEFINE p == call[c].poder  s == NameOf(call[c].job)
<1>1. p \in Poders /\ s \in Names /\ UNCHANGED <<overlapped, cf>>
  <2>1. Active(c) /\ UNCHANGED <<overlapped, cf>>
    <3>1. CASE WorkerReplace(c)
      BY <3>1 DEF WorkerReplace, Active, histVars
    <3>2. CASE WorkerCreate(c)
      BY <3>2 DEF WorkerCreate, Active
    <3> QED  BY <3>1, <3>2
  <2>2. CallsAssigned /\ FlowsAssigned
    BY DEF Assigned
  <2> QED  BY <2>1, <2>2, NamesOfCalls
<1>2. /\ call'[c].w \in AtWorker =>
            call'[c].poder = p /\ call'[c].job = call[c].job /\ call[c].w \in AtWorker
      /\ call[c].w \in AtWorker
      /\ \A d \in Calls \ {c} : call'[d] = call[d]
  BY DEF WorkerReplace, WorkerCreate, TypeOK, Call, NoCall, AtWorker
<1>3. OneAtWork'
  BY <1>1, <1>2, SMTT(20) DEF OneAtWork, Serial
<1>4. s \in overlapped \/ \A d \in Calls \ {c} :
         ~(call[d].w \in AtWorker /\ call[d].poder = p /\ NameOf(call[d].job) = s)
  BY <1>2 DEF Serial, OneAtWork
<1>0. cnt \in Containers
  BY DEF TypeOK
<1>5. CASE WorkerReplace(c)
  <2> DEFINE v == IF cnt[p][s] = 0 THEN 0 ELSE cnt[p][s] - 1
  <2>0. cnt' = [cnt EXCEPT ![p][s] = v] \/ (Rival(c, p, s) /\ UNCHANGED cnt)
    BY <1>5 DEF WorkerReplace
  <2>1. s \in overlapped \/ ~Rival(c, p, s)
    BY <1>4 DEF Rival, AtWorker
  <2>2. s \notin overlapped => cnt'[p][s] = 0
    <3>1. s \notin overlapped => v = 0
      BY <1>0, <1>1, ContainerNumbers DEF Serial, SerialDeliveriesReplace
    <3> HIDE DEF p, s, v
    <3>2. s \notin overlapped => cnt' = [cnt EXCEPT ![p][s] = v]
      BY <2>0, <2>1
    <3>3. s \notin overlapped => cnt'[p][s] = v
      BY <1>0, <1>1, <3>2, ContainerValues, SMTT(20)
    <3> QED  BY <3>1, <3>3
  <2>3. \A q \in Poders, r \in Names : cnt'[q][r] \in Nat /\ cnt'[q][r] <= cnt[q][r]
    <3>1. v \in Nat /\ v <= cnt[p][s]
      BY <1>0, <1>1, ContainerNumbers
    <3> HIDE DEF p, s, v
    <3>2. CASE UNCHANGED cnt
      BY <1>0, <3>2, ContainerNumbers
    <3>3. CASE cnt' = [cnt EXCEPT ![p][s] = v]
      <4>1. /\ cnt'[p][s] = v
            /\ \A q \in Poders, r \in Names : q # p \/ r # s => cnt'[q][r] = cnt[q][r]
        BY <1>0, <1>1, <3>3, ContainerValues
      <4> QED  BY <1>0, <3>1, <4>1, ContainerNumbers
    <3> QED  BY <2>0, <3>2, <3>3
  <2>4. \A d \in Calls \ {c} : call[d].w = "cleared" =>
           call[d].poder \in Poders /\ NameOf(call[d].job) \in Names
    BY NamesOfCalls DEF Active, Assigned
  <2>5. ClearedIsEmpty'
    <3>1. SUFFICES ASSUME NEW d \in Calls, call'[d].w = "cleared",
                          cf'[call'[d].job].name \notin overlapped'
                   PROVE  cnt'[call'[d].poder][cf'[call'[d].job].name] = 0
      BY DEF ClearedIsEmpty
    <3>2. CASE d = c
      BY <1>1, <1>2, <2>2, <3>1, <3>2 DEF AtWorker
    <3>3. CASE d # c
      <4>1. call[d].w = "cleared" /\ call'[d] = call[d] /\ NameOf(call[d].job) \notin overlapped
        BY <1>1, <1>2, <3>1, <3>3
      <4>2. cnt[call[d].poder][NameOf(call[d].job)] = 0
        BY <4>1 DEF Serial, ClearedIsEmpty
      <4>3. cf'[call[d].job].name = NameOf(call[d].job)
        BY <1>1
      <4> QED  BY <2>3, <2>4, <3>3, <4>1, <4>2, <4>3 DEF TypeOK, Containers
    <3> QED  BY <3>2, <3>3
  <2>6. SerialDeliveriesReplace'
    BY <1>1, <2>3, SMTT(20) DEF SerialDeliveriesReplace, Serial, TypeOK, Containers
  <2> QED  BY <1>3, <2>5, <2>6 DEF Serial
<1>6. CASE WorkerCreate(c)
  <2>1. s \notin overlapped => cnt[p][s] = 0
    BY <1>6 DEF WorkerCreate, Serial, ClearedIsEmpty
  <2>2. /\ cnt'[p][s] = cnt[p][s] + 1
        /\ \A q \in Poders, r \in Names : q # p \/ r # s => cnt'[q][r] = cnt[q][r]
    <3> DEFINE v == cnt[p][s] + 1
    <3>1. cnt' = [cnt EXCEPT ![p][s] = v]
      BY <1>6 DEF WorkerCreate
    <3>2. /\ cnt'[p][s] = v
          /\ \A q \in Poders, r \in Names : q # p \/ r # s => cnt'[q][r] = cnt[q][r]
      <4> HIDE DEF p, s, v
      <4> QED  BY <1>0, <1>1, <3>1, ContainerValues, SMTT(20)
    <3> QED  BY <3>2, SMTT(20)
  <2>3. call'[c].w # "cleared"
    BY <1>6, SMTT(20) DEF WorkerCreate, TypeOK, Call, NoCall
  <2>4. \A d \in Calls \ {c} : call[d].w = "cleared" =>
           call[d].poder \in Poders /\ NameOf(call[d].job) \in Names
    BY NamesOfCalls DEF Active, Assigned
  <2>5. ClearedIsEmpty'
    <3>1. SUFFICES ASSUME NEW d \in Calls, call'[d].w = "cleared",
                          cf'[call'[d].job].name \notin overlapped'
                   PROVE  cnt'[call'[d].poder][cf'[call'[d].job].name] = 0
      BY DEF ClearedIsEmpty
    <3>2. /\ d # c /\ call[d].w = "cleared" /\ call'[d] = call[d]
          /\ NameOf(call[d].job) \notin overlapped /\ cf'[call[d].job].name = NameOf(call[d].job)
      BY <1>1, <1>2, <2>3, <3>1
    <3>3. cnt[call[d].poder][NameOf(call[d].job)] = 0
      BY <3>2 DEF Serial, ClearedIsEmpty
    <3>4. call[d].poder # p \/ NameOf(call[d].job) # s
      BY <1>4, <3>2 DEF AtWorker
    <3> QED  BY <2>2, <2>4, <3>2, <3>3, <3>4
  <2>6. SerialDeliveriesReplace'
    <3>1. \A q \in Poders, r \in Names : r \notin overlapped => cnt[q][r] <= 1
      BY DEF Serial, SerialDeliveriesReplace
    <3>2. s \notin overlapped => cnt'[p][s] <= 1
      BY <2>1, <2>2
    <3>3. \A q \in Poders, r \in Names : r \notin overlapped => cnt'[q][r] <= 1
      <4> HIDE DEF p, s
      <4> QED  BY <2>2, <3>1, <3>2
    <3> QED  BY <1>1, <3>3 DEF SerialDeliveriesReplace
  <2> QED  BY <1>3, <2>5, <2>6 DEF Serial
<1> QED  BY <1>5, <1>6

\* Serial is preserved.
LEMMA SerialStep ==
    ASSUME TypeOK, TypeOK', Assigned, Serial, NamesStay, EffectsKept, CallsKept \/ CallsGrow
    PROVE  Serial'
<1> USE DEF NameOf
<1>1. overlapped \subseteq overlapped'
  BY DEF EffectsKept
<1>2. CASE CallsKept /\ FewerContainers
  BY <1>1, <1>2, SerialQuietly
<1>3. ASSUME NEW c \in Calls, WorkerReplace(c) \/ WorkerCreate(c)
      PROVE  Serial'
  BY <1>3, SerialWorker
<1>4. ASSUME NEW c \in Calls, NEW j \in Jobs, Deliver(j, c) \/ DeliverToPeer(j, c)
      PROVE  Serial'
  <2>1. /\ Sent(c, "create", j, cf[j].poder, cf[j].node) /\ UNCHANGED cnt
        /\ Rival(c, cf[j].poder, NameOf(j)) => NameOf(j) \in overlapped'
    BY <1>4 DEF Deliver, DeliverToPeer, Send, Sent, TypeOK
  <2>2. cf[j].ph # "idle" /\ cf[j].poder \in Poders
    BY <1>4 DEF Deliver, DeliverToPeer, Assigned, FlowsAssigned, Placed
  <2> QED  BY <1>1, <2>1, <2>2, SerialSend
<1>5. ASSUME NEW c \in Calls, NEW n \in Nodes,
             ResumeDeliver(n, c) \/ ResumeDeliverToPeer(n, c)
      PROVE  Serial'
  <2>1. /\ Sent(c, "resume", rs[n].job, rs[n].poder, n) /\ UNCHANGED cnt
        /\ Rival(c, rs[n].poder, NameOf(rs[n].job)) => NameOf(rs[n].job) \in overlapped'
        /\ call'[c].poder = rs[n].poder
    BY <1>5 DEF ResumeDeliver, ResumeDeliverToPeer, Send, Sent, TypeOK
  <2>2. rs[n].job \in Jobs /\ cf[rs[n].job].ph # "idle" /\ rs[n].poder \in Poders
    BY <1>5 DEF ResumeDeliver, ResumeDeliverToPeer, Assigned, ResumersAssigned, TypeOK, Resumer
  <2> QED  BY <1>1, <2>1, <2>2, SerialSend
<1> QED  BY <1>2, <1>3, <1>4, <1>5 DEF CallsGrow, EffectsKept

-----------------------------------------------------------------------------
(* The theorems *)

\* What the proofs carry from step to step.
IndInv == /\ TypeOK /\ Assigned /\ Evidence /\ CopiesCurrent
          /\ Intent /\ QuietStays /\ Serial

\* It holds of the empty database.
LEMMA InitInv == Init => IndInv
<1> SUFFICES ASSUME Init PROVE IndInv
  OBVIOUS
<1>1. TypeOK
  BY JobRowFacts, SbRowFacts, FlowFacts, ResumerFacts, CallFacts, DeleterFacts
     DEF Init, TypeOK, Containers, Beat, Spent
<1>2. Assigned
  BY DEF Init, Assigned, FlowsAssigned, CallsAssigned, ResumersAssigned, NoFlow,
     NoJob, NoCall, NoResume, Active, Placed
<1>3. Evidence
  BY DEF Init, Evidence, AnswersMatch, JobsMade, RecordsMade, CallsMade,
     ResumersMade, ContainersMade, NoJob, NoSandbox, NoCall, NoResume, Active
<1>4. CopiesCurrent
  BY DEF Init, CopiesCurrent
<1>5. Intent
  BY DEF Init, Intent, IntentFlows, IntentResumers, IntentBeforeDelivery, NoFlow, NoJob,
     NoCall, NoResume, Active, Placed, Committed
<1>6. QuietStays
  BY DEF Init, QuietStays
<1>7. Serial
  BY DEF Init, Serial, OneAtWork, ClearedIsEmpty, SerialDeliveriesReplace, NoCall, AtWorker
<1> QED  BY <1>1, <1>2, <1>3, <1>4, <1>5, <1>6, <1>7 DEF IndInv

\* Every step of every process keeps it.
LEMMA NextInv == IndInv /\ [Next]_vars => IndInv'
<1> SUFFICES ASSUME IndInv, [Next]_vars PROVE IndInv'
  OBVIOUS
<1> USE DEF IndInv
<1>1. TypeOK' /\ NamesStay /\ (CallsKept \/ CallsGrow)
      /\ (ResumersKept \/ ResumersMove) /\ made \subseteq made'
  BY TypeStep, NamesStep, CallsStep, ResumersStep, MadeStep
<1>2. Assigned'
  BY <1>1, FlowsStep, CallsAssignedStep, ResumersAssignedStep DEF Assigned
<1>3. AnswersMatch'
  BY <1>1, AnswersStep DEF Evidence
<1>4. Evidence'
  BY <1>1, <1>3, JobsMadeStep, RecordsMadeStep, CallsMadeStep, ResumersMadeStep,
     ContainersMadeStep DEF Evidence
<1>5. CopiesCurrent'
  BY CopiesStep
<1>6. /\ RowsKept \/ RowsWritten
      /\ FlowsForward \/ FlowsWritten \/ RowsWritten
      /\ EffectsKept
  BY RowsStep, ForwardStep, EffectsStep DEF Assigned
<1>7. Intent'
  <2>1. RowsStay
    BY <1>6, RowsStayStep
  <2>2. IntentFlows'
    BY <1>6, IntentFlowsStep
  <2>3. IntentResumers' /\ IntentBeforeDelivery'
    BY <1>1, <2>1, IntentResumersStep, IntentCallsStep
  <2> QED  BY <2>2, <2>3 DEF Intent
<1>8. QuietStays'
  BY <1>1, <1>6, QuietStaysStep
<1>9. Serial'
  BY <1>1, <1>6, SerialStep
<1> QED  BY <1>1, <1>2, <1>4, <1>5, <1>7, <1>8, <1>9

\* The inductive invariant holds throughout every behaviour.
THEOREM Invariance == Spec => []IndInv
BY InitInv, NextInv, PTL DEF Spec

\* The tables, processes and messages always have their types, for any number
\* of instances, workers, jobs and requests.
THEOREM TypeCorrect == Spec => []TypeOK
<1>1. IndInv => TypeOK
  BY DEF IndInv
<1> QED  BY <1>1, Invariance, PTL

\* Nothing is reported done that was not done: a job is COMPLETED and a record
\* RUNNING only if a worker made a container of that name (pushCreateToPoder,
\* resumeOnce, reconcileByHeartbeat).
THEOREM DoneIsDelivered == Spec => []DeliveredBeforeDone
<1>1. IndInv => DeliveredBeforeDone
  BY DEF IndInv, Evidence, JobsMade, RecordsMade, DeliveredBeforeDone
<1> QED  BY <1>1, Invariance, PTL

\* The outbox rule (create.go step 3a) for any number of instances and failures:
\* whatever is in flight to a worker, from the create flow or from a resumer, is
\* in the jobs table with its payload and that worker's id.
THEOREM IntentComesFirst == Spec => []IntentBeforeDelivery
<1>1. IndInv => IntentBeforeDelivery
  BY DEF IndInv, Intent
<1> QED  BY <1>1, Invariance, PTL

\* failJobsFor: after a delete at which nobody worked on a create, no flow, no
\* request and no resumer of any instance ever works on it again.
THEOREM DeletesStick == Spec => []DeleteSticks
<1>1. IndInv => DeleteSticks
  BY DEF IndInv, QuietStays, Quiet, DeleteSticks
<1> QED  BY <1>1, Invariance, PTL

\* CreatePod's replacement leaves at most one container for a name whose
\* deliveries never overlapped at a worker, however often they were retried.
THEOREM SerialReplaces == Spec => []SerialDeliveriesReplace
<1>1. IndInv => SerialDeliveriesReplace
  BY DEF IndInv, Serial
<1> QED  BY <1>1, Invariance, PTL

\* ClaimJob never wins a row that is settled, in progress or fresh, although it
\* compares nothing but updated_at.
THEOREM ClaimsAreStalePending == Spec => ClaimsOnlyStalePending
<1> DEFINE Claim(n) == rs[n].ph = "read" /\ rs'[n].ph = "claimed"
             => job[rs[n].job].status = "PENDING" /\ rs[n].job \in stale
<1>1. ASSUME IndInv, [Next]_vars, NEW n \in Nodes PROVE Claim(n)
  <2> SUFFICES ASSUME rs[n].ph = "read", rs'[n].ph = "claimed"
               PROVE  job[rs[n].job].status = "PENDING" /\ rs[n].job \in stale
    OBVIOUS
  <2>1. ResumeClaim(n)
    <3>1. ~ResumersKept
      BY DEF ResumersKept
    <3>2. ResumersMove
      BY <1>1, <3>1, ResumersStep DEF IndInv
    <3>3. rs \in [Nodes -> Resumer]
      BY <1>1 DEF IndInv, TypeOK
    <3>4. \A m \in Nodes, j \in Jobs : ~ResumeList(m, j)
      BY <3>3 DEF ResumeList
    <3>5. \A m \in Nodes, c \in Calls : ~ResumeDeliver(m, c) /\ ~ResumeDeliverToPeer(m, c)
      BY <3>3 DEF ResumeDeliver, ResumeDeliverToPeer, Resumer
    <3>6. \A c \in Calls : ~AckRecord(c)
      BY <3>3 DEF AckRecord, Resumer
    <3>7. \A m \in Nodes : ResumeClaim(m) => m = n
      BY <3>3 DEF ResumeClaim
    <3> QED  BY <3>2, <3>4, <3>5, <3>6, <3>7 DEF ResumersMove
  <2>2. rs[n].job \in Jobs
    BY <1>1 DEF IndInv, Assigned, ResumersAssigned
  <2> QED  BY <1>1, <2>1, <2>2 DEF IndInv, CopiesCurrent, ResumeClaim
<1>2. IndInv /\ [Next]_vars => [\A n \in Nodes : Claim(n)]_vars
  BY <1>1
<1>3. [](IndInv) /\ [][Next]_vars => [][\A n \in Nodes : Claim(n)]_vars
  BY <1>2, PTL
<1> QED  BY <1>3, Invariance DEF Spec, ClaimsOnlyStalePending
=============================================================================
