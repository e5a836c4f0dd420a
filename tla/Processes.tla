------------------------------ MODULE Processes ------------------------------
(***************************************************************************)
(* One program run inside a sandbox (pkg/toolbox), through one of the five *)
(* doors that start one:                                                   *)
(*   execute   POST /process: answered once, when the program has ended    *)
(*   stream    POST /process/stream: output as it comes, then the exit     *)
(*   proc      the process table of the E2B layer: started once, its       *)
(*             output kept and replayed to any number of subscribers       *)
(*   procpty   the same on a pseudo-terminal                               *)
(*   term      a terminal over a websocket: nothing is kept                *)
(*                                                                         *)
(* State: the door; the program (running, how it ended, the descendants    *)
(* it left: in its process group, or escaped from it); for every pipe how  *)
(* much was written, how much was read and whether its reader still runs;  *)
(* the input on its way; what was kept; the call that waits for it; the    *)
(* subscribers, with what each was sent.                                   *)
(***************************************************************************)
EXTENDS Integers, Sequences

CONSTANTS Doors,      \* the doors to look at
          Subs,       \* subscribers or websockets
          MaxOut,     \* bound on chunks of output
          MaxCalls    \* bound on requests

VARIABLES door, pr, pipe, inp, buf, call, subs, calls

vars == <<door, pr, pipe, inp, buf, call, subs, calls>>

Tabled == door \in {"proc", "procpty"}
Waited == door \in {"execute", "stream"}

\* Standard output and error are two pipes; a pseudo-terminal is one.
Pipes(d) == IF d \in {"procpty", "term"} THEN {"pty"} ELSE {"out", "err"}

\* Somebody holds the writing ends.
Writers == pr.st = "up" \/ pr.kin # "none"

Drained == \A p \in DOMAIN pipe : ~pipe[p].open

NoProgram == [st |-> "none", code |-> "none", kin |-> "none", reads |-> FALSE]

\* The whole group is killed; a descendant that left the group is not.
KillGroup(q) ==
    [q EXCEPT !.st = "exited", !.code = IF q.st = "up" THEN "killed" ELSE @,
              !.kin = IF @ = "group" THEN "none" ELSE @]

-----------------------------------------------------------------------------
(* Starting *)

Started(d) ==
    /\ door = "none" /\ calls < MaxCalls
    /\ calls' = calls + 1
    /\ door' = d
    /\ \E r \in BOOLEAN : pr' = [NoProgram EXCEPT !.st = "up", !.reads = r]
    /\ pipe' = [p \in Pipes(d) |-> [wrote |-> 0, read |-> 0, open |-> TRUE]]
    /\ UNCHANGED <<inp, buf, subs>>

\* A free slot, a command the policy lets pass and a language that is known:
\* the program starts with one reader per pipe, and the call waits.
ExecuteStream(d) ==
    /\ d \in {"execute", "stream"}
    /\ Started(d)
    /\ call' = [st |-> "waiting", code |-> "none"]

\* No slot, refused by the policy, unknown language, or it does not start.
ExecRefused(d) ==
    /\ d \in {"execute", "stream"}
    /\ door = "none" /\ calls < MaxCalls /\ calls' = calls + 1
    /\ call' = [st |-> "returned", code |-> "error"]
    /\ UNCHANGED <<door, pr, pipe, inp, buf, subs>>

\* The table's Start returns the pid at once.
ProcStart(d) ==
    /\ d \in {"proc", "procpty"}
    /\ Started(d)
    /\ UNCHANGED call

\* Refused by the policy, no working directory, no sandbox, or no start.
ProcRefused(d) ==
    /\ d \in {"proc", "procpty", "term"}
    /\ door = "none" /\ calls < MaxCalls /\ calls' = calls + 1
    /\ UNCHANGED <<door, pr, pipe, inp, buf, call, subs>>

\* A terminal's shell, after the user's consent; its own session on the pty.
PtyCreate ==
    /\ Started("term")
    /\ UNCHANGED call

-----------------------------------------------------------------------------
(* The program *)

\* The program, or a descendant, writes; one that reads its input needs some.
Writes(p) ==
    /\ Writers
    /\ pipe[p].wrote < MaxOut
    /\ pr.reads => inp.sent > 0
    /\ pipe' = [pipe EXCEPT ![p].wrote = @ + 1]
    /\ inp' = [inp EXCEPT !.sent = IF pr.reads THEN @ - 1 ELSE @]
    /\ UNCHANGED <<door, pr, buf, call, subs, calls>>

\* It ends, and may leave a descendant with its pipes.
Exits ==
    /\ pr.st = "up"
    /\ pr.reads => inp.closed
    /\ \E c \in {"zero", "other"}, k \in {"none", "group", "escaped"} :
          pr' = [pr EXCEPT !.st = "exited", !.code = c, !.kin = k]
    /\ UNCHANGED <<door, pipe, inp, buf, call, subs, calls>>

KinEnds ==
    /\ pr.kin # "none"
    /\ pr' = [pr EXCEPT !.kin = "none"]
    /\ UNCHANGED <<door, pipe, inp, buf, call, subs, calls>>

-----------------------------------------------------------------------------
(* The readers and the end *)

\* A reader takes the next chunk and keeps it (a terminal's goes elsewhere).
Pump(p) ==
    /\ door # "term"
    /\ pipe[p].open /\ pipe[p].read < pipe[p].wrote
    /\ pipe' = [pipe EXCEPT ![p].read = @ + 1]
    /\ buf' = Append(buf, <<p, pipe[p].read + 1>>)
    /\ UNCHANGED <<door, pr, inp, call, subs, calls>>

\* End of file: nobody can write any more and nothing is left to read.
PumpEnds(p) ==
    /\ door # "term"
    /\ pipe[p].open /\ pipe[p].read = pipe[p].wrote /\ ~Writers
    /\ pipe' = [pipe EXCEPT ![p].open = FALSE]
    /\ UNCHANGED <<door, pr, inp, buf, call, subs, calls>>

HasEnded == \E i \in DOMAIN buf : buf[i][1] = "end"

\* Mutant of AppendEnd: the end is recorded when the program is gone, whatever
\* is still in the pipes.
AppendEndEarly ==
    /\ Tabled /\ pr.st = "exited" /\ ~HasEnded
    /\ buf' = Append(buf, <<"end", pr.code>>)
    /\ UNCHANGED <<door, pr, pipe, inp, call, subs, calls>>

\* Both readers are through and the program is waited for.
AppendEnd ==
    /\ Tabled /\ Drained /\ pr.st = "exited" /\ ~HasEnded
    /\ buf' = Append(buf, <<"end", pr.code>>)
    /\ UNCHANGED <<door, pr, pipe, inp, call, subs, calls>>

\* Mutant of Deadline: only the program is killed, not its group.
DeadlineOne ==
    /\ Waited /\ call.st = "waiting"
    /\ call' = [call EXCEPT !.st = "killed"]
    /\ pr' = [pr EXCEPT !.st = "exited", !.code = IF pr.st = "up" THEN "killed" ELSE @]
    /\ UNCHANGED <<door, pipe, inp, buf, subs, calls>>

\* The call's time is over: the group is killed, and the call waits on.
Deadline ==
    /\ Waited /\ call.st = "waiting"
    /\ call' = [call EXCEPT !.st = "killed"]
    /\ pr' = KillGroup(pr)
    /\ UNCHANGED <<door, pipe, inp, buf, subs, calls>>

\* The answer: 124 after the deadline, else how the program ended.
ExecReturns ==
    /\ Waited /\ call.st \in {"waiting", "killed"}
    /\ Drained /\ pr.st = "exited"
    /\ call' = [st |-> "returned",
                code |-> IF call.st = "killed" THEN "timeout" ELSE pr.code]
    /\ UNCHANGED <<door, pr, pipe, inp, buf, subs, calls>>

-----------------------------------------------------------------------------
(* Subscribers of the table *)

\* The start event comes first, then everything from the beginning.
Attach(s) ==
    /\ Tabled /\ subs[s].st = "off" /\ calls < MaxCalls
    /\ calls' = calls + 1
    /\ subs' = [subs EXCEPT ![s] = [st |-> "on", got |-> <<>>]]
    /\ UNCHANGED <<door, pr, pipe, inp, buf, call>>

Pending(s) == Len(subs[s].got) < Len(buf)

Deliver(s) ==
    /\ Tabled /\ subs[s].st = "on" /\ Pending(s)
    /\ subs' = [subs EXCEPT ![s].got = Append(@, buf[Len(@) + 1])]
    /\ UNCHANGED <<door, pr, pipe, inp, buf, call, calls>>

StreamEnds(s) ==
    /\ Tabled /\ subs[s].st = "on" /\ HasEnded /\ ~Pending(s)
    /\ subs' = [subs EXCEPT ![s].st = "ended"]
    /\ UNCHANGED <<door, pr, pipe, inp, buf, call, calls>>

\* The client goes, or the tunnel to it breaks: its stream ends without an end
\* event.  The sender finds out at its next event.
Leave(s) ==
    /\ Tabled /\ subs[s].st = "on"
    /\ subs' = [subs EXCEPT ![s].st = "gone"]
    /\ UNCHANGED <<door, pr, pipe, inp, buf, call, calls>>

\* Writing to a client that is gone fails, or there is nothing more to write.
Released(s) ==
    /\ Tabled /\ subs[s].st = "gone" /\ (Pending(s) \/ HasEnded)
    /\ subs' = [subs EXCEPT ![s] = [st |-> "off", got |-> <<>>]]
    /\ UNCHANGED <<door, pr, pipe, inp, buf, call, calls>>

\* Input reaches the program if it runs and reads; the table forgets nobody,
\* and a write that fails is not reported.
SendInput(i) == [i EXCEPT !.sent = IF pr.st = "up" /\ pr.reads THEN 1 ELSE 0]

ProcSendInput ==
    /\ Tabled /\ calls < MaxCalls /\ ~inp.closed /\ inp.sent = 0
    /\ calls' = calls + 1
    /\ inp' = SendInput(inp)
    /\ UNCHANGED <<door, pr, pipe, buf, call, subs>>

ProcCloseStdin ==
    /\ Tabled /\ calls < MaxCalls /\ ~inp.closed
    /\ calls' = calls + 1
    /\ inp' = [inp EXCEPT !.closed = TRUE]
    /\ UNCHANGED <<door, pr, pipe, buf, call, subs>>

\* A signal for the group; 0 stands for KILL.
ProcSendSignal ==
    /\ Tabled /\ calls < MaxCalls /\ Writers
    /\ calls' = calls + 1
    /\ pr' = KillGroup(pr)
    /\ UNCHANGED <<door, pipe, inp, buf, call, subs>>

-----------------------------------------------------------------------------
(* A terminal's websockets *)

HandleWebSocket(s) ==
    /\ door = "term" /\ subs[s].st = "off" /\ pipe["pty"].open /\ calls < MaxCalls
    /\ calls' = calls + 1
    /\ subs' = [subs EXCEPT ![s] = [st |-> "on", got |-> <<>>]]
    /\ UNCHANGED <<door, pr, pipe, inp, buf, call>>

\* What is read goes to the websocket whose reader got it, to no other.
PtyRead(s) ==
    /\ door = "term" /\ subs[s].st = "on"
    /\ pipe["pty"].open /\ pipe["pty"].read < pipe["pty"].wrote
    /\ pipe' = [pipe EXCEPT !["pty"].read = @ + 1]
    /\ subs' = [subs EXCEPT ![s].got = Append(@, <<"pty", pipe["pty"].read + 1>>)]
    /\ UNCHANGED <<door, pr, inp, buf, call, calls>>

\* The first side to end closes the session for everybody: the terminal is
\* closed, which hangs up its group, and the shell killed.
CloseSession(s) ==
    /\ door = "term" /\ subs[s].st = "on"
    /\ pipe' = [pipe EXCEPT !["pty"].open = FALSE]
    /\ pr' = IF pipe["pty"].open THEN KillGroup(pr) ELSE pr
    /\ subs' = [subs EXCEPT ![s].st = "ended"]
    /\ UNCHANGED <<door, inp, buf, call, calls>>

\* The reader sees an error: the terminal was closed, or its last user ended.
PtyEnds(s) ==
    /\ door = "term"
    /\ \/ ~Writers /\ pipe["pty"].read = pipe["pty"].wrote
       \/ ~pipe["pty"].open
    /\ CloseSession(s)

-----------------------------------------------------------------------------
Init ==
    /\ door = "none" /\ pr = NoProgram /\ pipe = << >>
    /\ inp = [sent |-> 0, closed |-> FALSE]
    /\ buf = << >> /\ call = [st |-> "none", code |-> "none"]
    /\ subs = [s \in Subs |-> [st |-> "off", got |-> << >>]]

Next ==
    \/ \E d \in Doors : ExecuteStream(d) \/ ExecRefused(d) \/ ProcStart(d) \/ ProcRefused(d)
    \/ "term" \in Doors /\ PtyCreate
    \/ \E p \in DOMAIN pipe : Writes(p) \/ Pump(p) \/ PumpEnds(p)
    \/ Exits \/ KinEnds \/ AppendEnd \/ Deadline \/ ExecReturns
    \/ ProcSendInput \/ ProcCloseStdin \/ ProcSendSignal
    \/ \E s \in Subs :
          \/ Attach(s) \/ Deliver(s) \/ StreamEnds(s) \/ Leave(s) \/ Released(s)
          \/ HandleWebSocket(s) \/ PtyRead(s) \/ CloseSession(s)

\* The toolbox's own goroutines run; programs need not end, clients need not
\* act.  Every execution has a deadline.
Fairness ==
    /\ WF_vars(\E p \in DOMAIN pipe : Pump(p) \/ PumpEnds(p))
    /\ WF_vars(AppendEnd) /\ WF_vars(Deadline) /\ WF_vars(ExecReturns)
    /\ \A s \in Subs : /\ WF_vars(Deliver(s) \/ StreamEnds(s)) /\ WF_vars(Released(s))
                       /\ WF_vars(PtyRead(s) \/ PtyEnds(s))

-----------------------------------------------------------------------------
(* Properties *)

\* seq has n chunks of pipe p, each once and in order.
InOrder(seq, p, n) ==
    LET mine == {i \in DOMAIN seq : seq[i][1] = p} IN
    /\ \A j \in 1..n : \E i \in mine : seq[i][2] = j
    /\ \A i \in mine : seq[i][2] \in 1..n
    /\ \A i, j \in mine : i < j => seq[i][2] < seq[j][2]

Complete(seq) == \A p \in DOMAIN pipe : InOrder(seq, p, pipe[p].wrote)

\* Whoever is told how the program ended has all its output, each pipe's in
\* order, and is told the truth: a subscriber sees the end last and once, an
\* execution that is answered has left nobody with its pipes.
ToldAll ==
    /\ \A s \in Subs : \A i \in DOMAIN subs[s].got :
          subs[s].got[i][1] = "end" =>
              /\ i = Len(subs[s].got)
              /\ subs[s].got[i][2] = pr.code
              /\ Complete(subs[s].got)
    /\ Waited /\ call.st = "returned" =>
          /\ Complete(buf) /\ ~Writers
          /\ call.code \in {pr.code, "timeout"}

\* An execution is answered, except while a descendant outside the group holds
\* its pipes; and a stream, also one whose client has gone, does not outlive
\* the program and its descendants.
StreamsEnd ==
    /\ []<>(call.st \notin {"waiting", "killed"} \/ pr.kin = "escaped")
    /\ \A s \in Subs : []<>(subs[s].st \notin {"on", "gone"} \/ Writers)
=============================================================================
