------------------------------- MODULE Sessions -------------------------------
(***************************************************************************)
(* The interpreters a sandbox keeps between requests (pkg/toolbox): the    *)
(* shell of a session, and the Python kernel of a code-interpreter         *)
(* context.  Both take commands on their standard input.  A shell's result *)
(* comes back in files that are polled; a kernel's as one line on its      *)
(* standard output, read under the kernel's mutex.                         *)
(*                                                                         *)
(* State: which of the two; the instance that is registered; for every     *)
(* instance whether it lives, whether it is closed, its directory, its     *)
(* input, the command it runs, its output lines and its mutex; for every   *)
(* command its exit code once it has one, its log and its exit file; for   *)
(* every client the call it makes; for every call its result.              *)
(***************************************************************************)
EXTENDS Integers, Sequences

CONSTANTS Kinds,      \* the interpreters to look at, among "shell" and "kernel"
          Clients,
          MaxGens,    \* bound on instances
          MaxCalls    \* bound on requests; command k belongs to request k

VARIABLES kind, reg, gens, inst, cmd, cl, res, calls

vars == <<kind, reg, gens, inst, cmd, cl, res, calls>>

Gens == 1..MaxGens
Calls == 1..MaxCalls
Nobody == "nobody"

NewInst == [alive |-> TRUE, closed |-> FALSE, dir |-> TRUE,
            stdin |-> << >>, run |-> 0, out |-> << >>, lock |-> Nobody]
NoCmd == [g |-> 0, code |-> "none", log |-> "none", file |-> "none"]
IdleClient == [pc |-> "idle", k |-> 0, g |-> 0, async |-> FALSE]

\* The interpreter is gone, and with it its input; a command it was running
\* goes on, but nobody reports on it any more.
Killed(i) == [i EXCEPT !.alive = FALSE, !.stdin = << >>, !.run = 0]

\* The call of client c ends with result r.
Return(c, r) ==
    /\ cl' = [cl EXCEPT ![c] = IdleClient]
    /\ res' = [res EXCEPT ![cl[c].k] = r]

-----------------------------------------------------------------------------
(* Sessions of a shell *)

\* Under the manager's lock: no such id yet, and the shell starts.
SessionCreate ==
    /\ kind = "shell" /\ reg = 0 /\ gens < MaxGens
    /\ gens' = gens + 1 /\ reg' = gens + 1
    /\ inst' = [inst EXCEPT ![gens + 1] = NewInst]
    /\ UNCHANGED <<kind, cmd, cl, res, calls>>

\* An execute looks its session up (one the policy refuses does not get here).
SessionLookup(c, a) ==
    /\ kind = "shell" /\ cl[c].pc = "idle" /\ calls < MaxCalls
    /\ calls' = calls + 1
    /\ \/ /\ reg # 0
          /\ cl' = [cl EXCEPT ![c] = [pc |-> "found", k |-> calls + 1, g |-> reg, async |-> a]]
          /\ UNCHANGED res
       \/ /\ reg = 0
          /\ res' = [res EXCEPT ![calls + 1] = "error"]
          /\ UNCHANGED cl
    /\ UNCHANGED <<kind, reg, gens, inst, cmd>>

SessionOpen(c) ==
    /\ kind = "shell" /\ cl[c].pc = "found"
    /\ IF inst[cl[c].g].closed THEN Return(c, "error")
       ELSE cl' = [cl EXCEPT ![c].pc = "open"] /\ UNCHANGED res
    /\ UNCHANGED <<kind, reg, gens, inst, cmd, calls>>

\* The command's directory, below the session's, and its entry.
SessionPrepare(c) ==
    /\ kind = "shell" /\ cl[c].pc = "open"
    /\ cl' = [cl EXCEPT ![c].pc = "ready"]
    /\ inst' = [inst EXCEPT ![cl[c].g].dir = TRUE]
    /\ cmd' = [cmd EXCEPT ![cl[c].k].g = cl[c].g]
    /\ UNCHANGED <<kind, reg, gens, res, calls>>

\* The wrapped command goes to the shell; an asynchronous call is done.
SessionWrite(c) ==
    LET g == cl[c].g IN
    /\ kind = "shell" /\ cl[c].pc = "ready"
    /\ IF ~inst[g].alive THEN Return(c, "error") /\ UNCHANGED inst
       ELSE /\ inst' = [inst EXCEPT ![g].stdin = Append(@, cl[c].k)]
            /\ IF cl[c].async THEN Return(c, "accepted")
               ELSE cl' = [cl EXCEPT ![c].pc = "wait"] /\ UNCHANGED res
    /\ UNCHANGED <<kind, reg, gens, cmd, calls>>

\* A poll that finds the exit file takes the code from it; a file the shell
\* has not written to yet is an error.
WaitForCommand(c) ==
    LET k == cl[c].k IN
    /\ kind = "shell" /\ cl[c].pc = "wait"
    /\ \/ cmd[k].file = "empty" /\ Return(c, "error")
       \/ /\ cmd[k].file = "code"
          /\ cl' = [cl EXCEPT ![c].pc = "log"] /\ UNCHANGED res
    /\ UNCHANGED <<kind, reg, gens, inst, cmd, calls>>

\* Then the log is read; one that is gone reads as no output.
ReadLog(c) ==
    LET k == cl[c].k IN
    /\ kind = "shell" /\ cl[c].pc = "log"
    /\ Return(c, IF cmd[k].log = "full" THEN cmd[k].code ELSE "blank")
    /\ UNCHANGED <<kind, reg, gens, inst, cmd, calls>>

\* Thirty seconds are over.
WaitDeadline(c) ==
    /\ kind = "shell" /\ cl[c].pc = "wait"
    /\ Return(c, "error")
    /\ UNCHANGED <<kind, reg, gens, inst, cmd, calls>>

\* The directory goes, and with it every file of the session's commands.
FilesGone(g) ==
    cmd' = [k \in Calls |-> IF cmd[k].g = g
                            THEN [cmd[k] EXCEPT !.log = "none", !.file = "none"]
                            ELSE cmd[k]]

\* Closed, killed, removed.
Evict ==
    /\ inst' = [inst EXCEPT ![reg] = [Killed(@) EXCEPT !.closed = TRUE, !.dir = FALSE]]
    /\ FilesGone(reg)
    /\ reg' = 0
    /\ UNCHANGED <<kind, gens, cl, res, calls>>

SessionDelete ==
    /\ kind = "shell" /\ reg # 0
    /\ Evict

\* No activity for half an hour: no call can still be waiting by then.
SessionCleanup ==
    /\ kind = "shell" /\ reg # 0
    /\ \A c \in Clients : cl[c].g = reg => cl[c].pc \in {"found", "open"}
    /\ Evict

-----------------------------------------------------------------------------
(* The interpreter *)

\* It takes the next command from its input.
Takes(g) ==
    /\ inst[g].alive /\ inst[g].run = 0 /\ inst[g].stdin # << >>
    /\ inst' = [inst EXCEPT ![g].run = Head(inst[g].stdin), ![g].stdin = Tail(@)]
    /\ UNCHANGED <<kind, reg, gens, cmd, cl, res, calls>>

\* The wrapped command: its output goes to the log until it has ended, then
\* the shell creates the exit file and writes the code.  Without a directory
\* nothing is written.
ShellStep(g) ==
    LET k == inst[g].run
        there == inst[g].dir
    IN  /\ kind = "shell" /\ inst[g].alive /\ k # 0
        /\ \/ /\ cmd[k].code = "none"
              /\ \E x \in {"zero", "other"} :
                    cmd' = [cmd EXCEPT ![k].code = x, ![k].log = IF there THEN "full" ELSE @]
              /\ UNCHANGED inst
           \/ /\ cmd[k].code # "none" /\ there /\ cmd[k].file = "none"
              /\ cmd' = [cmd EXCEPT ![k].file = "empty"]
              /\ UNCHANGED inst
           \/ /\ cmd[k].code # "none"
              /\ there => cmd[k].file = "empty"
              /\ cmd' = [cmd EXCEPT ![k].file = IF there THEN "code" ELSE @]
              /\ inst' = [inst EXCEPT ![g].run = 0]
        /\ UNCHANGED <<kind, reg, gens, cl, res, calls>>

\* Code is run to its end and answered by one line.
KernelReplies(g) ==
    LET k == inst[g].run IN
    /\ kind = "kernel" /\ inst[g].alive /\ k # 0
    /\ \E x \in {"zero", "other"} : cmd' = [cmd EXCEPT ![k].code = x]
    /\ inst' = [inst EXCEPT ![g].run = 0, ![g].out = Append(@, k)]
    /\ UNCHANGED <<kind, reg, gens, cl, res, calls>>

\* A command ends the interpreter itself.
InterpreterExits(g) ==
    /\ inst[g].alive /\ inst[g].run # 0
    /\ inst' = [inst EXCEPT ![g] = Killed(@)]
    /\ UNCHANGED <<kind, reg, gens, cmd, cl, res, calls>>

-----------------------------------------------------------------------------
(* Contexts of a kernel *)

\* The context's kernel, started now if there is none; a dead one is used
\* like any other.
KernelGet(c) ==
    LET g == IF reg = 0 THEN gens + 1 ELSE reg IN
    /\ kind = "kernel" /\ cl[c].pc = "idle" /\ calls < MaxCalls
    /\ calls' = calls + 1
    /\ \/ /\ g \in Gens
          /\ reg' = g
          /\ gens' = IF reg = 0 THEN g ELSE gens
          /\ inst' = IF reg = 0 THEN [inst EXCEPT ![g] = NewInst] ELSE inst
          /\ cl' = [cl EXCEPT ![c] = [pc |-> "found", k |-> calls + 1, g |-> g, async |-> FALSE]]
          /\ UNCHANGED res
       \/ /\ reg = 0
          /\ res' = [res EXCEPT ![calls + 1] = "error"]
          /\ UNCHANGED <<reg, gens, inst, cl>>
    /\ UNCHANGED <<kind, cmd>>

\* Mutant of KernelWrite: the mutex is not taken.
KernelWriteUnlocked(c) ==
    LET g == cl[c].g IN
    /\ kind = "kernel" /\ cl[c].pc = "found"
    /\ IF inst[g].alive
       THEN /\ inst' = [inst EXCEPT ![g].stdin = Append(@, cl[c].k)]
            /\ cl' = [cl EXCEPT ![c].pc = "read"] /\ UNCHANGED res
       ELSE Return(c, "error") /\ UNCHANGED inst
    /\ UNCHANGED <<kind, reg, gens, cmd, calls>>

\* With the mutex: the request goes to the kernel.
KernelWrite(c) ==
    LET g == cl[c].g IN
    /\ kind = "kernel" /\ cl[c].pc = "found" /\ inst[g].lock = Nobody
    /\ IF inst[g].alive
       THEN /\ inst' = [inst EXCEPT ![g].stdin = Append(@, cl[c].k), ![g].lock = c]
            /\ cl' = [cl EXCEPT ![c].pc = "read"] /\ UNCHANGED res
       ELSE Return(c, "error") /\ UNCHANGED inst
    /\ UNCHANGED <<kind, reg, gens, cmd, calls>>

\* The next line is taken for the answer; there is no deadline.
KernelRead(c) ==
    LET g == cl[c].g IN
    /\ kind = "kernel" /\ cl[c].pc = "read"
    /\ \/ /\ inst[g].out # << >>
          /\ Return(c, IF Head(inst[g].out) = cl[c].k THEN cmd[cl[c].k].code ELSE "torn")
       \/ inst[g].out = << >> /\ ~inst[g].alive /\ Return(c, "error")
    /\ inst' = [inst EXCEPT ![g].lock = Nobody,
                            ![g].out = IF @ = << >> THEN @ ELSE Tail(@)]
    /\ UNCHANGED <<kind, reg, gens, cmd, calls>>

\* Restart and Close: forgotten first, then killed.
KernelStop ==
    /\ kind = "kernel" /\ reg # 0
    /\ reg' = 0
    /\ inst' = [inst EXCEPT ![reg] = Killed(@)]
    /\ UNCHANGED <<kind, gens, cmd, cl, res, calls>>

-----------------------------------------------------------------------------
Init ==
    /\ kind \in Kinds
    /\ reg = 0 /\ gens = 0
    /\ inst = [g \in Gens |-> [NewInst EXCEPT !.alive = FALSE, !.dir = FALSE]]
    /\ cmd = [k \in Calls |-> NoCmd]
    /\ cl = [c \in Clients |-> IdleClient]
    /\ res = [k \in Calls |-> "none"]

Server(c) ==
    \/ SessionOpen(c) \/ SessionPrepare(c) \/ SessionWrite(c)
    \/ WaitForCommand(c) \/ ReadLog(c) \/ WaitDeadline(c)
    \/ KernelWrite(c) \/ KernelRead(c)

Next ==
    \/ SessionCreate \/ SessionDelete \/ SessionCleanup \/ KernelStop
    \/ \E c \in Clients : \E a \in BOOLEAN : SessionLookup(c, a)
    \/ \E c \in Clients : KernelGet(c) \/ Server(c)
    \/ \E g \in Gens : \/ Takes(g) \/ ShellStep(g) \/ KernelReplies(g)
                       \/ InterpreterExits(g)

\* The toolbox's handlers run; nothing is assumed of the commands.
Fairness == \A c \in Clients : WF_vars(Server(c))

-----------------------------------------------------------------------------
(* Properties *)

\* A result is the command's own: the exit code it ended with and its whole
\* output, whatever else the interpreter ran and whoever else waited; only a
\* session that was deleted in between loses the output.
ResultsTrue ==
    \A k \in Calls :
        res[k] \notin {"none", "error", "accepted"} =>
            \/ res[k] = cmd[k].code
            \/ res[k] = "blank" /\ inst[cmd[k].g].closed

\* A call waits for nothing but code that its kernel is running.
CallsAnswered ==
    \A c \in Clients :
        []<>(\/ cl[c].pc = "idle"
             \/ kind = "kernel" /\ inst[cl[c].g].alive)
=============================================================================
