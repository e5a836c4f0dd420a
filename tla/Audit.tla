-------------------------------- MODULE Audit --------------------------------
(***************************************************************************)
(* The audit trail of the agent (pkg/audit): the recorder that appends     *)
(* decisions to active.log and rotates it, and the uploader that posts the *)
(* files in batches, with a cursor that survives restarts.  It implements  *)
(* AuditLog.                                                               *)
(*                                                                         *)
(* State: the active file and the rotated ones by their time stamp, and    *)
(* the last stamp given; the writer, which keeps failing after its first   *)
(* error; the cursor in memory and in audit.cursor; the uploader's cycle:  *)
(* the file it picked, the batch it read, where that ends, whether the     *)
(* file ends there too; the events the server has; the faults so far,      *)
(* under their bound.                                                      *)
(* A file is its lines, an event or Bad, and whether a partial line        *)
(* follows them; offsets count lines.                                      *)
(***************************************************************************)
EXTENDS Integers, Sequences, FiniteSets

CONSTANTS Events,     \* the decisions to record
          Bad,        \* a line that is not an event
          MaxLines,   \* maxBytes, in lines
          BatchSize,  \* events per request
          Apart,      \* rotations are a second or more apart
          MaxFaults   \* bound on crashes and failed calls to the disk

VARIABLES active, rotated, stamp, writer, cursor, saved, up, delivered, faults

vars == <<active, rotated, stamp, writer, cursor, saved, up, delivered, faults>>

Active  == 0                            \* active.log; rotated files are numbered by time
NoFile  == -1
Start   == [file |-> NoFile, off |-> 0]
Empty   == [lines |-> <<>>, torn |-> FALSE]
Resting == [at |-> "rest", file |-> NoFile, batch |-> {}, end |-> 0, finish |-> FALSE]

Files == [f \in DOMAIN rotated \cup {Active} |-> IF f = Active THEN active ELSE rotated[f]]

Fault == faults < MaxFaults /\ faults' = faults + 1

Written(file) == {file.lines[i] : i \in DOMAIN file.lines} \ {Bad}

\* The events that are in some file as lines of their own.
Held == UNION {Written(Files[f]) : f \in DOMAIN Files}

-----------------------------------------------------------------------------
(* The recorder *)

\* Rotation gives the file the second it happens in as its name; a file of
\* that name is replaced.
Stamps == {stamp + 1} \cup (IF Apart \/ stamp = 0 THEN {} ELSE {stamp})

\* A line is appended; after a partial line it becomes part of that line.
Append1(file, e) ==
    [lines |-> Append(file.lines, IF file.torn THEN Bad ELSE e), torn |-> FALSE]

\* Record: the size is looked at first, then the line is written and flushed.
Record(e) ==
    /\ writer = "ok"
    /\ e \notin Held \cup delivered
    /\ IF Len(active.lines) < MaxLines
       THEN active' = Append1(active, e) /\ UNCHANGED <<rotated, stamp>>
       ELSE \E s \in Stamps :
              /\ rotated' = [f \in DOMAIN rotated \cup {s} |->
                                IF f = s THEN active ELSE rotated[f]]
              /\ active' = Append1(Empty, e)
              /\ stamp' = s
    /\ UNCHANGED <<writer, cursor, saved, up, delivered, faults>>

\* The disk takes a part of the line, or none; the buffered writer remembers
\* its error and nothing is recorded until the agent starts again.
RecordFails ==
    /\ writer = "ok" /\ Fault
    /\ writer' = "failed"
    /\ \/ active' = [active EXCEPT !.torn = TRUE]
       \/ UNCHANGED active
    /\ UNCHANGED <<rotated, stamp, cursor, saved, up, delivered>>

-----------------------------------------------------------------------------
(* The uploader *)

\* Rotated files first, by name, then the active one.
Target ==
    IF DOMAIN rotated = {} THEN Active
    ELSE CHOOSE s \in DOMAIN rotated : \A t \in DOMAIN rotated : s <= t

\* A cycle lists the directory; a cursor on another file starts over.
Pick ==
    /\ up.at = "rest"
    /\ cursor' = IF cursor.file = Target THEN cursor ELSE [file |-> Target, off |-> 0]
    /\ up' = [Resting EXCEPT !.at = "picked", !.file = Target]
    /\ UNCHANGED <<active, rotated, stamp, writer, saved, delivered, faults>>

\* Where a batch from an offset on ends: after its BatchSize-th event, or at
\* the end of the file; bad lines are passed over.
End(lines, off) ==
    LET full == {n \in off..Len(lines) :
                    Cardinality({i \in off + 1..n : lines[i] # Bad}) = BatchSize}
    IN  CASE off > Len(lines) -> off
          [] full # {}        -> CHOOSE n \in full : \A k \in full : n <= k
          [] OTHER            -> Len(lines)

\* Mutant of Finishes: a full batch ends the file.
FinishesAnyway(f, end) == f # Active

\* A rotated file is finished when the offset has reached its size.
Finishes(f, end) == f # Active /\ end >= Len(Files[f].lines) /\ ~Files[f].torn

\* nextBatch opens the file by its name, which rotation may have given to
\* another file since, and reads; without an event the cycle ends.
Read ==
    /\ up.at = "picked"
    /\ LET lines == Files[up.file].lines
           end   == End(lines, cursor.off)
           batch == {lines[i] : i \in cursor.off + 1..end} \ {Bad}
       IN  up' = IF batch = {} THEN Resting
                 ELSE [up EXCEPT !.at = "posting", !.batch = batch, !.end = end,
                                 !.finish = Finishes(up.file, end)]
    /\ UNCHANGED <<active, rotated, stamp, writer, cursor, saved, delivered, faults>>

\* The server has the batch and its answer arrives.
PostOK ==
    /\ up.at = "posting"
    /\ delivered' = delivered \cup up.batch
    /\ up' = [up EXCEPT !.at = "posted"]
    /\ UNCHANGED <<active, rotated, stamp, writer, cursor, saved, faults>>

\* No answer, or a refusal; the server may have the batch all the same.
PostFails ==
    /\ up.at = "posting"
    /\ \/ delivered' = delivered \cup up.batch
       \/ UNCHANGED delivered
    /\ up' = Resting
    /\ UNCHANGED <<active, rotated, stamp, writer, cursor, saved, faults>>

\* The cursor is moved, and written to its file by rename; if it cannot be
\* written the cycle ends there.
Commit ==
    /\ up.at = "posted"
    /\ cursor' = [file |-> up.file, off |-> up.end]
    /\ \/ /\ saved' = cursor'
          /\ up' = IF up.finish THEN [up EXCEPT !.at = "removing"] ELSE Resting
          /\ UNCHANGED faults
       \/ /\ Fault
          /\ up' = Resting /\ UNCHANGED saved
    /\ UNCHANGED <<active, rotated, stamp, writer, delivered>>

\* A drained file is removed and the cursor reset; failures of either are
\* reported and passed over.
Remove ==
    /\ up.at = "removing"
    /\ \/ /\ rotated' = [f \in DOMAIN rotated \ {up.file} |-> rotated[f]]
          /\ saved' = Start /\ UNCHANGED faults
       \/ /\ Fault
          /\ \/ UNCHANGED rotated /\ saved' = Start
             \/ rotated' = [f \in DOMAIN rotated \ {up.file} |-> rotated[f]] /\ UNCHANGED saved
    /\ cursor' = Start
    /\ up' = Resting
    /\ UNCHANGED <<active, stamp, writer, delivered>>

\* The agent dies and starts: the log is opened for appending, the cursor read.
Restart ==
    /\ Fault
    /\ writer' = "ok" /\ up' = Resting
    /\ cursor' = saved
    /\ UNCHANGED <<active, rotated, stamp, saved, delivered>>

-----------------------------------------------------------------------------
Init ==
    /\ active = Empty /\ rotated = [f \in {} |-> Empty] /\ stamp = 0
    /\ writer = "ok"
    /\ cursor = Start /\ saved = Start
    /\ up = Resting
    /\ delivered = {}
    /\ faults = 0

Next ==
    \/ \E e \in Events : Record(e)
    \/ RecordFails
    \/ Pick \/ Read \/ PostOK \/ PostFails \/ Commit \/ Remove
    \/ Restart

\* The uploader's goroutine runs until the agent ends, and a server that is
\* asked again and again answers at some point.
Fairness ==
    /\ WF_vars(Read) /\ WF_vars(Commit) /\ WF_vars(Remove)
    /\ WF_vars(PostOK \/ PostFails) /\ SF_vars(PostOK)

Spec == Init /\ [][Next]_vars /\ WF_vars(Pick) /\ Fairness

-----------------------------------------------------------------------------
(* Properties *)

Log == INSTANCE AuditLog WITH pending <- Held \ delivered

\* At-least-once delivery, the promise of AuditLog: rotation, the removal of
\* drained files, cursors of before a crash and answers that are lost never
\* take an event away that the server does not have.
ImplementsLog == Log!Spec

\* The oldest rotated file has no event at or after the cursor: its batch is
\* empty, the cycle ends there, and it is neither removed nor passed over.
Stuck ==
    /\ Target # Active
    /\ LET off == IF cursor.file = Target THEN cursor.off ELSE 0
           lines == rotated[Target].lines
       IN  \A i \in off + 1..Len(lines) : lines[i] = Bad

\* Every event that was written comes to be delivered, unless a fault has
\* left the uploader before a file it cannot get past.
Uploads ==
    \A e \in Events :
        (e \in Held) ~> (e \in delivered \/ (Stuck /\ faults > 0))
=============================================================================
