---------------------------- MODULE ToolboxProofs ----------------------------
(***************************************************************************)
(* The three safety invariants of Toolbox, one for each of its parts, for  *)
(* every number of clients, subscribers, requests, chunks and files.  None *)
(* is inductive by itself.                                                 *)
(*                                                                         *)
(* A program's end is told with all its output because a reader ends only  *)
(* when nobody can write any more, what it has read is kept in order, and  *)
(* a subscriber always has the beginning of what is kept (ProcInv).        *)
(*                                                                         *)
(* A result is that of its own command because a command has a number that *)
(* no other call has, its log and exit file are those of one instance, and *)
(* the kernel's mutex goes to the next caller only when the kernel has     *)
(* nothing of the last one (SessInv).                                      *)
(*                                                                         *)
(* A file is whole because the nodes that are written to by one request    *)
(* only hold what that request has written so far, and a download that met *)
(* no writer reads a node that stays as it is (FileInv).                   *)
(***************************************************************************)
EXTENDS Toolbox, FiniteSetTheorems, SequenceTheorems, TLAPS

-----------------------------------------------------------------------------
(* Programs *)

Codes == {"none", "zero", "other", "killed"}
Tags  == {"out", "err", "pty"}
Entry == (Tags \X Nat) \cup ({"end"} \X Codes)
Pipe  == [wrote : Nat, read : Nat, open : BOOLEAN]
Program == [st : {"none", "up", "exited"}, code : Codes, kin : {"none", "group", "escaped"},
            reads : BOOLEAN]
Calling == [st : {"none", "waiting", "killed", "returned"},
            code : Codes \cup {"error", "timeout"}]

ProcTypes ==
    /\ door \in {"none", "execute", "stream", "proc", "procpty", "term"}
    /\ pr \in Program /\ (pr.st = "none" <=> door = "none")
    /\ pipe \in [IF door = "none" THEN {} ELSE P!Pipes(door) -> Pipe]
    /\ buf \in Seq(Entry) /\ call \in Calling
    /\ subs \in [Subs -> [st : {"off", "on", "ended", "gone"}, got : Seq(Entry)]]

\* What was read from a pipe is kept; a reader ends when nothing can follow.
Kept(p) ==
    /\ P!InOrder(buf, p, pipe[p].read)
    /\ pipe[p].read <= pipe[p].wrote
    /\ ~pipe[p].open => pipe[p].read = pipe[p].wrote /\ ~P!Writers

\* The end comes last, and when all is read.
Ended(i) == buf[i][1] = "end" =>
    i = Len(buf) /\ buf[i][2] = pr.code /\ pr.st = "exited" /\ P!Drained /\ P!Tabled

\* A subscriber has the beginning of what was kept; a terminal has no end.
Follows(s) ==
    /\ door # "term" => /\ Len(subs[s].got) <= Len(buf)
                        /\ \A i \in DOMAIN subs[s].got : subs[s].got[i] = buf[i]
    /\ door = "term" => \A i \in DOMAIN subs[s].got : subs[s].got[i][1] # "end"

\* An execution is answered when all is read.
Answered == P!Waited /\ call.st = "returned" =>
    P!Drained /\ pr.st = "exited" /\ call.code \in {pr.code, "timeout"}

ProcInv ==
    /\ ProcTypes /\ Answered
    /\ door # "term" => \A p \in DOMAIN pipe : Kept(p)
    /\ \A i \in DOMAIN buf : Ended(i)
    /\ \A s \in Subs : Follows(s)
    /\ door \in {"none", "term"} => buf = << >>

\* The next chunk of a pipe comes after those that are there.
LEMMA NextChunk ==
    ASSUME NEW seq \in Seq(Entry), NEW p \in Tags, NEW n \in Nat, P!InOrder(seq, p, n)
    PROVE  P!InOrder(Append(seq, <<p, n + 1>>), p, n + 1)
<1> DEFINE e == <<p, n + 1>>
           t == Append(seq, e)
           mine == {i \in DOMAIN seq : seq[i][1] = p}
           ours == {i \in DOMAIN t : t[i][1] = p}
           l == Len(seq) + 1
<1>1. /\ \A j \in 1 .. n : \E i \in mine : seq[i][2] = j
      /\ \A i \in mine : seq[i][2] \in 1 .. n
      /\ \A i, j \in mine : i < j => seq[i][2] < seq[j][2]
  BY DEF P!InOrder
<1>2. /\ DOMAIN seq = 1 .. Len(seq) /\ Len(seq) \in Nat
      /\ DOMAIN t = 1 .. l /\ t[l] = e /\ \A i \in 1 .. Len(seq) : t[i] = seq[i]
  <2>1. e \in Entry
    BY DEF Entry
  <2> HIDE DEF e
  <2> QED  BY <2>1
<1>3. t[l][1] = p /\ t[l][2] = n + 1
  BY <1>2
<1> HIDE DEF t, e
<1>4. ours = mine \cup {l} /\ l \in ours /\ \A i \in mine : i \in 1 .. Len(seq) /\ i < l /\ t[i] = seq[i]
  BY <1>2, <1>3
<1> HIDE DEF mine
<1>5. \A j \in 1 .. n + 1 : \E i \in ours : t[i][2] = j
  <2> SUFFICES ASSUME NEW j \in 1 .. n + 1  PROVE \E i \in ours : t[i][2] = j
    OBVIOUS
  <2>1. CASE j = n + 1
    BY <1>3, <1>4, <2>1
  <2>2. CASE j \in 1 .. n
    <3>1. PICK i \in mine : seq[i][2] = j
      BY <1>1, <2>2
    <3> QED  BY <1>4, <3>1
  <2> QED  BY <2>1, <2>2
<1>6. \A i \in ours : t[i][2] \in 1 .. n + 1
  <2> SUFFICES ASSUME NEW i \in ours  PROVE t[i][2] \in 1 .. n + 1
    OBVIOUS
  <2>1. CASE i = l
    BY <1>3, <2>1
  <2>2. CASE i \in mine
    <3>1. t[i][2] \in 1 .. n
      BY <1>1, <1>4, <2>2
    <3> QED  BY <3>1
  <2> QED  BY <1>4, <2>1, <2>2
<1>7. \A i, j \in ours : i < j => t[i][2] < t[j][2]
  <2> SUFFICES ASSUME NEW i \in ours, NEW j \in ours, i < j  PROVE t[i][2] < t[j][2]
    OBVIOUS
  <2>1. i \in mine
    BY <1>2, <1>4
  <2>2. CASE j = l
    <3>1. t[i][2] \in 1 .. n
      BY <1>1, <1>4, <2>1
    <3> QED  BY <1>3, <2>2, <3>1
  <2>3. CASE j \in mine
    BY <1>1, <1>4, <2>1, <2>3
  <2> QED  BY <1>4, <2>2, <2>3
<1> QED  BY <1>5, <1>6, <1>7 DEF P!InOrder, t, e

\* Another entry changes nothing for a pipe.
LEMMA OtherChunk ==
    ASSUME NEW seq \in Seq(Entry), NEW p, NEW n \in Nat, P!InOrder(seq, p, n),
           NEW e \in Entry, e[1] # p
    PROVE  P!InOrder(Append(seq, e), p, n)
<1> DEFINE t == Append(seq, e)
           mine == {i \in DOMAIN seq : seq[i][1] = p}
           ours == {i \in DOMAIN t : t[i][1] = p}
<1>1. /\ \A j \in 1 .. n : \E i \in mine : seq[i][2] = j
      /\ \A i \in mine : seq[i][2] \in 1 .. n
      /\ \A i, j \in mine : i < j => seq[i][2] < seq[j][2]
  BY DEF P!InOrder
<1>2. /\ DOMAIN seq = 1 .. Len(seq) /\ Len(seq) \in Nat
      /\ DOMAIN t = 1 .. Len(seq) + 1 /\ t[Len(seq) + 1] = e
      /\ \A i \in 1 .. Len(seq) : t[i] = seq[i]
  OBVIOUS
<1> HIDE DEF t
<1>3. ours = mine /\ \A i \in mine : t[i] = seq[i]
  BY <1>2
<1> HIDE DEF mine, ours
<1> QED  BY <1>1, <1>3, ZenonT(40) DEF P!InOrder, t, ours

\* The pipes of a program that runs or ran.
LEMMA PipesFact ==
    ASSUME ProcTypes, NEW p \in DOMAIN pipe
    PROVE  /\ p \in Tags /\ pipe[p] \in Pipe /\ door # "none" /\ pr.st # "none"
           /\ DOMAIN pipe = P!Pipes(door) /\ pipe \in [P!Pipes(door) -> Pipe]
<1>1. door # "none"
  BY DEF ProcTypes
<1>2. pipe \in [P!Pipes(door) -> Pipe]
  BY <1>1 DEF ProcTypes
<1> QED  BY <1>1, <1>2 DEF ProcTypes, P!Pipes, Tags

\* The first states.
LEMMA ProcInit == P!Init => ProcInv
<1> SUFFICES ASSUME P!Init  PROVE ProcInv
  OBVIOUS
<1>1. /\ door = "none" /\ pr = P!NoProgram /\ pipe = << >> /\ buf = << >>
      /\ call = [st |-> "none", code |-> "none"]
      /\ subs = [s \in Subs |-> [st |-> "off", got |-> << >>]]
  BY DEF P!Init
<1>2. << >> \in Seq(Entry) /\ << >> \in [{} -> Pipe] /\ DOMAIN << >> = {}
  OBVIOUS
<1>3. pr \in Program /\ pr.st = "none"
  BY <1>1 DEF P!NoProgram, Program, Codes
<1>4. subs \in [Subs -> [st : {"off", "on", "ended", "gone"}, got : Seq(Entry)]]
  BY <1>1, <1>2
<1>5. ProcTypes
  BY <1>1, <1>2, <1>3, <1>4 DEF ProcTypes, Calling, Codes
<1> QED  BY <1>1, <1>2, <1>5 DEF ProcInv, Answered, P!Waited, Follows, P!Tabled

\* A program starts: nothing is written, kept or sent yet.
LEMMA StartedStep ==
    ASSUME ProcInv, NEW d \in {"execute", "stream", "proc", "procpty", "term"}, P!Started(d),
           call' \in Calling, d \in {"execute", "stream"} => call'.st = "waiting"
    PROVE  ProcInv'
<1>0. /\ ProcTypes /\ door = "none" /\ buf = << >> /\ \A s \in Subs : Follows(s)
  BY DEF ProcInv, P!Started
<1>1. /\ door' = d /\ d # "none" /\ UNCHANGED <<buf, subs>>
      /\ pipe' = [p \in P!Pipes(d) |-> [wrote |-> 0, read |-> 0, open |-> TRUE]]
      /\ \E r \in BOOLEAN : pr' = [P!NoProgram EXCEPT !.st = "up", !.reads = r]
  BY DEF P!Started
<1>2. pr' \in Program /\ pr'.st = "up"
  BY <1>1 DEF P!NoProgram, Program, Codes
<1>3. /\ pipe' \in [P!Pipes(d) -> Pipe] /\ DOMAIN pipe' = P!Pipes(d)
      /\ \A p \in P!Pipes(d) : pipe'[p].wrote = 0 /\ pipe'[p].read = 0 /\ pipe'[p].open
  BY <1>1 DEF Pipe
<1>4. ProcTypes'
  <2>1. /\ buf \in Seq(Entry)
        /\ subs \in [Subs -> [st : {"off", "on", "ended", "gone"}, got : Seq(Entry)]]
    BY <1>0 DEF ProcTypes
  <2> QED  BY <1>1, <1>2, <1>3, <2>1 DEF ProcTypes
<1>5. DOMAIN << >> = {} /\ 1 .. 0 = {} /\ Len(<< >>) = 0
  OBVIOUS
<1>6. ASSUME NEW p \in DOMAIN pipe'  PROVE Kept(p)'
  <2>1. buf' = << >> /\ pipe'[p].wrote = 0 /\ pipe'[p].read = 0 /\ pipe'[p].open
    BY <1>0, <1>1, <1>3
  <2> QED  BY <1>5, <2>1 DEF Kept, P!InOrder
<1>7. ASSUME NEW s \in Subs  PROVE Follows(s)'
  <2>1. subs[s].got \in Seq(Entry) /\ Len(subs[s].got) <= 0
    BY <1>0, <1>5 DEF Follows, ProcTypes
  <2>2. Len(subs[s].got) = 0 /\ DOMAIN subs[s].got = {}
    BY <2>1
  <2> QED  BY <1>0, <1>1, <1>5, <2>2 DEF Follows
<1>8. \A i \in DOMAIN buf' : Ended(i)'
  BY <1>0, <1>1, <1>5
<1>9. Answered'
  BY <1>1 DEF Answered, P!Waited
<1> QED  BY <1>0, <1>1, <1>4, <1>6, <1>7, <1>8, <1>9 DEF ProcInv

\* The program changes, and nobody can write who could not; or the call does.
LEMMA QuietStep ==
    ASSUME ProcInv, UNCHANGED <<door, pipe, buf, subs>>, pr' \in Program, call' \in Calling,
           pr'.st = "none" <=> pr.st = "none", P!Writers' => P!Writers,
           pr.st = "exited" => pr'.st = "exited" /\ pr'.code = pr.code, Answered'
    PROVE  ProcInv'
<1>1. ProcTypes'
  BY DEF ProcInv, ProcTypes
<1>2. ASSUME door # "term", NEW p \in DOMAIN pipe  PROVE Kept(p)'
  BY <1>2 DEF ProcInv, Kept, P!InOrder
<1>3. \A i \in DOMAIN buf : Ended(i)'
  BY DEF ProcInv, Ended, P!Drained, P!Tabled
<1>4. \A s \in Subs : Follows(s)'
  BY DEF ProcInv, Follows
<1> QED  BY <1>1, <1>2, <1>3, <1>4 DEF ProcInv

\* The program writes, ends, or its descendants do.
LEMMA ProgramStep ==
    ASSUME ProcInv, (\E p \in DOMAIN pipe : P!Writes(p)) \/ P!Exits \/ P!KinEnds
    PROVE  ProcInv'
<1>0. ProcTypes /\ Answered /\ pr \in Program /\ call \in Calling
  BY DEF ProcInv, ProcTypes
<1>1. ASSUME NEW p \in DOMAIN pipe, P!Writes(p)  PROVE ProcInv'
  <2>0. /\ P!Writers /\ pipe' = [pipe EXCEPT ![p].wrote = @ + 1]
        /\ UNCHANGED <<door, pr, buf, call, subs>>
    BY <1>1 DEF P!Writes
  <2>1. p \in Tags /\ pipe[p] \in Pipe /\ door # "none" /\ pipe \in [P!Pipes(door) -> Pipe]
        /\ DOMAIN pipe = P!Pipes(door)
    BY <1>0, PipesFact
  <2>2. /\ pipe' \in [P!Pipes(door) -> Pipe] /\ DOMAIN pipe' = DOMAIN pipe
        /\ pipe'[p].wrote = pipe[p].wrote + 1
        /\ \A q \in DOMAIN pipe : /\ pipe'[q].read = pipe[q].read /\ pipe'[q].open = pipe[q].open
                                  /\ q # p => pipe'[q].wrote = pipe[q].wrote
    <3> DEFINE x == pipe[p]
               e == [x EXCEPT !.wrote = @ + 1]
    <3>1. pipe' = [pipe EXCEPT ![p] = e]
      BY <2>0
    <3>2. e \in Pipe /\ e.read = x.read /\ e.open = x.open /\ e.wrote = x.wrote + 1
      <4>1. x \in Pipe
        BY <2>1
      <4> HIDE DEF x
      <4> QED  BY <4>1 DEF Pipe
    <3> HIDE DEF e
    <3> QED  BY <2>1, <3>1, <3>2
  <2>3. ProcTypes'
    BY <1>0, <2>0, <2>1, <2>2 DEF ProcTypes
  <2>4. ASSUME door # "term", NEW q \in DOMAIN pipe  PROVE Kept(q)'
    <3>1. Kept(q) /\ pipe[q].open /\ pipe[q] \in Pipe
      BY <1>0, <2>0, <2>4, PipesFact DEF ProcInv, Kept
    <3>2. pipe[q].read <= pipe'[q].wrote
      BY <2>2, <3>1 DEF Kept, Pipe
    <3>3. pipe'[q].read = pipe[q].read /\ pipe'[q].open = pipe[q].open
      BY <2>2
    <3> QED  BY <2>0, <3>1, <3>2, <3>3 DEF Kept, P!InOrder
  <2>5. P!Drained' <=> P!Drained
    BY <2>2 DEF P!Drained
  <2>6. \A i \in DOMAIN buf : Ended(i)'
    BY <2>0, <2>5 DEF ProcInv, Ended, P!Tabled
  <2>7. (\A s \in Subs : Follows(s)') /\ Answered'
    BY <1>0, <2>0, <2>5 DEF ProcInv, Follows, Answered, P!Waited
  <2> QED  BY <2>0, <2>2, <2>3, <2>4, <2>6, <2>7 DEF ProcInv
<1>2. ASSUME P!Exits  PROVE ProcInv'
  <2>1. /\ pr.st = "up" /\ UNCHANGED <<door, pipe, buf, call, subs>>
        /\ \E c \in {"zero", "other"}, k \in {"none", "group", "escaped"} :
              pr' = [pr EXCEPT !.st = "exited", !.code = c, !.kin = k]
    BY <1>2 DEF P!Exits
  <2>2. pr' \in Program /\ pr'.st = "exited"
    BY <1>0, <2>1 DEF Program, Codes
  <2>3. P!Writers /\ Answered'
    BY <1>0, <2>1 DEF P!Writers, Answered, P!Waited
  <2> QED  BY <1>0, <2>1, <2>2, <2>3, QuietStep
<1>3. ASSUME P!KinEnds  PROVE ProcInv'
  <2>1. pr.kin # "none" /\ UNCHANGED <<door, pipe, buf, call, subs>> /\ pr' = [pr EXCEPT !.kin = "none"]
    BY <1>3 DEF P!KinEnds
  <2>2. pr' \in Program /\ pr'.st = pr.st /\ pr'.code = pr.code
    BY <1>0, <2>1 DEF Program
  <2>3. P!Writers /\ Answered'
    BY <1>0, <2>1, <2>2 DEF P!Writers, Answered, P!Waited, P!Drained
  <2> QED  BY <1>0, <2>1, <2>2, <2>3, QuietStep
<1> QED  BY <1>1, <1>2, <1>3

\* The group of a program is killed.
LEMMA KillFact ==
    ASSUME ProcTypes, pr.st # "none", pr' = P!KillGroup(pr)
    PROVE  /\ pr' \in Program /\ pr'.st = "exited" /\ (P!Writers' => P!Writers)
           /\ pr.st = "exited" => pr'.code = pr.code
<1>1. pr \in Program
  BY DEF ProcTypes
<1>2. pr' = [pr EXCEPT !.st = "exited", !.code = IF pr.st = "up" THEN "killed" ELSE @,
                       !.kin = IF @ = "group" THEN "none" ELSE @]
  BY DEF P!KillGroup
<1>3. /\ pr' \in Program /\ pr'.st = "exited" /\ pr'.kin \in {pr.kin, "none"}
      /\ pr.st = "exited" => pr'.code = pr.code
  BY <1>1, <1>2 DEF Program, Codes
<1> QED  BY <1>3 DEF P!Writers

\* A deadline, a signal, and what a call is told.
LEMMA CallStep ==
    ASSUME ProcInv, P!Deadline \/ P!ExecReturns \/ P!ProcSendSignal
    PROVE  ProcInv'
<1>0. ProcTypes /\ Answered /\ pr \in Program /\ call \in Calling
  BY DEF ProcInv, ProcTypes
<1>1. ASSUME P!Deadline \/ P!ProcSendSignal  PROVE ProcInv'
  <2>1. /\ pr' = P!KillGroup(pr) /\ UNCHANGED <<door, pipe, buf, subs>> /\ door # "none"
        /\ call' = [call EXCEPT !.st = "killed"] \/ (~P!Waited /\ UNCHANGED call)
    BY <1>1 DEF P!Deadline, P!ProcSendSignal, P!Waited, P!Tabled
  <2>2. pr.st # "none"
    BY <1>0, <2>1 DEF ProcTypes
  <2>3. call' \in Calling /\ (P!Waited => call'.st = "killed")
    BY <1>0, <2>1 DEF Calling
  <2>4. Answered'
    BY <2>1, <2>3 DEF Answered, P!Waited
  <2> QED  BY <1>0, <2>1, <2>2, <2>3, <2>4, KillFact, QuietStep
<1>2. ASSUME P!ExecReturns  PROVE ProcInv'
  <2>1. /\ P!Drained /\ pr.st = "exited" /\ UNCHANGED <<door, pr, pipe, buf, subs>>
        /\ call' = [st |-> "returned", code |-> IF call.st = "killed" THEN "timeout" ELSE pr.code]
    BY <1>2 DEF P!ExecReturns
  <2>2. Answered' /\ call' \in Calling
    BY <1>0, <2>1 DEF Answered, P!Drained, Calling, Program
  <2> QED  BY <1>0, <2>1, <2>2, QuietStep DEF P!Writers
<1> QED  BY <1>1, <1>2

\* Requests that are refused, and input.
LEMMA RefusedRequest ==
    ASSUME ProcInv, NEW d,
           \/ P!ExecRefused(d) \/ P!ProcRefused(d) \/ P!ProcSendInput \/ P!ProcCloseStdin
    PROVE  ProcInv'
<1>1. UNCHANGED <<door, pr, pipe, buf, subs>> /\ (door = "none" \/ UNCHANGED call)
  BY DEF P!ExecRefused, P!ProcRefused, P!ProcSendInput, P!ProcCloseStdin
<1>2. Answered' /\ pr \in Program
  BY <1>1 DEF ProcInv, ProcTypes, Answered, P!Waited, P!Drained
<1>3. call' \in Calling
  BY DEF ProcInv, ProcTypes, Calling, Codes, P!ExecRefused, P!ProcRefused, P!ProcSendInput,
     P!ProcCloseStdin
<1> QED  BY <1>1, <1>2, <1>3, QuietStep DEF P!Writers

\* A record of a pipe, changed.
LEMMA PipeFact ==
    ASSUME NEW x \in Pipe, NEW e, e = [x EXCEPT !.read = @ + 1] \/ e = [x EXCEPT !.open = FALSE]
    PROVE  /\ e \in Pipe /\ e.wrote = x.wrote
           /\ e = [x EXCEPT !.read = @ + 1] => e.read = x.read + 1 /\ e.open = x.open
           /\ e = [x EXCEPT !.open = FALSE] => e.read = x.read /\ ~e.open
<1>1. x.wrote \in Nat /\ x.read \in Nat /\ x.open \in BOOLEAN
      /\ x = [wrote |-> x.wrote, read |-> x.read, open |-> x.open]
  BY DEF Pipe
<1>2. CASE e = [x EXCEPT !.read = @ + 1]
  <2>1. e = [wrote |-> x.wrote, read |-> x.read + 1, open |-> x.open]
    BY <1>1, <1>2
  <2>2. x.read + 1 \in Nat /\ x.read + 1 # x.read
    BY <1>1
  <2>3. e \in Pipe /\ e.wrote = x.wrote /\ e.read = x.read + 1 /\ e.open = x.open
    BY <1>1, <2>1, <2>2 DEF Pipe
  <2>4. [x EXCEPT !.open = FALSE].read = x.read
    BY <1>1
  <2> QED  BY <2>2, <2>3, <2>4
<1>3. CASE e = [x EXCEPT !.open = FALSE]
  <2>1. e = [wrote |-> x.wrote, read |-> x.read, open |-> FALSE]
    BY <1>1, <1>3
  <2>2. [x EXCEPT !.read = @ + 1].read = x.read + 1 /\ x.read + 1 # x.read
    BY <1>1
  <2> QED  BY <1>1, <2>1, <2>2 DEF Pipe
<1> QED  BY <1>2, <1>3

\* One entry more is kept, of which no subscriber knows.
LEMMA KeptFact ==
    ASSUME ProcTypes, NEW e \in Entry, buf' = Append(buf, e), UNCHANGED <<door, subs>>,
           \A s \in Subs : Follows(s)
    PROVE  /\ buf' \in Seq(Entry) /\ Len(buf') = Len(buf) + 1 /\ Len(buf) \in Nat
           /\ DOMAIN buf = 1 .. Len(buf) /\ DOMAIN buf' = 1 .. Len(buf) + 1
           /\ buf'[Len(buf) + 1] = e /\ \A i \in DOMAIN buf : buf'[i] = buf[i]
           /\ \A s \in Subs : Follows(s)'
<1>1. /\ buf \in Seq(Entry)
      /\ subs \in [Subs -> [st : {"off", "on", "ended", "gone"}, got : Seq(Entry)]]
  BY DEF ProcTypes
<1>2. /\ buf' \in Seq(Entry) /\ Len(buf') = Len(buf) + 1 /\ Len(buf) \in Nat
      /\ DOMAIN buf = 1 .. Len(buf) /\ DOMAIN buf' = 1 .. Len(buf) + 1
      /\ buf'[Len(buf) + 1] = e /\ \A i \in DOMAIN buf : buf'[i] = buf[i]
  BY <1>1
<1>3. ASSUME NEW s \in Subs  PROVE Follows(s)'
  <2>1. subs[s].got \in Seq(Entry)
    BY <1>1
  <2>2. Follows(s)
    OBVIOUS
  <2>3. CASE door = "term"
    BY <2>2, <2>3 DEF Follows
  <2>4. CASE door # "term"
    <3>1. Len(subs[s].got) <= Len(buf) /\ DOMAIN subs[s].got = 1 .. Len(subs[s].got)
          /\ Len(subs[s].got) \in Nat
      BY <2>1, <2>2, <2>4 DEF Follows
    <3>2. \A i \in DOMAIN subs[s].got : i \in DOMAIN buf /\ subs[s].got[i] = buf[i]
      BY <1>2, <2>2, <2>4, <3>1 DEF Follows
    <3>3. Len(subs[s].got) <= Len(buf')
      BY <1>2, <3>1
    <3> QED  BY <1>2, <2>4, <3>2, <3>3 DEF Follows
  <2> QED  BY <2>3, <2>4
<1> QED  BY <1>2, <1>3

\* A reader keeps the next chunk of its pipe.
LEMMA PumpStep ==
    ASSUME ProcInv, NEW p \in DOMAIN pipe, P!Pump(p)
    PROVE  ProcInv'
<1> DEFINE k == <<p, pipe[p].read + 1>>
<1>0. /\ ProcTypes /\ Answered /\ door # "term" /\ pipe[p].open /\ pipe[p].read < pipe[p].wrote
      /\ pipe' = [pipe EXCEPT ![p].read = @ + 1] /\ buf' = Append(buf, k)
      /\ UNCHANGED <<door, pr, call, subs>> /\ (\A s \in Subs : Follows(s))
      /\ (\A q \in DOMAIN pipe : Kept(q)) /\ \A i \in DOMAIN buf : Ended(i)
  BY DEF ProcInv, P!Pump
<1>1. p \in Tags /\ pipe[p] \in Pipe /\ door # "none" /\ pipe \in [P!Pipes(door) -> Pipe]
      /\ DOMAIN pipe = P!Pipes(door)
  BY <1>0, PipesFact
<1>2. /\ pipe' \in [P!Pipes(door) -> Pipe] /\ DOMAIN pipe' = DOMAIN pipe
      /\ pipe'[p].read = pipe[p].read + 1 /\ pipe'[p].wrote = pipe[p].wrote /\ pipe'[p].open
      /\ \A q \in DOMAIN pipe \ {p} : pipe'[q] = pipe[q]
  <2> DEFINE x == pipe[p]
             e == [x EXCEPT !.read = @ + 1]
  <2>1. pipe' = [pipe EXCEPT ![p] = e]
    BY <1>0
  <2>2. e \in Pipe /\ e.read = x.read + 1 /\ e.wrote = x.wrote /\ e.open
    <3>1. x \in Pipe /\ x.open
      BY <1>0, <1>1
    <3> HIDE DEF x
    <3> QED  BY <3>1, PipeFact
  <2> HIDE DEF e
  <2> QED  BY <1>1, <2>1, <2>2
<1>3. pipe[p].read \in Nat /\ pipe[p].wrote \in Nat /\ k \in Entry /\ k[1] = p /\ p # "end"
  <2>1. pipe[p].read \in Nat /\ pipe[p].wrote \in Nat /\ p # "end"
    BY <1>1 DEF Pipe, Tags
  <2>2. pipe[p].read + 1 \in Nat
    BY <2>1
  <2> QED  BY <1>1, <2>1, <2>2 DEF Entry
<1>4. ~P!Drained
  BY <1>0 DEF P!Drained
<1>5. /\ \A i \in DOMAIN buf : buf[i][1] # "end"
      /\ ~(P!Waited /\ call.st = "returned")
  BY <1>0, <1>4 DEF Ended, Answered
<1>6. ASSUME NEW q \in DOMAIN pipe  PROVE Kept(q)'
  <2>0. Kept(q) /\ pipe[q] \in Pipe /\ buf \in Seq(Entry)
    BY <1>0, PipesFact DEF ProcTypes
  <2>1. CASE q = p
    <3>1. P!InOrder(buf', p, pipe'[p].read)
      <4>1. P!InOrder(buf, p, pipe[p].read)
        BY <2>0, <2>1 DEF Kept
      <4>2. P!InOrder(Append(buf, k), p, pipe[p].read + 1)
        BY <1>1, <1>3, <2>0, <4>1, NextChunk
      <4> QED  BY <1>0, <1>2, <4>2
    <3>2. pipe'[p].read <= pipe'[p].wrote
      BY <1>0, <1>2, <1>3
    <3> QED  BY <1>2, <2>1, <3>1, <3>2 DEF Kept, P!InOrder
  <2>2. CASE q # p
    <3>1. P!InOrder(buf', q, pipe[q].read)
      <4>1. P!InOrder(buf, q, pipe[q].read) /\ pipe[q].read \in Nat
        BY <2>0 DEF Kept, Pipe
      <4> HIDE DEF k
      <4>2. P!InOrder(Append(buf, k), q, pipe[q].read)
        BY <1>3, <2>0, <2>2, <4>1, OtherChunk
      <4> QED  BY <1>0, <4>2
    <3>2. pipe'[q] = pipe[q]
      BY <1>2, <2>2
    <3> QED  BY <1>0, <2>0, <3>1, <3>2 DEF Kept, P!InOrder, P!Writers
  <2> QED  BY <2>1, <2>2
<1> HIDE DEF k
<1>7. /\ buf' \in Seq(Entry) /\ DOMAIN buf' = 1 .. Len(buf) + 1 /\ DOMAIN buf = 1 .. Len(buf)
      /\ Len(buf) \in Nat
      /\ buf'[Len(buf) + 1] = k /\ (\A i \in DOMAIN buf : buf'[i] = buf[i])
      /\ \A s \in Subs : Follows(s)'
  BY <1>0, <1>3, KeptFact
<1>8. \A i \in DOMAIN buf' : buf'[i][1] # "end"
  BY <1>3, <1>5, <1>7
<1>9. ProcTypes' /\ Answered'
  BY <1>0, <1>1, <1>2, <1>5, <1>7 DEF ProcTypes, Answered, P!Waited
<1> QED  BY <1>0, <1>1, <1>2, <1>6, <1>7, <1>8, <1>9 DEF ProcInv, Ended

\* A reader is through.
LEMMA PumpEndsStep ==
    ASSUME ProcInv, NEW p \in DOMAIN pipe, P!PumpEnds(p)
    PROVE  ProcInv'
<1>0. /\ ProcTypes /\ Answered /\ door # "term" /\ pipe[p].open /\ pipe[p].read = pipe[p].wrote
      /\ ~P!Writers /\ pipe' = [pipe EXCEPT ![p].open = FALSE]
      /\ UNCHANGED <<door, pr, buf, call, subs>> /\ (\A s \in Subs : Follows(s))
      /\ (\A q \in DOMAIN pipe : Kept(q)) /\ \A i \in DOMAIN buf : Ended(i)
  BY DEF ProcInv, P!PumpEnds
<1>1. p \in Tags /\ pipe[p] \in Pipe /\ door # "none" /\ pipe \in [P!Pipes(door) -> Pipe]
      /\ DOMAIN pipe = P!Pipes(door)
  BY <1>0, PipesFact
<1>2. /\ pipe' \in [P!Pipes(door) -> Pipe] /\ DOMAIN pipe' = DOMAIN pipe
      /\ pipe'[p].read = pipe[p].read /\ pipe'[p].wrote = pipe[p].wrote
      /\ \A q \in DOMAIN pipe \ {p} : pipe'[q] = pipe[q]
  <2> DEFINE x == pipe[p]
             e == [x EXCEPT !.open = FALSE]
  <2>1. pipe' = [pipe EXCEPT ![p] = e]
    BY <1>0
  <2>2. e \in Pipe /\ e.read = x.read /\ e.wrote = x.wrote
    <3>1. x \in Pipe
      BY <1>1
    <3> HIDE DEF x
    <3> QED  BY <3>1, PipeFact
  <2> HIDE DEF e
  <2> QED  BY <1>1, <2>1, <2>2
<1>3. ~P!Drained
  BY <1>0 DEF P!Drained
<1>4. /\ \A i \in DOMAIN buf : buf[i][1] # "end"
      /\ ~(P!Waited /\ call.st = "returned")
  BY <1>0, <1>3 DEF Ended, Answered
<1>5. ASSUME NEW q \in DOMAIN pipe  PROVE Kept(q)'
  <2>0. Kept(q) /\ pipe'[q].read = pipe[q].read /\ pipe'[q].wrote = pipe[q].wrote /\ buf' = buf
    BY <1>0, <1>2
  <2>1. CASE q = p
    <3>1. pipe[q].read <= pipe[q].wrote /\ pipe[q].read = pipe[q].wrote /\ P!InOrder(buf, q, pipe[q].read)
      BY <1>0, <2>0, <2>1 DEF Kept
    <3> QED  BY <1>0, <2>0, <3>1 DEF Kept, P!InOrder, P!Writers
  <2>2. CASE q # p
    BY <1>0, <1>2, <2>2 DEF Kept, P!InOrder, P!Writers
  <2> QED  BY <2>1, <2>2
<1>6. ProcTypes' /\ Answered'
  BY <1>0, <1>1, <1>2, <1>4 DEF ProcTypes, Answered, P!Waited
<1>7. \A s \in Subs : Follows(s)'
  BY <1>0 DEF Follows
<1> QED  BY <1>0, <1>1, <1>2, <1>4, <1>5, <1>6, <1>7 DEF ProcInv, Ended

\* The end is recorded.
LEMMA AppendEndStep ==
    ASSUME ProcInv, P!AppendEnd
    PROVE  ProcInv'
<1> DEFINE k == <<"end", pr.code>>
<1>0. /\ ProcTypes /\ Answered /\ P!Tabled /\ P!Drained /\ pr.st = "exited"
      /\ buf' = Append(buf, k) /\ (\A i \in DOMAIN buf : buf[i][1] # "end")
      /\ UNCHANGED <<door, pr, pipe, call, subs>> /\ (\A s \in Subs : Follows(s))
      /\ door # "term" /\ door # "none" /\ \A q \in DOMAIN pipe : Kept(q)
  BY DEF ProcInv, P!AppendEnd, P!HasEnded, P!Tabled
<1>1. k \in Entry /\ k[1] = "end" /\ k[2] = pr.code
  BY <1>0 DEF ProcTypes, Program, Entry
<1> HIDE DEF k
<1>2. /\ buf' \in Seq(Entry) /\ DOMAIN buf' = 1 .. Len(buf) + 1 /\ DOMAIN buf = 1 .. Len(buf)
      /\ Len(buf) \in Nat /\ Len(buf') = Len(buf) + 1
      /\ buf'[Len(buf) + 1] = k /\ (\A i \in DOMAIN buf : buf'[i] = buf[i])
      /\ \A s \in Subs : Follows(s)'
  BY <1>0, <1>1, KeptFact
<1>3. ASSUME NEW q \in DOMAIN pipe  PROVE Kept(q)'
  <2>1. Kept(q) /\ pipe[q] \in Pipe /\ q \in Tags /\ buf \in Seq(Entry)
    BY <1>0, PipesFact DEF ProcTypes
  <2>2. P!InOrder(buf, q, pipe[q].read) /\ pipe[q].read \in Nat /\ q # "end"
    BY <2>1 DEF Kept, Pipe, Tags
  <2>3. P!InOrder(Append(buf, k), q, pipe[q].read)
    BY <1>1, <2>1, <2>2, OtherChunk
  <2> QED  BY <1>0, <2>1, <2>3, SMTT(20) DEF Kept, P!InOrder, P!Writers
<1>4. ASSUME NEW i \in DOMAIN buf'  PROVE Ended(i)'
  <2>1. P!Drained' /\ P!Tabled'
    BY <1>0 DEF P!Drained, P!Tabled
  <2>2. CASE i = Len(buf) + 1
    BY <1>0, <1>1, <1>2, <2>1, <2>2 DEF Ended
  <2>3. CASE i # Len(buf) + 1
    BY <1>0, <1>2, <2>3 DEF Ended
  <2> QED  BY <2>2, <2>3
<1>5. ProcTypes' /\ Answered'
  BY <1>0, <1>2 DEF ProcTypes, Answered, P!Waited, P!Tabled
<1> QED  BY <1>0, <1>2, <1>3, <1>4, <1>5 DEF ProcInv

Sub == [st : {"off", "on", "ended", "gone"}, got : Seq(Entry)]

\* A subscriber comes, is sent an entry, ends or goes.
LEMMA SubStep ==
    ASSUME ProcInv, NEW s \in Subs, NEW r \in Sub, subs' = [subs EXCEPT ![s] = r],
           UNCHANGED <<door, buf, call>>, ProcTypes', UNCHANGED <<pr, pipe>> \/ door = "term",
           door # "term" => /\ Len(r.got) <= Len(buf)
                            /\ \A i \in DOMAIN r.got : r.got[i] = buf[i],
           door = "term" => \A i \in DOMAIN r.got : r.got[i][1] # "end"
    PROVE  ProcInv'
<1>0. /\ ProcTypes /\ Answered /\ (\A t \in Subs : Follows(t))
      /\ (door # "term" => \A q \in DOMAIN pipe : Kept(q)) /\ (\A i \in DOMAIN buf : Ended(i))
      /\ (door \in {"none", "term"} => buf = << >>)
  BY DEF ProcInv
<1>1. subs'[s] = r /\ \A t \in Subs \ {s} : subs'[t] = subs[t]
  BY <1>0 DEF ProcTypes
<1>2. ASSUME NEW t \in Subs  PROVE Follows(t)'
  BY <1>0, <1>1 DEF Follows
<1>3. CASE door = "term"
  <2>1. buf' = << >> /\ DOMAIN << >> = {} /\ Answered'
    BY <1>0, <1>3 DEF Answered, P!Waited
  <2> QED  BY <1>2, <1>3, <2>1 DEF ProcInv
<1>4. CASE door # "term" /\ UNCHANGED <<pr, pipe>>
  <2>1. \A q \in DOMAIN pipe' : Kept(q)'
    BY <1>0, <1>4 DEF Kept, P!InOrder, P!Writers
  <2>2. (\A i \in DOMAIN buf' : Ended(i)') /\ Answered'
    BY <1>0, <1>4 DEF Ended, P!Drained, P!Tabled, Answered, P!Waited
  <2> QED  BY <1>0, <1>2, <1>4, <2>1, <2>2 DEF ProcInv
<1> QED  BY <1>3, <1>4

\* A subscriber's record, changed.
LEMMA SubFact ==
    ASSUME NEW x \in Sub
    PROVE  /\ \A e \in Entry : /\ [x EXCEPT !.got = Append(x.got, e)] \in Sub
                               /\ [x EXCEPT !.got = Append(x.got, e)].got = Append(x.got, e)
           /\ \A v \in {"ended", "gone"} : [x EXCEPT !.st = v] \in Sub /\ [x EXCEPT !.st = v].got = x.got
           /\ \A v \in {"on", "off"} : [st |-> v, got |-> << >>] \in Sub
           /\ DOMAIN << >> = {} /\ Len(<< >>) = 0
<1>1. x.got \in Seq(Entry) /\ << >> \in Seq(Entry) /\ DOMAIN << >> = {} /\ Len(<< >>) = 0
  BY DEF Sub
<1>2. ASSUME NEW e \in Entry  PROVE Append(x.got, e) \in Seq(Entry)
  BY <1>1
<1> QED  BY <1>1, <1>2 DEF Sub

\* The streams of the process table.
LEMMA TableStep ==
    ASSUME ProcInv, NEW s \in Subs,
           P!Attach(s) \/ P!Deliver(s) \/ P!StreamEnds(s) \/ P!Leave(s) \/ P!Released(s)
    PROVE  ProcInv'
<1> DEFINE x == subs[s]
<1>0. /\ ProcTypes /\ Follows(s) /\ x \in Sub /\ buf \in Seq(Entry) /\ door # "term" /\ P!Tabled
      /\ UNCHANGED <<door, pr, pipe, buf, call>>
  BY DEF ProcInv, ProcTypes, Sub, P!Tabled, P!Attach, P!Deliver, P!StreamEnds, P!Leave, P!Released
<1>1. ASSUME NEW r \in Sub, subs' = [subs EXCEPT ![s] = r], Len(r.got) <= Len(buf),
             \A i \in DOMAIN r.got : r.got[i] = buf[i]
      PROVE  ProcInv'
  <2>1. ProcTypes'
    BY <1>0, <1>1 DEF ProcTypes, Sub
  <2> QED  BY <1>0, <1>1, <2>1, SubStep
<1>2. /\ x.got \in Seq(Entry) /\ Len(x.got) \in Nat /\ Len(buf) \in Nat /\ Len(x.got) <= Len(buf)
      /\ DOMAIN x.got = 1 .. Len(x.got) /\ DOMAIN buf = 1 .. Len(buf)
      /\ \A i \in DOMAIN x.got : x.got[i] = buf[i]
  <2>1. x.got \in Seq(Entry)
    BY <1>0 DEF Sub
  <2>2. Len(x.got) <= Len(buf) /\ \A i \in DOMAIN x.got : x.got[i] = buf[i]
    BY <1>0 DEF Follows
  <2> HIDE DEF x
  <2> QED  BY <1>0, <2>1, <2>2
<1>3. CASE P!Attach(s) \/ P!Released(s)
  <2>1. PICK v \in {"on", "off"} : subs' = [subs EXCEPT ![s] = [st |-> v, got |-> << >>]]
    BY <1>3 DEF P!Attach, P!Released
  <2>2. [st |-> v, got |-> << >>] \in Sub /\ Len(<< >>) = 0 /\ DOMAIN << >> = {}
    BY <1>0, SubFact
  <2>3. 0 <= Len(buf)
    BY <1>2
  <2> QED  BY <1>1, <2>1, <2>2, <2>3
<1>4. CASE P!StreamEnds(s) \/ P!Leave(s)
  <2>1. PICK v \in {"ended", "gone"} : subs' = [subs EXCEPT ![s] = [x EXCEPT !.st = v]]
    BY <1>4 DEF P!StreamEnds, P!Leave
  <2>2. [x EXCEPT !.st = v] \in Sub /\ [x EXCEPT !.st = v].got = x.got
    <3>1. x \in Sub
      BY <1>0
    <3> HIDE DEF x
    <3> QED  BY <3>1, SubFact
  <2> HIDE DEF x
  <2> QED  BY <1>1, <1>2, <2>1, <2>2
<1>5. CASE P!Deliver(s)
  <2> DEFINE l == Len(x.got) + 1
             e == buf[l]
             r == [x EXCEPT !.got = Append(x.got, e)]
  <2>1. Len(x.got) < Len(buf) /\ subs' = [subs EXCEPT ![s] = r]
    BY <1>5 DEF P!Deliver, P!Pending
  <2>2. l \in 1 .. Len(buf) /\ e \in Entry
    <3> HIDE DEF x
    <3>1. l \in 1 .. Len(buf)
      BY <1>2, <2>1
    <3> QED  BY <1>0, <3>1
  <2>3. r \in Sub /\ r.got = Append(x.got, e)
    <3>1. x \in Sub
      BY <1>0
    <3> HIDE DEF x, e
    <3> QED  BY <2>2, <3>1, SubFact
  <2>4. Len(r.got) = l /\ \A i \in 1 .. l : r.got[i] = buf[i]
    <3> HIDE DEF x, r
    <3> QED  BY <1>2, <2>2, <2>3
  <2>5. DOMAIN r.got = 1 .. l
    <3>1. r.got \in Seq(Entry)
      BY <2>3 DEF Sub
    <3>2. \A t \in Seq(Entry) : DOMAIN t = 1 .. Len(t)
      OBVIOUS
    <3> HIDE DEF r, l
    <3> QED  BY <2>4, <3>1, <3>2
  <2>6. Len(r.got) <= Len(buf) /\ \A i \in DOMAIN r.got : r.got[i] = buf[i]
    <3> HIDE DEF r, l
    <3> QED  BY <1>2, <2>2, <2>4, <2>5
  <2> HIDE DEF r
  <2> QED  BY <1>1, <2>1, <2>3, <2>6
<1> QED  BY <1>3, <1>4, <1>5

\* The websockets of a terminal.
LEMMA TerminalStep ==
    ASSUME ProcInv, NEW s \in Subs, P!HandleWebSocket(s) \/ P!PtyRead(s) \/ P!CloseSession(s)
    PROVE  ProcInv'
<1> DEFINE x == subs[s]
           y == pipe["pty"]
<1>0. /\ ProcTypes /\ Follows(s) /\ x \in Sub /\ door = "term" /\ UNCHANGED <<door, buf, call>>
      /\ pipe \in [{"pty"} -> Pipe] /\ y \in Pipe /\ pr \in Program /\ pr.st # "none"
  BY DEF ProcInv, ProcTypes, Sub, P!Pipes, P!HandleWebSocket, P!PtyRead, P!CloseSession
<1>1. x.got \in Seq(Entry) /\ \A i \in DOMAIN x.got : x.got[i][1] # "end"
  BY <1>0 DEF Sub, Follows
<1>2. ASSUME NEW r \in Sub, subs' = [subs EXCEPT ![s] = r], \A i \in DOMAIN r.got : r.got[i][1] # "end",
             pr' \in Program, pr'.st # "none", pipe' \in [{"pty"} -> Pipe]
      PROVE  ProcInv'
  <2>1. ProcTypes'
    BY <1>0, <1>2 DEF ProcTypes, Sub, P!Pipes
  <2> QED  BY <1>0, <1>2, <2>1, SubStep
<1>3. CASE P!HandleWebSocket(s)
  <2>1. subs' = [subs EXCEPT ![s] = [st |-> "on", got |-> << >>]] /\ UNCHANGED <<pr, pipe>>
    BY <1>3 DEF P!HandleWebSocket
  <2>2. [st |-> "on", got |-> << >>] \in Sub /\ DOMAIN << >> = {}
    BY <1>0, SubFact
  <2> QED  BY <1>0, <1>2, <2>1, <2>2
<1>4. CASE P!PtyRead(s)
  <2> DEFINE z == [y EXCEPT !.read = @ + 1]
             e == <<"pty", y.read + 1>>
             r == [x EXCEPT !.got = Append(x.got, e)]
  <2>1. pipe' = [pipe EXCEPT !["pty"] = z] /\ subs' = [subs EXCEPT ![s] = r] /\ UNCHANGED pr
    BY <1>4 DEF P!PtyRead
  <2>2. z \in Pipe /\ e \in Entry /\ e[1] # "end"
    <3>1. y \in Pipe
      BY <1>0
    <3> HIDE DEF y
    <3>2. z \in Pipe /\ y.read + 1 \in Nat
      BY <3>1, PipeFact DEF Pipe
    <3> QED  BY <3>2 DEF Entry, Tags
  <2>3. pipe' \in [{"pty"} -> Pipe]
    <3> HIDE DEF z
    <3> QED  BY <1>0, <2>1, <2>2
  <2> HIDE DEF e
  <2>4. r \in Sub /\ r.got = Append(x.got, e)
    <3>1. x \in Sub
      BY <1>0
    <3> HIDE DEF x
    <3> QED  BY <2>2, <3>1, SubFact
  <2>5. \A i \in DOMAIN r.got : r.got[i][1] # "end"
    <3>1. \A t \in Seq(Entry) : \A i \in DOMAIN Append(t, e) :
             Append(t, e)[i] = e \/ (i \in DOMAIN t /\ Append(t, e)[i] = t[i])
      BY <2>2
    <3> HIDE DEF r, x
    <3> QED  BY <1>1, <2>2, <2>4, <3>1
  <2> HIDE DEF r
  <2> QED  BY <1>0, <1>2, <2>1, <2>3, <2>4, <2>5
<1>5. CASE P!CloseSession(s)
  <2> DEFINE z == [y EXCEPT !.open = FALSE]
             r == [x EXCEPT !.st = "ended"]
  <2>1. /\ pipe' = [pipe EXCEPT !["pty"] = z] /\ subs' = [subs EXCEPT ![s] = r]
        /\ pr' = IF y.open THEN P!KillGroup(pr) ELSE pr
    BY <1>5 DEF P!CloseSession
  <2>2. z \in Pipe
    <3>1. y \in Pipe
      BY <1>0
    <3> HIDE DEF y
    <3> QED  BY <3>1, PipeFact
  <2>3. pipe' \in [{"pty"} -> Pipe]
    <3> HIDE DEF z
    <3> QED  BY <1>0, <2>1, <2>2
  <2>4. r \in Sub /\ r.got = x.got
    <3>1. x \in Sub
      BY <1>0
    <3> HIDE DEF x
    <3> QED  BY <3>1, SubFact
  <2>5. pr' \in Program /\ pr'.st # "none"
    BY <1>0, <2>1, KillFact
  <2> HIDE DEF r
  <2> QED  BY <1>1, <1>2, <2>1, <2>3, <2>4, <2>5
<1> QED  BY <1>3, <1>4, <1>5

\* Every step of the programs and of who waits for them.
LEMMA ProcNext == ProcInv /\ P!Next => ProcInv'
<1> SUFFICES ASSUME ProcInv, P!Next  PROVE ProcInv'
  OBVIOUS
<1>1. ASSUME NEW d \in Doors, P!ExecuteStream(d) \/ P!ProcStart(d)  PROVE ProcInv'
  <2>1. call \in Calling
    BY DEF ProcInv, ProcTypes
  <2>2. CASE P!ExecuteStream(d)
    <3>1. d \in {"execute", "stream"} /\ P!Started(d) /\ call' = [st |-> "waiting", code |-> "none"]
      BY <2>2 DEF P!ExecuteStream
    <3>2. call' \in Calling /\ call'.st = "waiting"
      BY <3>1 DEF Calling, Codes
    <3> QED  BY <3>1, <3>2, StartedStep
  <2>3. CASE P!ProcStart(d)
    BY <2>1, <2>3, StartedStep DEF P!ProcStart
  <2> QED  BY <1>1, <2>2, <2>3
<1>2. ASSUME NEW p \in DOMAIN pipe, P!Pump(p) \/ P!PumpEnds(p)  PROVE ProcInv'
  BY <1>2, PumpStep, PumpEndsStep
<1>3. ASSUME NEW s \in Subs,
             \/ P!Attach(s) \/ P!Deliver(s) \/ P!StreamEnds(s) \/ P!Leave(s) \/ P!Released(s)
             \/ P!HandleWebSocket(s) \/ P!PtyRead(s) \/ P!CloseSession(s)
      PROVE  ProcInv'
  BY <1>3, TableStep, TerminalStep
<1>4. ASSUME NEW d \in Doors, P!ExecRefused(d) \/ P!ProcRefused(d)  PROVE ProcInv'
  BY <1>4, RefusedRequest
<1>5. ASSUME P!ProcSendInput \/ P!ProcCloseStdin  PROVE ProcInv'
  BY <1>5, RefusedRequest
<1>6. ASSUME P!PtyCreate  PROVE ProcInv'
  <2>1. call \in Calling
    BY DEF ProcInv, ProcTypes
  <2> QED  BY <1>6, <2>1, StartedStep DEF P!PtyCreate
<1> QED  BY <1>1, <1>2, <1>3, <1>4, <1>5, <1>6, ProgramStep, CallStep, AppendEndStep DEF P!Next

\* Who is told how the program ended is told the truth, and all of it.
LEMMA ProcTold == ProcInv => ToldAll
<1> SUFFICES ASSUME ProcInv  PROVE P!ToldAll
  BY DEF ToldAll
<1>0. ProcTypes /\ Answered /\ buf \in Seq(Entry)
  BY DEF ProcInv, ProcTypes
<1>1. P!Drained /\ door # "term" => P!Complete(buf) /\ (door # "none" => ~P!Writers)
  <2> SUFFICES ASSUME P!Drained, door # "term"
               PROVE  P!Complete(buf) /\ (door # "none" => ~P!Writers)
    OBVIOUS
  <2>1. \A p \in DOMAIN pipe : P!InOrder(buf, p, pipe[p].wrote) /\ ~P!Writers
    <3> TAKE p \in DOMAIN pipe
    <3>1. Kept(p) /\ ~pipe[p].open
      BY DEF ProcInv, P!Drained
    <3>2. P!InOrder(buf, p, pipe[p].read) /\ pipe[p].read = pipe[p].wrote /\ ~P!Writers
      BY <3>1 DEF Kept
    <3> QED  BY <3>2
  <2>2. door # "none" => DOMAIN pipe # {}
    BY <1>0 DEF ProcTypes, P!Pipes
  <2> QED  BY <2>1, <2>2 DEF P!Complete
<1>2. ASSUME NEW s \in Subs, NEW i \in DOMAIN subs[s].got, subs[s].got[i][1] = "end"
      PROVE  /\ i = Len(subs[s].got) /\ subs[s].got[i][2] = pr.code
             /\ P!Complete(subs[s].got)
  <2> DEFINE got == subs[s].got
  <2>1. got \in Seq(Entry) /\ Follows(s)
    BY <1>0 DEF ProcTypes, ProcInv
  <2>2. door # "term" /\ Len(got) <= Len(buf) /\ \A j \in DOMAIN got : got[j] = buf[j]
    BY <1>2, <2>1 DEF Follows
  <2> HIDE DEF got
  <2>3. i \in DOMAIN got /\ got[i][1] = "end"
    BY <1>2 DEF got
  <2>4. DOMAIN got = 1 .. Len(got) /\ DOMAIN buf = 1 .. Len(buf) /\ Len(got) \in Nat /\ Len(buf) \in Nat
    BY <1>0, <2>1
  <2>5. i \in DOMAIN buf /\ buf[i][1] = "end" /\ got[i] = buf[i]
    BY <2>2, <2>3, <2>4
  <2>6. i = Len(buf) /\ buf[i][2] = pr.code /\ P!Drained
    BY <2>5 DEF ProcInv, Ended
  <2>7. i = Len(got) /\ Len(got) = Len(buf)
    <3>1. i \in 1 .. Len(got) /\ Len(got) <= Len(buf) /\ i = Len(buf)
      BY <2>2, <2>3, <2>4, <2>6
    <3>2. Len(got) \in Nat /\ Len(buf) \in Nat
      BY <2>4
    <3>3. \A a, b \in Nat : \A j \in 1 .. a : a <= b /\ j = b => j = a /\ a = b
      OBVIOUS
    <3> QED  BY <3>1, <3>2, <3>3
  <2>8. got = buf
    BY <1>0, <2>1, <2>2, <2>4, <2>7, SeqEqual
  <2> QED  BY <1>1, <2>2, <2>5, <2>6, <2>7, <2>8 DEF got
<1>3. ASSUME P!Waited, call.st = "returned"
      PROVE  P!Complete(buf) /\ ~P!Writers /\ call.code \in {pr.code, "timeout"}
  BY <1>0, <1>1, <1>3 DEF Answered, P!Waited
<1> QED  BY <1>2, <1>3 DEF P!ToldAll

\* While another part is looked at, there is no program.
ToldInv ==
    /\ part = "processes" => ProcInv
    /\ part # "processes" => P!Init

\* However programs write, end and leave descendants behind, and whenever the
\* readers, subscribers and deadlines come to run: who is told how a program
\* ended has all its output, in order, and is told the truth.
THEOREM ToldKept == Spec => []ToldAll
<1>1. Init => ToldInv
  BY ProcInit DEF Init, ToldInv
<1>2. ToldInv /\ [Next]_vars => ToldInv'
  <2> SUFFICES ASSUME ToldInv, [Next]_vars  PROVE ToldInv'
    OBVIOUS
  <2>1. CASE part = "processes" /\ P!Next /\ UNCHANGED part
    BY <2>1, ProcNext DEF ToldInv
  <2>2. CASE UNCHANGED <<part, pvars>>
    <3>1. CASE part = "processes"
      BY <2>2, <3>1 DEF ToldInv, pvars, ProcInv, ProcTypes, Answered, Kept, Ended, Follows,
         P!Tabled, P!Waited, P!Drained, P!Writers, P!InOrder
    <3>2. CASE part # "processes"
      BY <2>2, <3>2 DEF ToldInv, pvars, P!Init
    <3> QED  BY <3>1, <3>2
  <2> QED  BY <2>1, <2>2 DEF Next, vars
<1>3. ToldInv => ToldAll
  BY ProcInit, ProcTold DEF ToldInv
<1> QED  BY <1>1, <1>2, <1>3, PTL DEF Spec

-----------------------------------------------------------------------------
(* Sessions *)

Instance == [alive : BOOLEAN, closed : BOOLEAN, dir : BOOLEAN, stdin : Seq(S!Calls),
             run : S!Calls \cup {0}, out : Seq(S!Calls), lock : Clients \cup {S!Nobody}]
Command  == [g : Nat, code : {"none", "zero", "other"}, log : {"none", "full"},
             file : {"none", "empty", "code"}]
Caller   == [pc : {"idle", "found", "open", "ready", "wait", "log", "read"},
             k : Nat, g : Nat, async : BOOLEAN]
Results  == {"none", "error", "accepted", "zero", "other", "blank"}

SessTypes ==
    /\ kind \in {"shell", "kernel"}
    /\ gens \in Nat /\ gens <= MaxGens /\ reg \in Nat /\ reg <= gens /\ calls \in Nat
    /\ inst \in [S!Gens -> Instance]
    /\ cmd \in [S!Calls -> Command]
    /\ scl \in [Clients -> Caller]
    /\ sres \in [S!Calls -> Results]

\* Every call has a number of its own, and no result before it ends.
Called(c) == scl[c].pc # "idle" =>
    /\ scl[c].k \in S!Calls /\ scl[c].k <= calls
    /\ scl[c].g \in S!Gens /\ scl[c].g <= gens
    /\ sres[scl[c].k] = "none"

Callers ==
    /\ \A k \in S!Calls : k > calls => sres[k] = "none" /\ cmd[k].g = 0
    /\ \A c \in Clients : Called(c)
    /\ \A c, d \in Clients :
          scl[c].pc # "idle" /\ scl[d].pc # "idle" /\ scl[c].k = scl[d].k => c = d

\* A command has its instance before it goes to the shell.
InShell(c) ==
    /\ scl[c].pc # "read"
    /\ scl[c].pc \in {"found", "open"} => cmd[scl[c].k].g = 0
    /\ scl[c].pc \in {"ready", "wait", "log"} => cmd[scl[c].k].g = scl[c].g
    /\ scl[c].pc = "log" => cmd[scl[c].k].code # "none"

Shell(g) ==
    /\ inst[g].alive => inst[g].dir /\ ~inst[g].closed
    /\ \A i \in DOMAIN inst[g].stdin : cmd[inst[g].stdin[i]].g = g
    /\ inst[g].run # 0 => cmd[inst[g].run].g = g

\* A command that has ended has its log, unless its session was closed.
Logged(k) ==
    /\ cmd[k].g <= gens
    /\ cmd[k].file # "none" => cmd[k].code # "none"
    /\ cmd[k].code # "none" =>
          cmd[k].g # 0 /\ (cmd[k].log = "full" \/ inst[cmd[k].g].closed)

Shells == kind = "shell" =>
    /\ \A c \in Clients : InShell(c)
    /\ \A g \in S!Gens : Shell(g)
    /\ \A k \in S!Calls : Logged(k)

\* The command of the call that has the mutex is the only one in the kernel.
Holds(i, k) ==
    \/ i.stdin = <<k>> /\ i.run = 0 /\ i.out = << >> /\ i.alive
    \/ i.stdin = << >> /\ i.run = k /\ i.out = << >> /\ i.alive
    \/ i.stdin = << >> /\ i.run = 0 /\ i.out = <<k>>
    \/ i.stdin = << >> /\ i.run = 0 /\ i.out = << >> /\ ~i.alive

InKernel(c) ==
    /\ scl[c].pc \in {"idle", "found", "read"}
    /\ scl[c].pc = "read" => inst[scl[c].g].lock = c

Kernel(g) ==
    /\ inst[g].lock = S!Nobody =>
          inst[g].run = 0 /\ inst[g].stdin = << >> /\ inst[g].out = << >>
    /\ inst[g].lock # S!Nobody =>
          /\ scl[inst[g].lock].pc = "read" /\ scl[inst[g].lock].g = g
          /\ Holds(inst[g], scl[inst[g].lock].k)

Kernels == kind = "kernel" =>
    /\ \A c \in Clients : InKernel(c)
    /\ \A g \in S!Gens : Kernel(g)

\* A result is the command's own, or its session was there and was closed.
Told(k) ==
    \/ sres[k] \in {"none", "error", "accepted"}
    \/ sres[k] = cmd[k].code
    \/ sres[k] = "blank" /\ cmd[k].g \in S!Gens /\ cmd[k].g <= gens /\ inst[cmd[k].g].closed

SessInv == SessTypes /\ Callers /\ Shells /\ Kernels /\ \A k \in S!Calls : Told(k)

\* The numbers of instances and calls.
LEMMA Numbers ==
    /\ S!Gens = 1 .. MaxGens /\ MaxGens \in Nat
    /\ S!Calls = 1 .. MaxCommands /\ MaxCommands \in Nat
BY ToolboxAssumption DEF S!Gens, S!Calls

\* A new instance.
LEMMA NewFact ==
    /\ S!NewInst \in Instance /\ S!NewInst.alive /\ ~S!NewInst.closed /\ S!NewInst.dir
    /\ S!NewInst.stdin = << >> /\ S!NewInst.out = << >> /\ S!NewInst.run = 0
    /\ S!NewInst.lock = S!Nobody
BY DEF S!NewInst, Instance

\* The first states.
LEMMA SessInit == S!Init /\ calls = 0 => SessInv
<1> SUFFICES ASSUME S!Init, calls = 0  PROVE SessInv
  OBVIOUS
<1>0. /\ kind \in Kinds /\ reg = 0 /\ gens = 0
      /\ inst = [g \in S!Gens |-> [S!NewInst EXCEPT !.alive = FALSE, !.dir = FALSE]]
      /\ cmd = [k \in S!Calls |-> S!NoCmd]
      /\ scl = [c \in Clients |-> S!IdleClient]
      /\ sres = [k \in S!Calls |-> "none"]
  BY DEF S!Init
<1> DEFINE e == [S!NewInst EXCEPT !.alive = FALSE, !.dir = FALSE]
<1>1. /\ e \in Instance /\ ~e.alive /\ e.stdin = << >> /\ e.out = << >> /\ e.run = 0
      /\ e.lock = S!Nobody
  BY NewFact DEF Instance
<1>2. inst = [g \in S!Gens |-> e]
  BY <1>0
<1> HIDE DEF e
<1>3. S!NoCmd \in Command /\ S!NoCmd.g = 0 /\ S!NoCmd.code = "none" /\ S!NoCmd.file = "none"
  BY DEF S!NoCmd, Command
<1>4. S!IdleClient \in Caller /\ S!IdleClient.pc = "idle"
  BY DEF S!IdleClient, Caller
<1>5. SessTypes
  BY <1>0, <1>1, <1>2, <1>3, <1>4, ToolboxAssumption, Numbers DEF SessTypes, Results
<1>6. Callers
  BY <1>0, <1>3, <1>4 DEF Callers, Called
<1>9. Shells
  <2>1. \A c \in Clients : InShell(c)
    BY <1>0, <1>4 DEF InShell
  <2>2. \A g \in S!Gens : Shell(g)
    BY <1>1, <1>2 DEF Shell
  <2>3. \A k \in S!Calls : Logged(k)
    BY <1>0, <1>3 DEF Logged
  <2> QED  BY <2>1, <2>2, <2>3 DEF Shells
<1>7. Kernels
  BY <1>0, <1>1, <1>2, <1>4 DEF Kernels, InKernel, Kernel
<1>8. \A k \in S!Calls : Told(k)
  BY <1>0 DEF Told
<1> QED  BY <1>5, <1>6, <1>7, <1>8, <1>9 DEF SessInv

\* A call ends: its client is idle and it has its result.
LEMMA Returned ==
    ASSUME SessTypes, Callers, NEW c \in Clients, NEW r \in Results, scl[c].pc # "idle",
           S!Return(c, r), UNCHANGED <<cmd, gens, calls>>
    PROVE  /\ scl[c].k \in S!Calls
           /\ scl' \in [Clients -> Caller] /\ scl'[c].pc = "idle"
           /\ \A d \in Clients \ {c} : scl'[d] = scl[d]
           /\ sres' \in [S!Calls -> Results] /\ sres'[scl[c].k] = r
           /\ \A k \in S!Calls \ {scl[c].k} : sres'[k] = sres[k]
           /\ Callers'
<1>1. scl[c].k \in S!Calls /\ scl[c].k <= calls /\ scl[c].k \in Nat
  BY Numbers DEF Callers, Called
<1>2. /\ scl' \in [Clients -> Caller] /\ scl'[c].pc = "idle"
      /\ \A d \in Clients \ {c} : scl'[d] = scl[d]
  BY DEF SessTypes, S!Return, S!IdleClient, Caller
<1>3. /\ sres' \in [S!Calls -> Results] /\ sres'[scl[c].k] = r
      /\ \A k \in S!Calls \ {scl[c].k} : sres'[k] = sres[k]
  BY <1>1 DEF SessTypes, S!Return
<1>4. Callers'
  <2>1. ASSUME NEW d \in Clients  PROVE Called(d)'
    BY <1>1, <1>2, <1>3 DEF Callers, Called
  <2>2. ASSUME NEW d \in Clients, NEW e \in Clients, scl'[d].pc # "idle", scl'[e].pc # "idle",
               scl'[d].k = scl'[e].k
        PROVE  d = e
    BY <1>2, <2>2 DEF Callers
  <2>3. \A k \in S!Calls : k > calls' => sres'[k] = "none" /\ cmd'[k].g = 0
    <3>1. \A k \in S!Calls : k > calls => k # scl[c].k
      BY <1>1, Numbers DEF SessTypes
    <3> QED  BY <1>3, <3>1 DEF Callers
  <2> QED  BY <2>1, <2>2, <2>3 DEF Callers
<1> QED  BY <1>1, <1>2, <1>3, <1>4

\* A call that has not the kernel's mutex ends.
LEMMA CallEnds ==
    ASSUME SessInv, NEW c \in Clients, NEW r \in Results, scl[c].pc \notin {"idle", "read"},
           S!Return(c, r), UNCHANGED <<kind, reg, gens, inst, cmd, calls>>,
           \/ r \in {"none", "error", "accepted"}
           \/ r = cmd[scl[c].k].code
           \/ /\ r = "blank" /\ cmd[scl[c].k].g \in S!Gens /\ cmd[scl[c].k].g <= gens
              /\ inst[cmd[scl[c].k].g].closed
    PROVE  SessInv'
<1>0. SessTypes /\ Callers /\ Shells /\ Kernels /\ \A k \in S!Calls : Told(k)
  BY DEF SessInv
<1>1. scl[c].k \in S!Calls /\ Callers'
  BY <1>0, Returned
<1>2. /\ scl' \in [Clients -> Caller] /\ scl'[c].pc = "idle"
      /\ \A d \in Clients \ {c} : scl'[d] = scl[d]
  BY <1>0, Returned
<1>3. /\ sres' \in [S!Calls -> Results] /\ sres'[scl[c].k] = r
      /\ \A k \in S!Calls \ {scl[c].k} : sres'[k] = sres[k]
  BY <1>0, Returned
<1>4. SessTypes'
  BY <1>0, <1>2, <1>3 DEF SessTypes
<1>6. Shells'
  <2> SUFFICES ASSUME kind = "shell"  PROVE Shells'
    BY DEF Shells
  <2>1. ASSUME NEW d \in Clients  PROVE InShell(d)'
    <3>1. scl'[d].pc = "idle" \/ scl'[d] = scl[d]
      BY <1>2, SMTT(20)
    <3> QED  BY <1>0, <3>1 DEF Shells, InShell
  <2>2. /\ \A g \in S!Gens : Shell(g)'
        /\ \A k \in S!Calls : Logged(k)'
    BY <1>0 DEF Shells, Shell, Logged
  <2> QED  BY <2>1, <2>2 DEF Shells
<1>7. Kernels'
  <2> SUFFICES ASSUME kind = "kernel"  PROVE Kernels'
    BY DEF Kernels
  <2>1. ASSUME NEW d \in Clients  PROVE InKernel(d)'
    BY <1>0, <1>2 DEF Kernels, InKernel
  <2>2. ASSUME NEW g \in S!Gens  PROVE Kernel(g)'
    <3>1. inst[g].lock \in Clients \cup {S!Nobody} /\ Kernel(g)
      BY <1>0 DEF SessTypes, Instance, Kernels
    <3>2. inst[g].lock # S!Nobody => inst[g].lock # c
      BY <3>1 DEF Kernel
    <3>3. inst[g].lock # S!Nobody => scl'[inst[g].lock] = scl[inst[g].lock]
      BY <1>2, <3>1, <3>2
    <3> QED  BY <3>1, <3>3 DEF Kernel
  <2> QED  BY <2>1, <2>2 DEF Kernels
<1>8. \A k \in S!Calls : Told(k)'
  BY <1>0, <1>1, <1>3 DEF Told
<1> QED  BY <1>1, <1>4, <1>6, <1>7, <1>8 DEF SessInv

\* A caller of a shell goes on.
LEMMA CallMoves ==
    ASSUME SessInv, NEW c \in Clients, NEW p, kind = "shell",
           scl' = [scl EXCEPT ![c].pc = p], UNCHANGED <<kind, reg, gens, inst, cmd, sres, calls>>,
           \/ scl[c].pc = "found" /\ p = "open"
           \/ scl[c].pc = "wait" /\ p = "log" /\ cmd[scl[c].k].code # "none"
    PROVE  SessInv'
<1>0. SessTypes /\ Callers /\ Shells /\ \A k \in S!Calls : Told(k)
  BY DEF SessInv
<1>1. /\ scl' \in [Clients -> Caller] /\ scl'[c].pc = p
      /\ \A d \in Clients : scl'[d].k = scl[d].k /\ scl'[d].g = scl[d].g
      /\ \A d \in Clients \ {c} : scl'[d] = scl[d]
  BY <1>0 DEF SessTypes, Caller
<1>2. SessTypes'
  BY <1>0, <1>1 DEF SessTypes
<1>3. Callers'
  <2>1. ASSUME NEW d \in Clients  PROVE Called(d)' /\ (scl'[d].pc # "idle" => scl[d].pc # "idle")
    BY <1>0, <1>1 DEF Callers, Called
  <2> QED  BY <1>0, <1>1, <2>1 DEF Callers
<1>4. Shells'
  <2>1. ASSUME NEW d \in Clients  PROVE InShell(d)'
    BY <1>0, <1>1 DEF Shells, InShell
  <2> QED  BY <1>0, <2>1 DEF Shells, Shell, Logged
<1>5. Kernels' /\ \A k \in S!Calls : Told(k)'
  BY <1>0 DEF Kernels, Told
<1> QED  BY <1>2, <1>3, <1>4, <1>5 DEF SessInv

\* One instance changes, and nothing else but what is registered.
LEMMA InstStep ==
    ASSUME SessInv, NEW g \in S!Gens, NEW e \in Instance, inst' = [inst EXCEPT ![g] = e],
           reg' \in Nat, reg' <= gens, UNCHANGED <<kind, gens, cmd, scl, sres, calls>>,
           inst[g].closed => e.closed,
           kind = "shell" => /\ e.alive => e.dir /\ ~e.closed
                             /\ \A i \in DOMAIN e.stdin : cmd[e.stdin[i]].g = g
                             /\ e.run # 0 => cmd[e.run].g = g,
           kind = "kernel" => /\ e.lock = inst[g].lock
                              /\ e.lock = S!Nobody => e.run = 0 /\ e.stdin = << >> /\ e.out = << >>
                              /\ e.lock # S!Nobody => Holds(e, scl[e.lock].k)
    PROVE  SessInv'
<1>0. SessTypes /\ Callers /\ Shells /\ Kernels /\ \A k \in S!Calls : Told(k)
  BY DEF SessInv
<1>1. /\ inst' \in [S!Gens -> Instance] /\ inst'[g] = e
      /\ \A h \in S!Gens \ {g} : inst'[h] = inst[h]
  BY <1>0 DEF SessTypes
<1>2. SessTypes'
  BY <1>0, <1>1 DEF SessTypes
<1>3. Callers'
  BY <1>0 DEF Callers, Called
<1>4. Shells'
  <2> SUFFICES ASSUME kind = "shell"  PROVE Shells'
    BY DEF Shells
  <2>1. \A c \in Clients : InShell(c)'
    BY <1>0 DEF Shells, InShell
  <2>2. \A h \in S!Gens : Shell(h)'
    BY <1>0, <1>1 DEF Shells, Shell
  <2>3. ASSUME NEW k \in S!Calls  PROVE Logged(k)'
    <3>1. Logged(k) /\ cmd[k].g \in Nat /\ gens <= MaxGens /\ gens \in Nat
      BY <1>0 DEF Shells, SessTypes, Command
    <3>2. cmd[k].g # 0 => cmd[k].g \in S!Gens
      BY <3>1, Numbers DEF Logged
    <3> QED  BY <1>1, <3>1, <3>2 DEF Logged
  <2> QED  BY <2>1, <2>2, <2>3 DEF Shells
<1>5. Kernels'
  <2> SUFFICES ASSUME kind = "kernel"  PROVE Kernels'
    BY DEF Kernels
  <2>1. ASSUME NEW c \in Clients  PROVE InKernel(c)'
    <3>1. InKernel(c) /\ Called(c)
      BY <1>0 DEF Kernels, Callers
    <3>2. scl[c].pc = "read" => inst'[scl[c].g].lock = inst[scl[c].g].lock
      BY <1>1, <3>1 DEF Called
    <3> QED  BY <3>1, <3>2 DEF InKernel
  <2>2. ASSUME NEW h \in S!Gens  PROVE Kernel(h)'
    <3>1. CASE h = g
      BY <1>0, <1>1, <3>1 DEF Kernels, Kernel
    <3>2. CASE h # g
      BY <1>0, <1>1, <3>2 DEF Kernels, Kernel
    <3> QED  BY <3>1, <3>2
  <2> QED  BY <2>1, <2>2 DEF Kernels
<1>6. \A k \in S!Calls : Told(k)'
  BY <1>0, <1>1 DEF Told
<1> QED  BY <1>2, <1>3, <1>4, <1>5, <1>6 DEF SessInv

\* A new call: it gets the next number, and is answered or has its instance.
LEMMA CallBegins ==
    ASSUME SessInv, NEW c \in Clients, NEW g, NEW a \in BOOLEAN,
           scl[c].pc = "idle", calls < MaxCommands, calls' = calls + 1, reg' = g, UNCHANGED <<kind, cmd, sres>>,
           scl' = [scl EXCEPT ![c] = [pc |-> "found", k |-> calls + 1, g |-> g, async |-> a]],
           \/ g = reg /\ reg # 0 /\ UNCHANGED <<gens, inst>>
           \/ /\ g = gens + 1 /\ g \in S!Gens /\ gens' = g /\ reg = 0
              /\ inst' = [inst EXCEPT ![g] = S!NewInst]
    PROVE  SessInv'
<1>0. SessTypes /\ Callers /\ Shells /\ Kernels /\ \A k \in S!Calls : Told(k)
  BY DEF SessInv
<1>1. /\ calls \in Nat /\ gens \in Nat /\ g \in S!Gens /\ g \in Nat /\ g <= gens' /\ gens <= gens'
      /\ gens' <= MaxGens /\ gens' \in Nat /\ calls + 1 \in S!Calls
  BY <1>0, Numbers DEF SessTypes
<1> DEFINE e == [pc |-> "found", k |-> calls + 1, g |-> g, async |-> a]
<1>2. e \in Caller /\ e.pc = "found" /\ e.k = calls + 1 /\ e.g = g
  BY <1>1 DEF Caller
<1> HIDE DEF e
<1>3. /\ scl' \in [Clients -> Caller] /\ scl'[c] = e
      /\ \A d \in Clients \ {c} : scl'[d] = scl[d]
  BY <1>0, <1>2 DEF SessTypes, e
<1>4. /\ inst' \in [S!Gens -> Instance]
      /\ \A h \in S!Gens : h <= gens => inst'[h] = inst[h]
      /\ \A h \in S!Gens : inst'[h] = inst[h] \/ inst'[h] = S!NewInst
  <2>1. CASE UNCHANGED inst
    BY <1>0, <2>1 DEF SessTypes
  <2>2. CASE g = gens + 1 /\ inst' = [inst EXCEPT ![g] = S!NewInst]
    <3>1. /\ inst' \in [S!Gens -> Instance] /\ inst'[g] = S!NewInst
          /\ \A h \in S!Gens \ {g} : inst'[h] = inst[h]
      BY <1>0, <1>1, <2>2, NewFact DEF SessTypes
    <3>2. \A h \in S!Gens : h <= gens => h # g
      BY <1>1, <2>2, Numbers
    <3> QED  BY <3>1, <3>2
  <2> QED  BY <2>1, <2>2
<1>5. SessTypes'
  BY <1>0, <1>1, <1>3, <1>4 DEF SessTypes
<1>6. Callers'
  <2>1. ASSUME NEW d \in Clients  PROVE Called(d)'
    <3>1. CASE d = c
      BY <1>0, <1>1, <1>2, <1>3, <3>1, Numbers DEF Called, Callers
    <3>2. CASE d # c
      <4>1. Called(d) /\ scl[d] \in Caller
        BY <1>0 DEF Callers, SessTypes
      <4>2. /\ scl[d].pc # "idle" => scl[d].k <= calls + 1 /\ scl[d].g <= gens'
        BY <1>1, <4>1, Numbers DEF Called
      <4> QED  BY <1>3, <3>2, <4>1, <4>2 DEF Called
    <3> QED  BY <3>1, <3>2
  <2>2. ASSUME NEW d \in Clients \ {c}, scl[d].pc # "idle"  PROVE scl[d].k # calls + 1
    BY <1>0, <1>1, <2>2, Numbers DEF Callers, Called
  <2>3. ASSUME NEW d \in Clients, NEW f \in Clients, scl'[d].pc # "idle", scl'[f].pc # "idle",
               scl'[d].k = scl'[f].k
        PROVE  d = f
    BY <1>0, <1>2, <1>3, <2>2, <2>3 DEF Callers
  <2>4. \A k \in S!Calls : k > calls' => sres'[k] = "none" /\ cmd'[k].g = 0
    BY <1>0, <1>1, Numbers DEF Callers
  <2> QED  BY <2>1, <2>3, <2>4 DEF Callers
<1>7. Shells'
  <2> SUFFICES ASSUME kind = "shell"  PROVE Shells'
    BY DEF Shells
  <2>1. ASSUME NEW d \in Clients  PROVE InShell(d)'
    <3>1. cmd[calls + 1].g = 0
      BY <1>0, <1>1 DEF Callers
    <3>2. CASE d = c
      BY <1>2, <1>3, <3>1, <3>2 DEF InShell
    <3>3. CASE d # c
      BY <1>0, <1>3, <3>3 DEF Shells, InShell
    <3> QED  BY <3>2, <3>3
  <2>2. ASSUME NEW h \in S!Gens  PROVE Shell(h)'
    <3>1. CASE inst'[h] = inst[h]
      BY <1>0, <3>1 DEF Shells, Shell
    <3>2. CASE inst'[h] = S!NewInst
      <4>1. DOMAIN inst'[h].stdin = {}
        BY <3>2, NewFact
      <4> QED  BY <3>2, <4>1, NewFact DEF Shell
    <3> QED  BY <1>4, <3>1, <3>2
  <2>3. ASSUME NEW k \in S!Calls  PROVE Logged(k)'
    <3>1. Logged(k) /\ cmd[k].g \in Nat
      BY <1>0 DEF Shells, SessTypes, Command
    <3>2. cmd[k].g # 0 => cmd[k].g \in S!Gens /\ cmd[k].g <= gens
      BY <1>0, <3>1, Numbers DEF Logged, SessTypes
    <3>3. cmd[k].g <= gens'
      BY <1>1, <3>1 DEF Logged
    <3> QED  BY <1>4, <3>1, <3>2, <3>3 DEF Logged
  <2> QED  BY <2>1, <2>2, <2>3 DEF Shells
<1>8. Kernels'
  <2> SUFFICES ASSUME kind = "kernel"  PROVE Kernels'
    BY DEF Kernels
  <2>1. ASSUME NEW d \in Clients  PROVE InKernel(d)'
    <3>1. CASE d = c
      BY <1>2, <1>3, <3>1 DEF InKernel
    <3>2. CASE d # c
      BY <1>0, <1>3, <1>4, <3>2 DEF Kernels, InKernel, Callers, Called
    <3> QED  BY <3>1, <3>2
  <2>2. ASSUME NEW h \in S!Gens  PROVE Kernel(h)'
    <3>1. CASE inst'[h] = inst[h]
      <4>1. inst[h].lock \in Clients \cup {S!Nobody} /\ Kernel(h)
        BY <1>0 DEF SessTypes, Instance, Kernels
      <4>2. inst[h].lock # S!Nobody => scl'[inst[h].lock] = scl[inst[h].lock]
        BY <1>3, <4>1 DEF Kernel
      <4> QED  BY <3>1, <4>1, <4>2 DEF Kernel
    <3>2. CASE inst'[h] = S!NewInst
      BY <3>2, NewFact DEF Kernel
    <3> QED  BY <1>4, <3>1, <3>2
  <2> QED  BY <2>1, <2>2 DEF Kernels
<1>9. ASSUME NEW k \in S!Calls  PROVE Told(k)'
  <2>1. Told(k) /\ cmd[k].g \in Nat
    BY <1>0 DEF SessTypes, Command
  <2>2. cmd[k].g <= gens => cmd[k].g <= gens'
    BY <1>1, <2>1
  <2> QED  BY <1>4, <2>1, <2>2 DEF Told
<1> QED  BY <1>5, <1>6, <1>7, <1>8, <1>9 DEF SessInv

\* A call without an instance is an error.
LEMMA CallRefused ==
    ASSUME SessInv, calls < MaxCommands, calls' = calls + 1,
           sres' = [sres EXCEPT ![calls + 1] = "error"],
           UNCHANGED <<kind, reg, gens, inst, cmd, scl>>
    PROVE  SessInv'
<1>0. SessTypes /\ Callers /\ Shells /\ Kernels /\ \A k \in S!Calls : Told(k)
  BY DEF SessInv
<1>1. calls \in Nat /\ calls' \in Nat /\ calls + 1 \in S!Calls
  BY <1>0, Numbers DEF SessTypes
<1>2. /\ sres' \in [S!Calls -> Results] /\ sres'[calls + 1] = "error"
      /\ \A k \in S!Calls \ {calls + 1} : sres'[k] = sres[k]
  BY <1>0, <1>1 DEF SessTypes, Results
<1>3. SessTypes'
  BY <1>0, <1>1, <1>2 DEF SessTypes
<1>4. Callers'
  <2>1. ASSUME NEW d \in Clients  PROVE Called(d)'
    BY <1>0, <1>1, <1>2, Numbers DEF Callers, Called
  <2>2. \A k \in S!Calls : k > calls' => sres'[k] = "none" /\ cmd'[k].g = 0
    BY <1>0, <1>1, <1>2, Numbers DEF Callers
  <2> QED  BY <1>0, <2>1, <2>2 DEF Callers
<1>5. Shells' /\ Kernels'
  BY <1>0 DEF Shells, InShell, Shell, Logged, Kernels, InKernel, Kernel
<1>6. \A k \in S!Calls : Told(k)'
  BY <1>0, <1>2 DEF Told
<1> QED  BY <1>3, <1>4, <1>5, <1>6 DEF SessInv

\* A session gets its shell.
LEMMA CreateStep ==
    ASSUME SessInv, S!SessionCreate
    PROVE  SessInv'
<1> DEFINE g == gens + 1
<1>0. /\ SessTypes /\ Callers /\ Shells /\ \A k \in S!Calls : Told(k)
      /\ kind = "shell" /\ gens < MaxGens /\ gens' = g /\ reg' = g
      /\ inst' = [inst EXCEPT ![g] = S!NewInst] /\ UNCHANGED <<kind, cmd, scl, sres, calls>>
  BY DEF SessInv, S!SessionCreate
<1>1. gens \in Nat /\ g \in S!Gens /\ g \in Nat /\ g <= MaxGens /\ gens <= g
  BY <1>0, Numbers DEF SessTypes
<1>2. /\ inst' \in [S!Gens -> Instance] /\ inst'[g] = S!NewInst
      /\ \A h \in S!Gens \ {g} : inst'[h] = inst[h]
  BY <1>0, <1>1, NewFact DEF SessTypes
<1>3. \A h \in Nat : h <= gens => h # g /\ h <= g
  BY <1>1
<1> HIDE DEF g
<1>4. SessTypes'
  BY <1>0, <1>1, <1>2 DEF SessTypes
<1>5. Callers'
  <2>1. ASSUME NEW d \in Clients  PROVE Called(d)'
    <3>1. Called(d) /\ scl[d].g \in Nat
      BY <1>0 DEF Callers, SessTypes, Caller
    <3> QED  BY <1>0, <1>3, <3>1 DEF Called
  <2> QED  BY <1>0, <2>1 DEF Callers
<1>6. Shells'
  <2>1. \A c \in Clients : InShell(c)'
    BY <1>0 DEF Shells, InShell
  <2>2. ASSUME NEW h \in S!Gens  PROVE Shell(h)'
    <3>1. CASE h = g
      <4>1. DOMAIN inst'[h].stdin = {}
        BY <1>2, <3>1, NewFact
      <4> QED  BY <1>2, <3>1, <4>1, NewFact DEF Shell
    <3>2. CASE h # g
      BY <1>0, <1>2, <3>2 DEF Shells, Shell
    <3> QED  BY <3>1, <3>2
  <2>3. ASSUME NEW k \in S!Calls  PROVE Logged(k)'
    <3>1. Logged(k) /\ cmd[k].g \in Nat
      BY <1>0 DEF Shells, SessTypes, Command
    <3>2. cmd[k].g # 0 => cmd[k].g \in S!Gens /\ cmd[k].g # g
      BY <1>0, <1>1, <1>3, <3>1, Numbers DEF Logged, SessTypes
    <3> QED  BY <1>0, <1>2, <1>3, <3>1, <3>2 DEF Logged
  <2> QED  BY <2>1, <2>2, <2>3 DEF Shells
<1>7. Kernels'
  BY <1>0 DEF Kernels
<1>8. ASSUME NEW k \in S!Calls  PROVE Told(k)'
  <2>1. Told(k) /\ cmd[k].g \in Nat
    BY <1>0 DEF SessTypes, Command
  <2> QED  BY <1>0, <1>2, <1>3, <2>1 DEF Told
<1> QED  BY <1>4, <1>5, <1>6, <1>7, <1>8 DEF SessInv

\* A command gets its directory and its entry.
LEMMA PrepareStep ==
    ASSUME SessInv, NEW c \in Clients, S!SessionPrepare(c)
    PROVE  SessInv'
<1> DEFINE k == scl[c].k
           g == scl[c].g
<1>0. /\ SessTypes /\ Callers /\ Shells /\ \A j \in S!Calls : Told(j)
      /\ kind = "shell" /\ scl[c].pc = "open"
      /\ scl' = [scl EXCEPT ![c].pc = "ready"]
      /\ inst' = [inst EXCEPT ![g].dir = TRUE]
      /\ cmd' = [cmd EXCEPT ![k].g = g]
      /\ UNCHANGED <<kind, reg, gens, sres, calls>>
  BY DEF SessInv, S!SessionPrepare
<1>1. /\ k \in S!Calls /\ k <= calls /\ g \in S!Gens /\ g <= gens /\ sres[k] = "none"
      /\ cmd[k].g = 0 /\ k \in Nat /\ g \in Nat /\ g # 0
  BY <1>0, Numbers DEF Callers, Called, Shells, InShell
<1>2. /\ scl' \in [Clients -> Caller] /\ scl'[c].pc = "ready"
      /\ \A d \in Clients : scl'[d].k = scl[d].k /\ scl'[d].g = scl[d].g
      /\ \A d \in Clients \ {c} : scl'[d] = scl[d]
  BY <1>0 DEF SessTypes, Caller
<1>3. /\ inst' \in [S!Gens -> Instance] /\ inst'[g].dir
      /\ \A h \in S!Gens : /\ inst'[h].alive = inst[h].alive /\ inst'[h].closed = inst[h].closed
                           /\ inst'[h].stdin = inst[h].stdin /\ inst'[h].run = inst[h].run
      /\ \A h \in S!Gens \ {g} : inst'[h] = inst[h]
  BY <1>0, <1>1, ZenonT(40) DEF SessTypes, Instance
<1>4. /\ cmd' \in [S!Calls -> Command] /\ cmd'[k].g = g
      /\ \A j \in S!Calls : cmd'[j].code = cmd[j].code /\ cmd'[j].log = cmd[j].log /\ cmd'[j].file = cmd[j].file
      /\ \A j \in S!Calls \ {k} : cmd'[j] = cmd[j]
  BY <1>0, <1>1 DEF SessTypes, Command
<1> HIDE DEF k, g
<1>5. SessTypes'
  BY <1>0, <1>2, <1>3, <1>4 DEF SessTypes
<1>6. Callers'
  <2>1. ASSUME NEW d \in Clients  PROVE Called(d)' /\ (scl'[d].pc # "idle" => scl[d].pc # "idle")
    BY <1>0, <1>2 DEF Callers, Called
  <2>2. \A j \in S!Calls : j > calls => j # k
    BY <1>0, <1>1, Numbers DEF SessTypes
  <2> QED  BY <1>0, <1>2, <1>4, <2>1, <2>2 DEF Callers
<1>7. Shells'
  <2>1. ASSUME NEW d \in Clients  PROVE InShell(d)'
    <3>1. CASE d = c
      BY <1>2, <1>4, <3>1 DEF InShell, k, g
    <3>2. CASE d # c
      <4>1. scl[d].pc # "idle" => scl[d].k # k /\ scl[d].k \in S!Calls
        BY <1>0, <3>2 DEF Callers, Called, k
      <4>2. scl[d].pc \in {"found", "open", "ready", "wait", "log"} => cmd'[scl[d].k] = cmd[scl[d].k]
        BY <1>4, <4>1
      <4>3. InShell(d) /\ scl'[d] = scl[d]
        BY <1>0, <1>2, <3>2 DEF Shells
      <4> QED  BY <4>2, <4>3 DEF InShell
    <3> QED  BY <3>1, <3>2
  <2>2. ASSUME NEW h \in S!Gens  PROVE Shell(h)'
    <3>1. /\ Shell(h) /\ inst[h].run \in S!Calls \cup {0} /\ h # 0
          /\ \A i \in DOMAIN inst[h].stdin : inst[h].stdin[i] \in S!Calls
      BY <1>0, Numbers, SMTT(20) DEF Shells, SessTypes, Instance
    <3>2. \A i \in DOMAIN inst[h].stdin : inst[h].stdin[i] # k
      BY <1>1, <3>1 DEF Shell
    <3>3. inst[h].run # k
      BY <1>1, <3>1, Numbers DEF Shell
    <3> QED  BY <1>3, <1>4, <3>1, <3>2, <3>3 DEF Shell
  <2>3. ASSUME NEW j \in S!Calls  PROVE Logged(j)'
    <3>1. Logged(j) /\ cmd[j].g \in Nat
      BY <1>0 DEF Shells, SessTypes, Command
    <3>2. cmd[j].g # 0 => cmd[j].g \in S!Gens
      BY <1>0, <3>1, Numbers DEF Logged, SessTypes
    <3>3. j = k => cmd[j].code = "none"
      BY <1>1, <3>1 DEF Logged
    <3> QED  BY <1>0, <1>1, <1>3, <1>4, <3>1, <3>2, <3>3 DEF Logged
  <2> QED  BY <2>1, <2>2, <2>3 DEF Shells
<1>8. Kernels'
  BY <1>0 DEF Kernels
<1>9. ASSUME NEW j \in S!Calls  PROVE Told(j)'
  BY <1>0, <1>1, <1>3, <1>4 DEF Told
<1> QED  BY <1>5, <1>6, <1>7, <1>8, <1>9 DEF SessInv

\* A command goes to the shell; the call waits, or is accepted.
LEMMA WriteStep ==
    ASSUME SessInv, NEW c \in Clients, S!SessionWrite(c)
    PROVE  SessInv'
<1> DEFINE k == scl[c].k
           g == scl[c].g
           i == inst[g]
           e == [i EXCEPT !.stdin = Append(@, k)]
<1>0. /\ SessTypes /\ Callers /\ Shells /\ \A j \in S!Calls : Told(j)
      /\ kind = "shell" /\ scl[c].pc = "ready" /\ UNCHANGED <<kind, reg, gens, cmd, calls>>
  BY DEF SessInv, S!SessionWrite
<1>1. /\ k \in S!Calls /\ g \in S!Gens /\ g <= gens /\ sres[k] = "none" /\ cmd[k].g = g
  BY <1>0 DEF Callers, Called, Shells, InShell
<1>2. CASE ~i.alive
  <2>1. S!Return(c, "error") /\ UNCHANGED inst
    BY <1>2 DEF S!SessionWrite
  <2> QED  BY <1>0, <2>1, CallEnds DEF Results
<1>3. CASE i.alive
  <2>0. i \in Instance /\ i.stdin \in Seq(S!Calls)
    BY <1>0, <1>1 DEF SessTypes, Instance
  <2>1. inst' = [inst EXCEPT ![g] = e]
    BY <1>3 DEF S!SessionWrite
  <2> DEFINE q == Append(i.stdin, k)
  <2>2. /\ q \in Seq(S!Calls) /\ \A n \in DOMAIN q : q[n] = k \/ (n \in DOMAIN i.stdin /\ q[n] = i.stdin[n])
    BY <1>1, <2>0
  <2>3. e = [i EXCEPT !.stdin = q]
    OBVIOUS
  <2> HIDE DEF i, q
  <2>4. /\ e \in Instance /\ e.stdin = q /\ e.alive = i.alive /\ e.closed = i.closed /\ e.dir = i.dir
        /\ e.run = i.run
    BY <2>0, <2>2, <2>3 DEF Instance
  <2> HIDE DEF e
  <2>5. /\ inst' \in [S!Gens -> Instance] /\ inst'[g] = e /\ inst[g] = i
        /\ \A h \in S!Gens \ {g} : inst'[h] = inst[h]
    BY <1>0, <1>1, <2>1, <2>4 DEF SessTypes, i
  <2>6. /\ scl' \in [Clients -> Caller] /\ scl'[c].pc \in {"idle", "wait"}
        /\ scl'[c].pc = "wait" => scl'[c].k = k /\ scl'[c].g = g
        /\ \A d \in Clients \ {c} : scl'[d] = scl[d]
        /\ sres' \in [S!Calls -> Results] /\ sres'[k] \in {"none", "accepted"}
        /\ scl'[c].pc = "wait" => sres'[k] = "none"
        /\ \A j \in S!Calls \ {k} : sres'[j] = sres[j]
    <3>1. CASE S!Return(c, "accepted")
      <4>1. /\ scl' \in [Clients -> Caller] /\ scl'[c].pc = "idle"
            /\ \A d \in Clients \ {c} : scl'[d] = scl[d]
        BY <1>0, <3>1 DEF SessTypes, S!Return, S!IdleClient, Caller
      <4>2. /\ sres' \in [S!Calls -> Results] /\ sres'[k] = "accepted"
            /\ \A j \in S!Calls \ {k} : sres'[j] = sres[j]
        BY <1>0, <1>1, <3>1 DEF SessTypes, S!Return, Results
      <4> QED  BY <4>1, <4>2
    <3>2. CASE scl' = [scl EXCEPT ![c].pc = "wait"] /\ UNCHANGED sres
      BY <1>0, <1>1, <3>2 DEF SessTypes, Caller
    <3> QED  BY <1>3, <3>1, <3>2 DEF S!SessionWrite, i
  <2> HIDE DEF k, g
  <2>7. SessTypes'
    BY <1>0, <2>5, <2>6 DEF SessTypes
  <2>8. Callers'
    <3>1. ASSUME NEW d \in Clients  PROVE Called(d)' /\ (scl'[d].pc # "idle" => scl[d].pc # "idle" /\ scl'[d].k = scl[d].k)
      <4>1. CASE d = c
        BY <1>0, <2>6, <4>1 DEF Callers, Called, k, g
      <4>2. CASE d # c
        <5>1. Called(d) /\ scl'[d] = scl[d] /\ (scl[d].pc # "idle" => scl[d].k # k)
          BY <1>0, <2>6, <4>2 DEF Callers, k
        <5> QED  BY <1>0, <2>6, <5>1 DEF Called
      <4> QED  BY <4>1, <4>2
    <3>2. k <= calls /\ k \in Nat /\ calls \in Nat
      BY <1>0, <1>1, Numbers DEF Callers, Called, SessTypes, k
    <3>3. \A j \in S!Calls : j > calls => j # k
      BY <3>2, Numbers
    <3> QED  BY <1>0, <2>6, <3>1, <3>3 DEF Callers
  <2>9. Shells'
    <3>1. ASSUME NEW d \in Clients  PROVE InShell(d)'
      <4>1. CASE d = c
        BY <1>0, <1>1, <2>6, <4>1 DEF InShell
      <4>2. CASE d # c
        BY <1>0, <2>6, <4>2 DEF Shells, InShell
      <4> QED  BY <4>1, <4>2
    <3>2. ASSUME NEW h \in S!Gens  PROVE Shell(h)'
      <4>1. CASE h = g
        BY <1>0, <1>1, <2>2, <2>4, <2>5, <4>1 DEF Shells, Shell
      <4>2. CASE h # g
        BY <1>0, <2>5, <4>2 DEF Shells, Shell
      <4> QED  BY <4>1, <4>2
    <3>3. \A h \in S!Gens : inst'[h].closed = inst[h].closed
      BY <2>4, <2>5
    <3>4. ASSUME NEW j \in S!Calls  PROVE Logged(j)'
      <4>1. Logged(j) /\ cmd[j].g \in Nat
        BY <1>0 DEF Shells, SessTypes, Command
      <4>2. cmd[j].g # 0 => cmd[j].g \in S!Gens
        BY <1>0, <4>1, Numbers DEF Logged, SessTypes
      <4> QED  BY <1>0, <3>3, <4>1, <4>2 DEF Logged
    <3> QED  BY <3>1, <3>2, <3>4 DEF Shells
  <2>10. Kernels'
    BY <1>0 DEF Kernels
  <2>11. \A j \in S!Calls : Told(j)'
    BY <1>0, <1>1, <2>4, <2>5, <2>6 DEF Told
  <2> QED  BY <2>7, <2>8, <2>9, <2>10, <2>11 DEF SessInv
<1> QED  BY <1>2, <1>3

\* A killed interpreter has nothing to do.
LEMMA KilledFact ==
    ASSUME NEW i \in Instance
    PROVE  /\ S!Killed(i) \in Instance /\ ~S!Killed(i).alive /\ S!Killed(i).stdin = << >>
           /\ S!Killed(i).run = 0 /\ S!Killed(i).closed = i.closed /\ S!Killed(i).out = i.out
           /\ S!Killed(i).lock = i.lock
<1>1. << >> \in Seq(S!Calls)
  OBVIOUS
<1>2. S!Killed(i) \in Instance
  BY <1>1 DEF S!Killed, Instance
<1> QED  BY <1>2 DEF S!Killed, Instance

\* A session goes with its files.
LEMMA EvictStep ==
    ASSUME SessInv, kind = "shell", reg # 0, S!Evict
    PROVE  SessInv'
<1> DEFINE i == inst[reg]
           e == [S!Killed(i) EXCEPT !.closed = TRUE, !.dir = FALSE]
<1>0. /\ SessTypes /\ Callers /\ Shells /\ \A j \in S!Calls : Told(j)
      /\ reg \in S!Gens /\ UNCHANGED <<kind, gens, scl, sres, calls>> /\ reg' = 0
      /\ inst' = [inst EXCEPT ![reg] = e]
      /\ cmd' = [k \in S!Calls |-> IF cmd[k].g = reg
                                   THEN [cmd[k] EXCEPT !.log = "none", !.file = "none"] ELSE cmd[k]]
  <2>1. SessTypes /\ reg \in S!Gens
    BY Numbers DEF SessInv, SessTypes
  <2> QED  BY <2>1 DEF SessInv, S!Evict, S!FilesGone
<1>1. i \in Instance
  BY <1>0 DEF SessTypes
<1>2. S!Killed(i) \in Instance /\ ~S!Killed(i).alive /\ S!Killed(i).stdin = << >> /\ S!Killed(i).run = 0
  <2> HIDE DEF i
  <2> QED  BY <1>1, KilledFact
<1>3. e \in Instance /\ ~e.alive /\ e.closed /\ e.stdin = << >> /\ e.run = 0
  <2> DEFINE q == S!Killed(i)
  <2> HIDE DEF q
  <2> QED  BY <1>2 DEF Instance, q
<1> HIDE DEF e
<1>4. /\ inst' \in [S!Gens -> Instance] /\ inst'[reg] = e
      /\ \A h \in S!Gens \ {reg} : inst'[h] = inst[h]
      /\ \A h \in S!Gens : inst[h].closed => inst'[h].closed
  BY <1>0, <1>3 DEF SessTypes
<1>5. /\ cmd' \in [S!Calls -> Command]
      /\ \A k \in S!Calls : /\ cmd'[k].g = cmd[k].g /\ cmd'[k].code = cmd[k].code
                            /\ cmd[k].g # reg => cmd'[k] = cmd[k]
                            /\ cmd[k].g = reg => cmd'[k].file = "none"
  <2>1. ASSUME NEW k \in S!Calls
        PROVE  /\ cmd'[k] \in Command /\ cmd'[k].g = cmd[k].g /\ cmd'[k].code = cmd[k].code
               /\ cmd[k].g # reg => cmd'[k] = cmd[k]
               /\ cmd[k].g = reg => cmd'[k].file = "none"
    <3>1. cmd[k] \in Command
      BY <1>0 DEF SessTypes
    <3>2. CASE cmd[k].g = reg
      <4>1. cmd'[k] = [cmd[k] EXCEPT !.log = "none", !.file = "none"]
        BY <1>0, <3>2
      <4> QED  BY <3>1, <3>2, <4>1 DEF Command
    <3>3. CASE cmd[k].g # reg
      BY <1>0, <3>1, <3>3
    <3> QED  BY <3>2, <3>3
  <2>2. cmd' = [k \in S!Calls |-> cmd'[k]]
    BY <1>0
  <2>3. cmd' \in [S!Calls -> Command]
    BY ONLY <2>1, <2>2
  <2>4. \A k \in S!Calls : /\ cmd'[k].g = cmd[k].g /\ cmd'[k].code = cmd[k].code
                           /\ cmd[k].g # reg => cmd'[k] = cmd[k]
                           /\ cmd[k].g = reg => cmd'[k].file = "none"
    BY ONLY <2>1
  <2> QED  BY <2>3, <2>4
<1>6. SessTypes'
  <2>1. gens' \in Nat /\ gens' <= MaxGens /\ reg' \in Nat /\ reg' <= gens' /\ calls' \in Nat
    <3>1. gens' = gens /\ reg' = 0 /\ calls' = calls
      BY <1>0
    <3>2. gens \in Nat /\ gens <= MaxGens /\ calls \in Nat
      BY <1>0 DEF SessTypes
    <3> QED  BY ONLY <3>1, <3>2
  <2>2. /\ kind' \in {"shell", "kernel"} /\ scl' \in [Clients -> Caller]
        /\ sres' \in [S!Calls -> Results]
    BY <1>0, ZenonT(40) DEF SessTypes
  <2> QED  BY ONLY <1>4, <1>5, <2>1, <2>2 DEF SessTypes
<1>7. Callers'
  BY <1>0, <1>5, ZenonT(40) DEF Callers, Called
<1>8. Shells'
  <2>1. ASSUME NEW d \in Clients  PROVE InShell(d)'
    <3>1. InShell(d) /\ (scl[d].pc # "idle" => scl[d].k \in S!Calls)
      BY <1>0 DEF Shells, Callers, Called
    <3> QED  BY <1>0, <1>5, <3>1, ZenonT(40) DEF InShell
  <2>2. ASSUME NEW h \in S!Gens  PROVE Shell(h)'
    <3>1. CASE h = reg
      <4>1. DOMAIN inst'[h].stdin = {}
        BY <1>3, <1>4, <3>1
      <4> QED  BY <1>3, <1>4, <3>1, <4>1 DEF Shell
    <3>2. CASE h # reg
      <4>1. Shell(h) /\ inst'[h] = inst[h] /\ inst[h] \in Instance
        BY <1>0, <1>4, <3>2 DEF Shells, SessTypes
      <4>2. /\ inst[h].run \in S!Calls \cup {0}
            /\ \A n \in DOMAIN inst[h].stdin : inst[h].stdin[n] \in S!Calls
        BY <4>1 DEF Instance
      <4> QED  BY <1>5, <4>1, <4>2 DEF Shell
    <3> QED  BY <3>1, <3>2
  <2>3. ASSUME NEW k \in S!Calls  PROVE Logged(k)'
    <3>1. Logged(k) /\ cmd[k].g \in Nat
      BY <1>0 DEF Shells, SessTypes, Command
    <3>2. gens \in Nat /\ gens <= MaxGens
      BY <1>0 DEF SessTypes
    <3>5. cmd[k].g # 0 => cmd[k].g \in S!Gens
      BY ONLY <3>1, <3>2, Numbers, SMTT(20) DEF Logged
    <3>3. CASE cmd[k].g = reg
      BY <1>0, <1>3, <1>4, <1>5, <3>1, <3>5, <3>3, ZenonT(40) DEF Logged
    <3>4. CASE cmd[k].g # reg
      BY <1>0, <1>4, <1>5, <3>1, <3>5, <3>4 DEF Logged
    <3> QED  BY <3>3, <3>4
  <2> QED  BY <2>1, <2>2, <2>3 DEF Shells
<1>9. Kernels'
  BY <1>0 DEF Kernels
<1>10. ASSUME NEW k \in S!Calls  PROVE Told(k)'
  <2>1. Told(k) /\ cmd'[k].g = cmd[k].g /\ cmd'[k].code = cmd[k].code
    BY <1>0, <1>5
  <2> QED  BY <1>0, <1>4, <2>1, ZenonT(40) DEF Told
<1> QED  BY <1>6, <1>7, <1>8, <1>9, <1>10 DEF SessInv

\* A request to a session.
LEMMA LookupStep ==
    ASSUME SessInv, NEW c \in Clients, NEW a \in BOOLEAN, S!SessionLookup(c, a)
    PROVE  SessInv'
<1>1. /\ scl[c].pc = "idle" /\ calls < MaxCommands /\ calls' = calls + 1
      /\ UNCHANGED <<kind, reg, gens, inst, cmd>>
  BY DEF S!SessionLookup
<1>2. CASE reg # 0
  <2>1. /\ scl' = [scl EXCEPT ![c] = [pc |-> "found", k |-> calls + 1, g |-> reg, async |-> a]]
        /\ UNCHANGED sres
    BY <1>2 DEF S!SessionLookup
  <2> QED  BY <1>1, <1>2, <2>1, CallBegins
<1>3. CASE reg = 0
  <2>1. sres' = [sres EXCEPT ![calls + 1] = "error"] /\ UNCHANGED scl
    BY <1>3 DEF S!SessionLookup
  <2> QED  BY <1>1, <2>1, CallRefused
<1> QED  BY <1>2, <1>3

\* It finds its session open, or closed.
LEMMA OpenStep ==
    ASSUME SessInv, NEW c \in Clients, S!SessionOpen(c)
    PROVE  SessInv'
<1>1. /\ kind = "shell" /\ scl[c].pc = "found"
      /\ UNCHANGED <<kind, reg, gens, inst, cmd, calls>>
  BY DEF S!SessionOpen
<1>2. CASE S!Return(c, "error")
  BY <1>1, <1>2, CallEnds DEF Results
<1>3. CASE scl' = [scl EXCEPT ![c].pc = "open"] /\ UNCHANGED sres
  BY <1>1, <1>3, CallMoves
<1> QED  BY <1>2, <1>3 DEF S!SessionOpen

\* What is known of a command whose call waits.
LEMMA Waiting ==
    ASSUME SessInv, kind = "shell", NEW c \in Clients, scl[c].pc \in {"wait", "log"}
    PROVE  /\ cmd[scl[c].k] \in Command
           /\ cmd[scl[c].k].file # "none" => cmd[scl[c].k].code # "none"
           /\ scl[c].pc = "log" => /\ cmd[scl[c].k].g \in S!Gens /\ cmd[scl[c].k].g <= gens
                                   /\ cmd[scl[c].k].log = "full" \/ inst[cmd[scl[c].k].g].closed
<1> DEFINE k == scl[c].k
<1>1. k \in S!Calls /\ InShell(c) /\ scl[c].g \in S!Gens /\ scl[c].g <= gens
  BY DEF SessInv, Callers, Called, Shells
<1>2. cmd[k] \in Command /\ Logged(k)
  BY <1>1 DEF SessInv, SessTypes, Shells
<1>3. cmd[k].g = scl[c].g /\ (scl[c].pc = "log" => cmd[k].code # "none")
  BY <1>1 DEF InShell
<1> HIDE DEF k
<1>4. /\ cmd[k].file # "none" => cmd[k].code # "none"
      /\ scl[c].pc = "log" => cmd[k].log = "full" \/ inst[cmd[k].g].closed
  BY ONLY <1>2, <1>3 DEF Logged
<1> QED  BY <1>1, <1>2, <1>3, <1>4 DEF k

\* A poll.
LEMMA WaitStep ==
    ASSUME SessInv, NEW c \in Clients, S!WaitForCommand(c)
    PROVE  SessInv'
<1>1. /\ kind = "shell" /\ scl[c].pc = "wait"
      /\ UNCHANGED <<kind, reg, gens, inst, cmd, calls>>
  BY DEF S!WaitForCommand
<1>2. CASE S!Return(c, "error")
  BY <1>1, <1>2, CallEnds DEF Results
<1>3. CASE cmd[scl[c].k].file = "code" /\ scl' = [scl EXCEPT ![c].pc = "log"] /\ UNCHANGED sres
  <2>1. cmd[scl[c].k].code # "none"
    BY <1>1, <1>3, Waiting
  <2> QED  BY <1>1, <1>3, <2>1, CallMoves
<1> QED  BY <1>2, <1>3 DEF S!WaitForCommand

\* The log is read.
LEMMA ReadStep ==
    ASSUME SessInv, NEW c \in Clients, S!ReadLog(c)
    PROVE  SessInv'
<1> DEFINE k == scl[c].k
<1>1. /\ kind = "shell" /\ scl[c].pc = "log"
      /\ UNCHANGED <<kind, reg, gens, inst, cmd, calls>>
  BY DEF S!ReadLog
<1>2. /\ cmd[k] \in Command /\ cmd[k].g \in S!Gens /\ cmd[k].g <= gens
      /\ cmd[k].log = "full" \/ inst[cmd[k].g].closed
  BY <1>1, Waiting
<1>3. cmd[k].code \in Results
  BY <1>2 DEF Command, Results
<1>4. CASE cmd[k].log = "full"
  <2>1. S!Return(c, cmd[k].code)
    BY <1>4, SMTT(20) DEF S!ReadLog
  <2> QED  BY <1>1, <1>3, <2>1, CallEnds
<1>5. CASE cmd[k].log # "full"
  <2>1. S!Return(c, "blank")
    BY <1>5 DEF S!ReadLog
  <2>2. "blank" \in Results
    BY DEF Results
  <2> QED  BY <1>1, <1>2, <1>5, <2>1, <2>2, CallEnds
<1> QED  BY <1>4, <1>5

\* The wait is over.
LEMMA DeadlineStep ==
    ASSUME SessInv, NEW c \in Clients, S!WaitDeadline(c)
    PROVE  SessInv'
BY CallEnds DEF S!WaitDeadline, Results

\* An instance that is killed.
LEMMA KillStep ==
    ASSUME SessInv, NEW g \in S!Gens, inst' = [inst EXCEPT ![g] = S!Killed(@)],
           kind = "kernel" \/ inst[g].run # 0,
           reg' \in {0, reg}, UNCHANGED <<kind, gens, cmd, scl, sres, calls>>
    PROVE  SessInv'
<1> DEFINE i == inst[g]
           e == S!Killed(i)
<1>0. SessTypes /\ (kind = "shell" => Shell(g)) /\ (kind = "kernel" => Kernel(g))
  BY DEF SessInv, Shells, Kernels
<1>1. i \in Instance /\ reg' \in Nat /\ reg' <= gens
  BY <1>0 DEF SessTypes
<1>2. inst' = [inst EXCEPT ![g] = e]
  OBVIOUS
<1> HIDE DEF i
<1>3. /\ e \in Instance /\ ~e.alive /\ e.stdin = << >> /\ e.run = 0 /\ e.closed = i.closed
      /\ e.out = i.out /\ e.lock = i.lock
  BY <1>1, KilledFact
<1>4. DOMAIN e.stdin = {}
  BY <1>3
<1> HIDE DEF e
<1>5. kind = "kernel" => /\ e.lock = i.lock
                         /\ e.lock = S!Nobody => e.run = 0 /\ e.stdin = << >> /\ e.out = << >>
                         /\ e.lock # S!Nobody => Holds(e, scl[e.lock].k)
  BY <1>0, <1>3 DEF Kernel, Holds, i
<1> QED  BY <1>1, <1>2, <1>3, <1>4, <1>5, InstStep DEF i

\* An interpreter takes a command.
LEMMA TakesStep ==
    ASSUME SessInv, NEW g \in S!Gens, S!Takes(g)
    PROVE  SessInv'
<1> DEFINE i == inst[g]
           k == Head(i.stdin)
           q == Tail(i.stdin)
           e == [i EXCEPT !.run = k, !.stdin = q]
<1>0. /\ SessTypes /\ (kind = "shell" => Shell(g)) /\ (kind = "kernel" => Kernel(g))
      /\ i.alive /\ i.run = 0 /\ i.stdin # << >>
      /\ UNCHANGED <<kind, reg, gens, cmd, scl, sres, calls>>
  BY DEF SessInv, Shells, Kernels, S!Takes
<1>1. i \in Instance /\ i.stdin \in Seq(S!Calls) /\ reg' \in Nat /\ reg' <= gens
  BY <1>0 DEF SessTypes, Instance
<1>2. inst' = [inst EXCEPT ![g] = e]
  BY <1>0 DEF S!Takes, SessTypes, Instance
<1> HIDE DEF i
<1>3. /\ k \in S!Calls /\ q \in Seq(S!Calls) /\ k = i.stdin[1] /\ 1 \in DOMAIN i.stdin
      /\ \A n \in DOMAIN q : n + 1 \in DOMAIN i.stdin /\ q[n] = i.stdin[n + 1]
  BY <1>0, <1>1, HeadTailProperties
<1>4. \A j : i.stdin = <<j>> => k = j /\ q = << >>
  BY <1>1
<1> HIDE DEF k, q
<1>5. /\ e \in Instance /\ e.alive = i.alive /\ e.closed = i.closed /\ e.dir = i.dir
      /\ e.run = k /\ e.stdin = q /\ e.out = i.out /\ e.lock = i.lock
  BY <1>1, <1>3 DEF Instance
<1> HIDE DEF e
<1>6. kind = "shell" => /\ e.alive => e.dir /\ ~e.closed
                        /\ \A n \in DOMAIN e.stdin : cmd[e.stdin[n]].g = g
                        /\ e.run # 0 => cmd[e.run].g = g
  BY <1>0, <1>3, <1>5 DEF Shell, i
<1>7. kind = "kernel" => /\ e.lock = i.lock
                         /\ e.lock = S!Nobody => e.run = 0 /\ e.stdin = << >> /\ e.out = << >>
                         /\ e.lock # S!Nobody => Holds(e, scl[e.lock].k)
  <2> SUFFICES ASSUME kind = "kernel"
               PROVE  i.lock # S!Nobody /\ Holds(e, scl[i.lock].k)
    BY <1>5
  <2>1. i.lock # S!Nobody /\ Holds(i, scl[i.lock].k)
    BY <1>0 DEF Kernel, i
  <2>2. i.stdin = <<scl[i.lock].k>> /\ i.out = << >>
    BY <1>0, <2>1 DEF Holds
  <2> QED  BY <1>0, <1>4, <1>5, <2>1, <2>2 DEF Holds
<1> QED  BY <1>0, <1>1, <1>2, <1>5, <1>6, <1>7, InstStep DEF i

\* A shell's command goes on: it ends, then its exit file is written.
LEMMA CmdStep ==
    ASSUME SessInv, kind = "shell", NEW k \in S!Calls, NEW e \in Command,
           cmd' = [cmd EXCEPT ![k] = e], e.g = cmd[k].g, e.g # 0,
           cmd[k].code \in {"none", e.code}, e.code # "none",
           e.log = "full" \/ inst[e.g].closed,
           \/ UNCHANGED inst
           \/ \E g \in S!Gens : inst' = [inst EXCEPT ![g].run = 0],
           UNCHANGED <<kind, reg, gens, scl, sres, calls>>
    PROVE  SessInv'
<1>0. SessTypes /\ Callers /\ Shells /\ \A j \in S!Calls : Told(j)
  BY DEF SessInv
<1>1. /\ cmd' \in [S!Calls -> Command] /\ cmd'[k] = e
      /\ \A j \in S!Calls \ {k} : cmd'[j] = cmd[j]
      /\ \A j \in S!Calls : cmd'[j].g = cmd[j].g
      /\ \A j \in S!Calls : cmd[j].code # "none" => cmd'[j].code = cmd[j].code
  <2>1. /\ cmd' \in [S!Calls -> Command] /\ cmd'[k] = e
        /\ \A j \in S!Calls \ {k} : cmd'[j] = cmd[j]
    BY <1>0 DEF SessTypes
  <2> QED  BY <2>1
<1>2. /\ inst' \in [S!Gens -> Instance]
      /\ \A g \in S!Gens : /\ inst'[g].alive = inst[g].alive /\ inst'[g].closed = inst[g].closed
                           /\ inst'[g].dir = inst[g].dir /\ inst'[g].stdin = inst[g].stdin
                           /\ inst'[g].run \in {0, inst[g].run}
  <2>1. CASE UNCHANGED inst
    BY <1>0, <2>1 DEF SessTypes
  <2>2. ASSUME NEW g \in S!Gens, inst' = [inst EXCEPT ![g].run = 0]  PROVE  <1>2!1 /\ <1>2!2
    <3> DEFINE n == inst[g]
               r == [n EXCEPT !.run = 0]
    <3>1. n \in Instance /\ inst' = [inst EXCEPT ![g] = r]
      BY <1>0, <2>2 DEF SessTypes
    <3> HIDE DEF n
    <3>2. /\ r \in Instance /\ r.alive = n.alive /\ r.closed = n.closed /\ r.dir = n.dir
          /\ r.stdin = n.stdin /\ r.run = 0
      BY <3>1 DEF Instance
    <3> HIDE DEF r
    <3>3. inst' \in [S!Gens -> Instance] /\ inst'[g] = r /\ \A h \in S!Gens \ {g} : inst'[h] = inst[h]
      BY <1>0, <3>1, <3>2 DEF SessTypes
    <3> QED  BY <3>2, <3>3 DEF n
  <2> QED  BY <2>1, <2>2
<1>3. SessTypes'
  BY <1>0, <1>1, <1>2 DEF SessTypes
<1>4. Callers'
  BY <1>0, <1>1 DEF Callers, Called
<1>5. Shells'
  <2>1. ASSUME NEW d \in Clients  PROVE InShell(d)'
    <3>1. InShell(d) /\ (scl[d].pc # "idle" => scl[d].k \in S!Calls)
      BY <1>0 DEF Shells, Callers, Called
    <3> QED  BY <1>1, <3>1 DEF InShell
  <2>2. ASSUME NEW h \in S!Gens  PROVE Shell(h)'
    <3>1. Shell(h) /\ inst[h] \in Instance
      BY <1>0 DEF Shells, SessTypes
    <3>2. /\ inst[h].run \in S!Calls \cup {0}
          /\ \A n \in DOMAIN inst[h].stdin : inst[h].stdin[n] \in S!Calls
      BY <3>1 DEF Instance
    <3> QED  BY <1>1, <1>2, <3>1, <3>2 DEF Shell
  <2>3. ASSUME NEW j \in S!Calls  PROVE Logged(j)'
    <3>1. Logged(j) /\ cmd[j].g \in Nat
      BY <1>0 DEF Shells, SessTypes, Command
    <3>2. gens \in Nat /\ gens <= MaxGens
      BY <1>0 DEF SessTypes
    <3>3. cmd[j].g # 0 => cmd[j].g \in S!Gens
      BY ONLY <3>1, <3>2, Numbers DEF Logged
    <3> QED  BY <1>1, <1>2, <3>1, <3>3 DEF Logged
  <2> QED  BY <2>1, <2>2, <2>3 DEF Shells
<1>6. Kernels'
  BY DEF Kernels
<1>7. ASSUME NEW j \in S!Calls  PROVE Told(j)'
  <2>1. Told(j) /\ sres[j] \in Results /\ gens \in Nat
    BY <1>0 DEF SessTypes
  <2>2. CASE sres[j] \in {"none", "error", "accepted"}
    BY <2>2 DEF Told
  <2>3. CASE sres[j] = cmd[j].code /\ sres[j] # "none"
    BY <1>1, <2>3 DEF Told
  <2>4. CASE sres[j] = "blank" /\ cmd[j].g \in S!Gens /\ cmd[j].g <= gens /\ inst[cmd[j].g].closed
    BY <1>1, <1>2, <2>4, SMTT(20) DEF Told
  <2> QED  BY <2>1, <2>2, <2>3, <2>4 DEF Told
<1> QED  BY <1>3, <1>4, <1>5, <1>6, <1>7 DEF SessInv

\* The wrapped command runs; its session is there, and so is its directory.
LEMMA RunStep ==
    ASSUME SessInv, NEW g \in S!Gens, S!ShellStep(g)
    PROVE  SessInv'
<1> DEFINE k == inst[g].run
<1>0. /\ SessTypes /\ Shell(g) /\ (\A j \in S!Calls : Logged(j)) /\ kind = "shell"
      /\ inst[g].alive /\ k # 0 /\ UNCHANGED <<kind, reg, gens, scl, sres, calls>>
  BY DEF SessInv, Shells, S!ShellStep
<1>1. /\ k \in S!Calls /\ cmd[k].g = g /\ inst[g].dir /\ cmd[k] \in Command /\ Logged(k) /\ g # 0
  BY <1>0, Numbers DEF SessTypes, Instance, Shell
<1>2. ASSUME NEW x \in {"zero", "other"}, cmd[k].code = "none", UNCHANGED inst,
             cmd' = [cmd EXCEPT ![k].code = x, ![k].log = "full"]
      PROVE  SessInv'
  <2> DEFINE n == cmd[k]
             e == [n EXCEPT !.code = x, !.log = "full"]
  <2>1. cmd' = [cmd EXCEPT ![k] = e]
    BY <1>0, <1>1, <1>2 DEF SessTypes, Command
  <2> HIDE DEF n
  <2>2. e \in Command /\ e.g = n.g /\ e.code = x /\ e.log = "full"
    <3>1. n \in Command
      BY <1>1 DEF n
    <3> QED  BY <3>1 DEF Command
  <2> HIDE DEF e, k
  <2>3. e.g = cmd[k].g /\ e.g # 0 /\ e.code # "none" /\ cmd[k].code \in {"none", e.code}
    BY <1>1, <1>2, <2>2 DEF n
  <2> QED  BY <1>0, <1>1, <1>2, <2>1, <2>2, <2>3, CmdStep
<1>3. ASSUME NEW f \in {"empty", "code"}, cmd[k].code # "none",
             cmd' = [cmd EXCEPT ![k].file = f],
             UNCHANGED inst \/ inst' = [inst EXCEPT ![g].run = 0]
      PROVE  SessInv'
  <2> DEFINE n == cmd[k]
             e == [n EXCEPT !.file = f]
  <2>1. cmd' = [cmd EXCEPT ![k] = e]
    BY <1>0, <1>1, <1>3 DEF SessTypes, Command
  <2> HIDE DEF n
  <2>2. e \in Command /\ e.g = n.g /\ e.code = n.code /\ e.log = n.log
    <3>1. n \in Command
      BY <1>1 DEF n
    <3> QED  BY <3>1 DEF Command
  <2> HIDE DEF e
  <2>3. e.g = cmd[k].g /\ e.g # 0 /\ e.code # "none" /\ cmd[k].code \in {"none", e.code}
    BY <1>1, <1>3, <2>2 DEF n
  <2>4. e.log = "full" \/ inst[e.g].closed
    BY <1>1, <1>3, <2>2 DEF Logged, n
  <2> HIDE DEF k
  <2> QED  BY <1>0, <1>1, <1>3, <2>1, <2>2, <2>3, <2>4, CmdStep, ZenonT(40)
<1>4. \/ /\ cmd[k].code = "none" /\ UNCHANGED inst
         /\ \E x \in {"zero", "other"} : cmd' = [cmd EXCEPT ![k].code = x, ![k].log = "full"]
      \/ cmd[k].code # "none" /\ cmd' = [cmd EXCEPT ![k].file = "empty"] /\ UNCHANGED inst
      \/ /\ cmd[k].code # "none" /\ cmd' = [cmd EXCEPT ![k].file = "code"]
         /\ inst' = [inst EXCEPT ![g].run = 0]
  BY <1>1 DEF S!ShellStep
<1> QED  BY <1>2, <1>3, <1>4, SMTT(20)

\* A kernel for a request.
LEMMA GetStep ==
    ASSUME SessInv, NEW c \in Clients, S!KernelGet(c)
    PROVE  SessInv'
<1> DEFINE g == IF reg = 0 THEN gens + 1 ELSE reg
<1>1. /\ scl[c].pc = "idle" /\ calls < MaxCommands /\ calls' = calls + 1 /\ UNCHANGED <<kind, cmd>>
  BY DEF S!KernelGet
<1>2. CASE /\ g \in S!Gens /\ reg' = g
           /\ gens' = IF reg = 0 THEN g ELSE gens
           /\ inst' = IF reg = 0 THEN [inst EXCEPT ![g] = S!NewInst] ELSE inst
           /\ scl' = [scl EXCEPT ![c] = [pc |-> "found", k |-> calls + 1, g |-> g, async |-> FALSE]]
           /\ UNCHANGED sres
  <2>1. \/ g = reg /\ reg # 0 /\ UNCHANGED <<gens, inst>>
        \/ /\ g = gens + 1 /\ g \in S!Gens /\ gens' = g /\ reg = 0
           /\ inst' = [inst EXCEPT ![g] = S!NewInst]
    BY <1>2
  <2> HIDE DEF g
  <2>2. FALSE \in BOOLEAN
    OBVIOUS
  <2> QED  BY <1>1, <1>2, <2>1, <2>2, CallBegins
<1>3. CASE sres' = [sres EXCEPT ![calls + 1] = "error"] /\ UNCHANGED <<reg, gens, inst, scl>>
  BY <1>1, <1>3, CallRefused
<1> QED  BY <1>2, <1>3 DEF S!KernelGet

\* The kernel answers by a line.
LEMMA RepliesStep ==
    ASSUME SessInv, NEW g \in S!Gens, S!KernelReplies(g)
    PROVE  SessInv'
<1> DEFINE i == inst[g]
           k == i.run
           c == i.lock
           q == Append(i.out, k)
           e == [i EXCEPT !.run = 0, !.out = q]
<1>0. /\ SessTypes /\ Callers /\ Kernels /\ \A j \in S!Calls : Told(j)
      /\ kind = "kernel" /\ i.alive /\ k # 0 /\ UNCHANGED <<kind, reg, gens, scl, sres, calls>>
  BY DEF SessInv, S!KernelReplies
<1>1. i \in Instance /\ k \in S!Calls /\ i.out \in Seq(S!Calls) /\ c \in Clients \cup {S!Nobody}
  BY <1>0 DEF SessTypes, Instance
<1>2. /\ c \in Clients /\ c # S!Nobody /\ scl[c].pc = "read" /\ scl[c].g = g /\ scl[c].k = k
      /\ i.stdin = << >> /\ i.out = << >> /\ sres[k] = "none"
  <2>1. c # S!Nobody /\ scl[c].pc = "read" /\ scl[c].g = g /\ Holds(i, scl[c].k)
    BY <1>0 DEF Kernels, Kernel
  <2>2. i.stdin = << >> /\ i.out = << >> /\ scl[c].k = k
    BY <1>0, <2>1 DEF Holds
  <2> QED  BY <1>0, <1>1, <2>1, <2>2 DEF Callers, Called
<1>3. inst' = [inst EXCEPT ![g] = e]
  BY <1>0 DEF S!KernelReplies, SessTypes, Instance
<1>4. q = <<k>> /\ q \in Seq(S!Calls)
  BY <1>1, <1>2
<1> HIDE DEF q, k
<1>5. e \in Instance /\ e.run = 0 /\ e.out = q /\ e.stdin = << >> /\ e.lock = c
  <2>1. i \in Instance /\ i.stdin = << >>
    BY <1>1, <1>2
  <2> HIDE DEF i
  <2> QED  BY <1>4, <2>1 DEF Instance
<1> HIDE DEF e
<1>6. /\ inst' \in [S!Gens -> Instance] /\ inst'[g] = e
      /\ \A h \in S!Gens \ {g} : inst'[h] = inst[h]
      /\ \A h \in S!Gens : inst'[h].lock = inst[h].lock
  BY <1>0, <1>3, <1>5 DEF SessTypes
<1>7. /\ cmd' \in [S!Calls -> Command]
      /\ \A j \in S!Calls \ {k} : cmd'[j] = cmd[j]
      /\ \A j \in S!Calls : cmd'[j].g = cmd[j].g
  <2>1. PICK x \in {"zero", "other"} : cmd' = [cmd EXCEPT ![k].code = x]
    BY DEF S!KernelReplies, k
  <2> QED  BY <1>0, <1>1, <2>1, ZenonT(40) DEF SessTypes, Command
<1>8. SessTypes'
  BY <1>0, <1>6, <1>7 DEF SessTypes
<1>9. Callers'
  BY <1>0, <1>7 DEF Callers, Called
<1>10. Kernels'
  <2>1. ASSUME NEW d \in Clients  PROVE InKernel(d)'
    BY <1>0, <1>6 DEF Kernels, InKernel, Callers, Called
  <2>2. ASSUME NEW h \in S!Gens  PROVE Kernel(h)'
    <3>1. CASE h = g
      <4>1. Holds(inst'[g], k)
        BY <1>4, <1>5, <1>6 DEF Holds
      <4> QED  BY <1>0, <1>2, <1>5, <1>6, <3>1, <4>1 DEF Kernel, Holds
    <3>2. CASE h # g
      BY <1>0, <1>6, <3>2 DEF Kernels, Kernel
    <3> QED  BY <3>1, <3>2
  <2> QED  BY <2>1, <2>2 DEF Kernels
<1>11. Shells'
  BY <1>0 DEF Shells
<1>12. ASSUME NEW j \in S!Calls  PROVE Told(j)'
  <2>1. CASE j = k
    BY <1>0, <1>2, <2>1 DEF Told
  <2>2. CASE j # k
    <3>1. Told(j) /\ cmd'[j] = cmd[j] /\ sres' = sres /\ gens' = gens
      BY <1>0, <1>7, <2>2
    <3>2. cmd[j].g \in S!Gens => inst'[cmd[j].g].closed = inst[cmd[j].g].closed
      <4>1. e.closed = i.closed
        <5>1. i \in Instance
          BY <1>1
        <5> HIDE DEF i
        <5> QED  BY <5>1 DEF e, Instance
      <4> QED  BY <1>6, <4>1
    <3> QED  BY <3>1, <3>2 DEF Told
  <2> QED  BY <2>1, <2>2
<1> QED  BY <1>8, <1>9, <1>10, <1>11, <1>12 DEF SessInv

\* A result stays that of its command when commands stay and no instance that
\* was closed is open again.
LEMMA OldTold ==
    ASSUME NEW j \in S!Calls, Told(j), cmd' = cmd, gens' = gens, sres'[j] = sres[j],
           \A h \in S!Gens : inst'[h].closed = inst[h].closed
    PROVE  Told(j)'
BY DEF Told, S!Gens

\* With the mutex the request goes to the kernel.
LEMMA SubmitStep ==
    ASSUME SessInv, NEW c \in Clients, S!KernelWrite(c)
    PROVE  SessInv'
<1> DEFINE g == scl[c].g
           k == scl[c].k
           i == inst[g]
           q == Append(i.stdin, k)
           e == [i EXCEPT !.stdin = q, !.lock = c]
<1>0. /\ SessTypes /\ Callers /\ Kernels /\ \A j \in S!Calls : Told(j)
      /\ kind = "kernel" /\ scl[c].pc = "found" /\ i.lock = S!Nobody
      /\ UNCHANGED <<kind, reg, gens, cmd, calls>>
  BY DEF SessInv, S!KernelWrite
<1>1. CASE ~i.alive
  <2>1. S!Return(c, "error") /\ UNCHANGED inst
    BY <1>1 DEF S!KernelWrite
  <2> QED  BY <1>0, <2>1, CallEnds DEF Results
<1>2. CASE i.alive
  <2>0. /\ scl' = [scl EXCEPT ![c].pc = "read"] /\ UNCHANGED sres
        /\ inst' = [inst EXCEPT ![g].stdin = Append(@, k), ![g].lock = c]
    BY <1>2 DEF S!KernelWrite
  <2>1. g \in S!Gens /\ k \in S!Calls /\ c # S!Nobody
    BY <1>0, ToolboxAssumption DEF Callers, Called, S!Nobody
  <2>2. /\ i \in Instance /\ i.stdin = << >> /\ i.run = 0 /\ i.out = << >>
    BY <1>0, <2>1 DEF SessTypes, Kernels, Kernel
  <2>3. inst' = [inst EXCEPT ![g] = e]
    BY <1>0, <2>0, <2>1 DEF SessTypes, Instance
  <2>4. q = <<k>> /\ q \in Seq(S!Calls)
    BY <2>1, <2>2
  <2> HIDE DEF q
  <2>5. /\ e \in Instance /\ e.stdin = q /\ e.lock = c /\ e.run = 0 /\ e.out = << >>
        /\ e.alive = i.alive /\ e.closed = i.closed
    <3>1. i \in Instance /\ i.run = 0 /\ i.out = << >>
      BY <2>2
    <3> HIDE DEF i
    <3> QED  BY <2>4, <3>1 DEF Instance
  <2> HIDE DEF e
  <2>6. /\ inst' \in [S!Gens -> Instance] /\ inst'[g] = e
        /\ \A h \in S!Gens \ {g} : inst'[h] = inst[h]
        /\ \A h \in S!Gens : inst'[h].closed = inst[h].closed
    BY <1>0, <2>1, <2>3, <2>5 DEF SessTypes
  <2>7. /\ scl' \in [Clients -> Caller] /\ scl'[c].pc = "read"
        /\ \A d \in Clients : scl'[d].k = scl[d].k /\ scl'[d].g = scl[d].g
        /\ \A d \in Clients \ {c} : scl'[d] = scl[d]
    BY <1>0, <2>0 DEF SessTypes, Caller
  <2>8. SessTypes'
    BY <1>0, <2>0, <2>6, <2>7 DEF SessTypes
  <2>9. Callers'
    <3>1. ASSUME NEW d \in Clients  PROVE Called(d)' /\ (scl'[d].pc # "idle" => scl[d].pc # "idle")
      BY <1>0, <2>0, <2>7 DEF Callers, Called
    <3> QED  BY <1>0, <2>0, <2>7, <3>1 DEF Callers
  <2>10. Kernels'
    <3>1. ASSUME NEW d \in Clients  PROVE InKernel(d)'
      <4>1. CASE d = c
        BY <2>5, <2>6, <2>7, <4>1 DEF InKernel
      <4>2. CASE d # c
        <5>1. InKernel(d) /\ scl'[d] = scl[d] /\ (scl[d].pc = "read" => scl[d].g \in S!Gens)
          BY <1>0, <2>7, <4>2 DEF Kernels, Callers, Called
        <5>2. scl[d].pc = "read" => scl[d].g # g
          <6> SUFFICES ASSUME scl[d].pc = "read", scl[d].g = g  PROVE FALSE
            OBVIOUS
          <6>1. S!Nobody = d
            BY <1>0, <5>1 DEF InKernel
          <6> QED  BY <6>1, ToolboxAssumption DEF S!Nobody
        <5> QED  BY <2>6, <5>1, <5>2 DEF InKernel
      <4> QED  BY <4>1, <4>2
    <3>2. ASSUME NEW h \in S!Gens  PROVE Kernel(h)'
      <4>1. CASE h = g
        <5>1. Holds(inst'[g], k)
          BY <1>2, <2>4, <2>5, <2>6 DEF Holds
        <5> QED  BY <2>1, <2>5, <2>6, <2>7, <4>1, <5>1 DEF Kernel, Holds
      <4>2. CASE h # g
        <5>1. Kernel(h) /\ inst'[h] = inst[h] /\ inst[h].lock \in Clients \cup {S!Nobody}
          BY <1>0, <2>6, <4>2 DEF Kernels, SessTypes, Instance
        <5>2. inst[h].lock # S!Nobody => inst[h].lock # c
          BY <1>0, <5>1 DEF Kernel
        <5>3. inst[h].lock # S!Nobody => scl'[inst[h].lock] = scl[inst[h].lock]
          BY <2>7, <5>1, <5>2
        <5> QED  BY <5>1, <5>3 DEF Kernel
      <4> QED  BY <4>1, <4>2, SMTT(20)
    <3> QED  BY <3>1, <3>2 DEF Kernels
  <2>11. Shells'
    <3>1. kind' = "kernel"
      BY <1>0
    <3> QED  BY <3>1 DEF Shells
  <2>12. \A j \in S!Calls : Told(j)'
    <3>1. /\ \A j \in S!Calls : Told(j)
          /\ cmd' = cmd /\ gens' = gens /\ sres' = sres
      BY <1>0, <2>0
    <3> QED  BY <2>6, <3>1, OldTold
  <2> QED  BY <2>8, <2>9, <2>10, <2>11, <2>12 DEF SessInv
<1> QED  BY <1>1, <1>2

\* The answer is read, and the mutex given back.
LEMMA AnswerStep ==
    ASSUME SessInv, NEW c \in Clients, S!KernelRead(c)
    PROVE  SessInv'
<1> DEFINE g == scl[c].g
           k == scl[c].k
           i == inst[g]
           q == IF i.out = << >> THEN i.out ELSE Tail(i.out)
           e == [i EXCEPT !.lock = S!Nobody, !.out = q]
<1>0. /\ SessTypes /\ Callers /\ Kernels /\ \A j \in S!Calls : Told(j)
      /\ kind = "kernel" /\ scl[c].pc = "read" /\ UNCHANGED <<kind, reg, gens, cmd, calls>>
      /\ inst' = [inst EXCEPT ![g].lock = S!Nobody,
                              ![g].out = IF @ = << >> THEN @ ELSE Tail(@)]
  BY DEF SessInv, S!KernelRead
<1>1. g \in S!Gens /\ k \in S!Calls /\ c # S!Nobody /\ i \in Instance
  BY <1>0, ToolboxAssumption DEF Callers, Called, SessTypes, S!Nobody
<1>2. i.lock = c /\ Holds(i, k)
  BY <1>0, <1>1 DEF Kernels, InKernel, Kernel
<1>3. inst' = [inst EXCEPT ![g] = e]
  BY <1>0, <1>1 DEF SessTypes, Instance
<1>4. /\ i.stdin = << >> /\ i.run = 0 /\ q = << >>
      /\ \E r \in {"error", cmd[k].code} : S!Return(c, r)
  <2>1. CASE i.out = << >> /\ ~i.alive /\ S!Return(c, "error")
    BY <1>2, <2>1 DEF Holds
  <2>2. CASE i.out # << >> /\ S!Return(c, IF Head(i.out) = k THEN cmd[k].code ELSE "torn")
    <3>1. i.stdin = << >> /\ i.run = 0 /\ i.out = <<k>>
      BY <1>2, <2>2 DEF Holds
    <3>2. Head(i.out) = k /\ q = << >>
      BY <1>1, <3>1
    <3> HIDE DEF i, k, q
    <3> QED  BY <2>2, <3>1, <3>2, SMTT(20)
  <2> QED  BY <2>1, <2>2 DEF S!KernelRead
<1>5. PICK r \in {"error", cmd[k].code} : S!Return(c, r)
  BY <1>4
<1> HIDE DEF q
<1>6. /\ e \in Instance /\ e.stdin = << >> /\ e.lock = S!Nobody /\ e.run = 0 /\ e.out = << >>
      /\ e.closed = i.closed
  <2>1. i \in Instance /\ i.run = 0 /\ i.stdin = << >> /\ q = << >>
    BY <1>1, <1>4
  <2>2. << >> \in Seq(S!Calls)
    OBVIOUS
  <2> HIDE DEF i
  <2> QED  BY <2>1, <2>2 DEF Instance
<1> HIDE DEF e
<1>7. /\ inst' \in [S!Gens -> Instance] /\ inst'[g] = e
      /\ \A h \in S!Gens \ {g} : inst'[h] = inst[h]
      /\ \A h \in S!Gens : inst'[h].closed = inst[h].closed
  <2>1. /\ inst' \in [S!Gens -> Instance] /\ inst'[g] = e
        /\ \A h \in S!Gens \ {g} : inst'[h] = inst[h]
    <3>1. inst \in [S!Gens -> Instance]
      BY <1>0 DEF SessTypes
    <3> HIDE DEF g
    <3> QED  BY <1>1, <1>3, <1>6, <3>1
  <2> QED  BY <1>6, <2>1
<1>8. r \in Results
  BY <1>0, <1>1, <1>5 DEF SessTypes, Command, Results
<1>9. /\ Callers'
      /\ scl' \in [Clients -> Caller] /\ scl'[c].pc = "idle"
      /\ \A d \in Clients \ {c} : scl'[d] = scl[d]
      /\ sres' \in [S!Calls -> Results] /\ sres'[k] = r
      /\ \A j \in S!Calls \ {k} : sres'[j] = sres[j]
  <2>1. scl[c].pc # "idle"
    BY <1>0, SMTT(20)
  <2> QED  BY <1>0, <1>5, <1>8, <2>1, Returned
<1>10. SessTypes'
  BY <1>0, <1>7, <1>9 DEF SessTypes
<1>11. Kernels'
  <2>1. ASSUME NEW d \in Clients  PROVE InKernel(d)'
    <3>1. CASE d = c
      BY <1>9, <3>1 DEF InKernel
    <3>2. CASE d # c
      <4>1. InKernel(d) /\ scl'[d] = scl[d] /\ (scl[d].pc = "read" => scl[d].g \in S!Gens)
        BY <1>0, <1>9, <3>2 DEF Kernels, Callers, Called
      <4>2. scl[d].pc = "read" => scl[d].g # g
        BY <1>2, <3>2, <4>1 DEF InKernel
      <4> QED  BY <1>7, <4>1, <4>2 DEF InKernel
    <3> QED  BY <3>1, <3>2
  <2>2. ASSUME NEW h \in S!Gens  PROVE Kernel(h)'
    <3>1. CASE h = g
      BY <1>6, <1>7, <3>1 DEF Kernel
    <3>2. CASE h # g
      <4>1. Kernel(h) /\ inst'[h] = inst[h] /\ inst[h].lock \in Clients \cup {S!Nobody}
        BY <1>0, <1>7, <3>2 DEF Kernels, SessTypes, Instance
      <4>2. inst[h].lock # S!Nobody => inst[h].lock # c
        BY <3>2, <4>1 DEF Kernel
      <4>3. inst[h].lock # S!Nobody => scl'[inst[h].lock] = scl[inst[h].lock]
        BY <1>9, <4>1, <4>2
      <4> QED  BY <4>1, <4>3, SMTT(20) DEF Kernel
    <3> QED  BY <3>1, <3>2
  <2> QED  BY <2>1, <2>2 DEF Kernels
<1>12. Shells'
  BY <1>0 DEF Shells
<1>13. ASSUME NEW j \in S!Calls  PROVE Told(j)'
  <2>1. CASE j = k
    BY <1>0, <1>5, <1>9, <2>1, SMTT(20) DEF Told
  <2>2. CASE j # k
    <3>1. Told(j) /\ cmd' = cmd /\ gens' = gens /\ sres'[j] = sres[j]
      BY <1>0, <1>9, <2>2
    <3> QED  BY <1>7, <3>1, OldTold
  <2> QED  BY <2>1, <2>2, SMTT(20)
<1> QED  BY <1>9, <1>10, <1>11, <1>12, <1>13 DEF SessInv

\* Every step of the interpreters.
LEMMA SessNext == SessInv /\ S!Next => SessInv'
<1> SUFFICES ASSUME SessInv, S!Next  PROVE SessInv'
  OBVIOUS
<1>1. CASE S!SessionCreate
  BY <1>1, CreateStep
<1>2. CASE S!SessionDelete
  BY <1>2, EvictStep DEF S!SessionDelete
<1>3. CASE S!SessionCleanup
  BY <1>3, EvictStep DEF S!SessionCleanup
<1>4. CASE S!KernelStop
  <2>1. reg \in S!Gens
    BY <1>4, Numbers DEF SessInv, SessTypes, S!KernelStop
  <2> QED  BY <1>4, <2>1, KillStep DEF S!KernelStop
<1>5. ASSUME NEW c \in Clients, NEW a \in BOOLEAN, S!SessionLookup(c, a)  PROVE SessInv'
  BY <1>5, LookupStep
<1>6. ASSUME NEW c \in Clients, S!KernelGet(c) \/ S!Server(c)  PROVE SessInv'
  BY <1>6, GetStep, OpenStep, PrepareStep, WriteStep, WaitStep, ReadStep, DeadlineStep,
     SubmitStep, AnswerStep DEF S!Server
<1>7. ASSUME NEW g \in S!Gens, S!InterpreterExits(g)  PROVE SessInv'
  BY <1>7, KillStep DEF S!InterpreterExits
<1>8. ASSUME NEW g \in S!Gens, S!Takes(g) \/ S!ShellStep(g) \/ S!KernelReplies(g)
      PROVE  SessInv'
  BY <1>8, TakesStep, RunStep, RepliesStep
<1> QED  BY <1>1, <1>2, <1>3, <1>4, <1>5, <1>6, <1>7, <1>8 DEF S!Next

\* While another part is looked at, nobody has a result.
SessionsInv ==
    /\ part = "sessions" => SessInv
    /\ part # "sessions" => sres = [k \in S!Calls |-> "none"]

\* Whatever the shells and kernels of a sandbox run and whoever waits for them,
\* the result of a call is that of its own command.
THEOREM ResultsKept == Spec => []ResultsTrue
<1>1. Init => SessionsInv
  BY SessInit DEF Init, SessionsInv, S!Init
<1>2. SessionsInv /\ [Next]_vars => SessionsInv'
  <2> SUFFICES ASSUME SessionsInv, [Next]_vars  PROVE SessionsInv'
    OBVIOUS
  <2>1. CASE part = "sessions" /\ S!Next /\ UNCHANGED part
    BY <2>1, SessNext DEF SessionsInv
  <2>2. CASE UNCHANGED <<part, svars>> /\ (part # "sessions" \/ UNCHANGED calls)
    <3>1. CASE part = "sessions"
      BY <2>2, <3>1 DEF SessionsInv, svars, SessInv, SessTypes, Callers, Called, Shells, InShell, Shell,
         Logged, Kernels, InKernel, Kernel, Told
    <3>2. CASE part # "sessions"
      BY <2>2, <3>2 DEF SessionsInv, svars
    <3> QED  BY <3>1, <3>2
  <2> QED  BY <2>1, <2>2 DEF Next, vars
<1>3. SessionsInv => ResultsTrue
  <2>1. SessInv => ResultsTrue
    BY DEF SessInv, Told, ResultsTrue, S!ResultsTrue
  <2>2. sres = [k \in S!Calls |-> "none"] => ResultsTrue
    BY DEF ResultsTrue, S!ResultsTrue
  <2> QED  BY <2>1, <2>2 DEF SessionsInv
<1> QED  BY <1>1, <1>2, <1>3, PTL DEF Spec

-----------------------------------------------------------------------------
(* Files *)

Request == [op : {"idle", "download"} \cup F!Writing, k : Nat, todo : Seq(F!Paths),
            fd : F!Nodes \cup {F!Free}, half : {0, 1}, seen : Seq(Nat)]
Answers == {"none", "ok", "error", "mixed", "whole", "torn"}
History == [clash : SUBSET F!Nodes, raced : SUBSET Clients, seen : Nat, drained : Nat]

FileTypes ==
    /\ node \in [F!Paths -> F!Nodes \cup {F!Free}] /\ dir \in BOOLEAN
    /\ data \in [F!Nodes -> [{1, 2} -> Nat]]
    /\ fcl \in [Clients -> Request] /\ fres \in [Clients -> Answers]
    /\ watch \in [on : BOOLEAN, buf : Nat] /\ hist \in History
    /\ calls \in Nat /\ faults \in Nat

\* A request has its number and something to do; e is what its client is doing.
Busy(e) ==
    /\ e.op = "idle" => e.fd = F!Free
    /\ e.op # "idle" => e.k # 0 /\ e.todo # << >>
    /\ e.fd = F!Free => e.half = 0
    /\ e.op = "download" => Len(e.seen) \in {0, 1} /\ (e.fd = F!Free => e.seen = << >>)

WritesTo(c, n) == fcl[c].fd = n /\ fcl[c].op \in F!Writing
Unwritten(n) == \A d \in Clients : ~WritesTo(d, n)

\* One request's content, all of it.
Whole(n) == data[n][1] = data[n][2] /\ data[n][1] # 0

\* Nobody else writes to what a request writes, and what it wrote is there.
Written(c) == \A n \in F!Nodes \ hist.clash : WritesTo(c, n) =>
    /\ \A d \in Clients : WritesTo(d, n) => d = c
    /\ fcl[c].half = 1 => data[n][1] = fcl[c].k

\* What has a name and no writer is whole.
Named(p) == node[p] # F!Free /\ node[p] \notin hist.clash /\ Unwritten(node[p]) => Whole(node[p])

\* What a download reads without a race is whole, and stays.
Reading(c) == fcl[c].op = "download" /\ fcl[c].fd # F!Free /\ c \notin hist.raced =>
    /\ Unwritten(fcl[c].fd) /\ fcl[c].fd \notin hist.clash /\ Whole(fcl[c].fd)
    /\ fcl[c].seen # << >> => fcl[c].seen[1] = data[fcl[c].fd][1]

Torn(c) == fres[c] = "torn" => c \in hist.raced

Watched == watch.on => hist.drained + watch.buf = hist.seen

FileInv ==
    /\ FileTypes /\ Watched
    /\ \A c \in Clients : Busy(fcl[c]) /\ Written(c) /\ Reading(c) /\ Torn(c)
    /\ \A p \in F!Paths : Named(p)

\* The cardinality that Files counts with.
LEMMA SameCount == \A T : F!Cardinality(T) = Cardinality(T)
BY DEF F!Cardinality, Cardinality

\* What is written is not what is downloaded; 0 is no node.
LEMMA Nodes ==
    /\ F!Nodes \subseteq Nat /\ F!Free = 0 /\ F!Free \notin F!Nodes /\ F!Old \in F!Nodes
    /\ "idle" \notin F!Writing /\ "download" \notin F!Writing
    /\ IsFiniteSet(F!Paths) /\ Cardinality(F!Paths) \in Nat
    /\ IsFiniteSet(Clients) /\ Cardinality(Clients) \in Nat /\ IsFiniteSet(Inside)
    /\ F!Nodes = 1 .. Cardinality(F!Paths) + Cardinality(Clients) + 1
<1>1. IsFiniteSet(F!Paths) /\ Cardinality(F!Paths) \in Nat
  BY ToolboxAssumption, FS_AddElement, FS_CardinalityType DEF F!Paths
<1>2. IsFiniteSet(Clients) /\ Cardinality(Clients) \in Nat /\ IsFiniteSet(Inside)
  BY ToolboxAssumption, FS_CardinalityType
<1>3. F!Nodes = 1 .. Cardinality(F!Paths) + Cardinality(Clients) + 1
  BY SameCount DEF F!Nodes
<1>4. "idle" \notin F!Writing /\ "download" \notin F!Writing
  BY DEF F!Writing
<1>5. F!Nodes \subseteq Nat /\ F!Free = 0 /\ F!Free \notin F!Nodes /\ F!Old \in F!Nodes
  BY <1>1, <1>2, <1>3 DEF F!Free, F!Old
<1> QED  BY <1>1, <1>2, <1>3, <1>4, <1>5

\* There is always a node that has no name and is not open.
LEMMA FreshFact == F!Fresh \in F!Nodes \ F!InUse
<1> DEFINE A == {node[p] : p \in F!Paths}
           B == {fcl[c].fd : c \in Clients}
           f == [p \in F!Paths |-> node[p]]
           g == [c \in Clients |-> fcl[c].fd]
<1>1. f \in Surjection(F!Paths, A) /\ g \in Surjection(Clients, B)
  BY DEF Surjection
<1>2. /\ IsFiniteSet(A) /\ Cardinality(A) <= Cardinality(F!Paths)
      /\ IsFiniteSet(B) /\ Cardinality(B) <= Cardinality(Clients)
  <2> HIDE DEF A, B, f, g
  <2> QED  BY <1>1, Nodes, FS_Surjection
<1>3. IsFiniteSet(F!InUse) /\ Cardinality(F!InUse) <= Cardinality(A) + Cardinality(B)
  <2>1. F!InUse = A \cup B
    BY DEF F!InUse
  <2> HIDE DEF A, B
  <2>2. /\ IsFiniteSet(A \cup B) /\ IsFiniteSet(A \cap B)
        /\ Cardinality(A \cup B) = Cardinality(A) + Cardinality(B) - Cardinality(A \cap B)
    BY <1>2, FS_Union, FS_Intersection
  <2>3. Cardinality(A) \in Nat /\ Cardinality(B) \in Nat /\ Cardinality(A \cap B) \in Nat
    BY <1>2, <2>2, FS_CardinalityType
  <2> QED  BY <2>1, <2>2, <2>3
<1>4. IsFiniteSet(F!Nodes) /\ Cardinality(F!Nodes) = Cardinality(F!Paths) + Cardinality(Clients) + 1
  <2>1. Cardinality(F!Paths) + Cardinality(Clients) + 1 \in Nat
    BY Nodes
  <2> QED  BY <2>1, Nodes, FS_Interval
<1>5. \E n \in F!Nodes : n \notin F!InUse
  <2> SUFFICES ASSUME F!Nodes \subseteq F!InUse  PROVE FALSE
    OBVIOUS
  <2>1. Cardinality(F!Nodes) <= Cardinality(F!InUse)
    BY <1>3, FS_Subset
  <2>2. /\ Cardinality(A) \in Nat /\ Cardinality(B) \in Nat /\ Cardinality(F!InUse) \in Nat
        /\ Cardinality(F!Paths) \in Nat /\ Cardinality(Clients) \in Nat
    BY <1>2, <1>3, Nodes, FS_CardinalityType
  <2> HIDE DEF A, B
  <2> QED  BY <1>2, <1>3, <1>4, <2>1, <2>2
<1> QED  BY <1>5 DEF F!Fresh

\* A client without a request.
LEMMA IdleFact ==
    /\ F!IdleClient \in Request /\ F!IdleClient.op = "idle" /\ F!IdleClient.fd = F!Free
    /\ F!IdleClient.half = 0 /\ F!IdleClient.seen = << >> /\ Busy(F!IdleClient)
<1>1. << >> \in Seq(F!Paths) /\ << >> \in Seq(Nat)
  OBVIOUS
<1>2. F!IdleClient \in Request
  BY <1>1, Nodes DEF F!IdleClient, Request
<1>3. /\ F!IdleClient.op = "idle" /\ F!IdleClient.fd = F!Free /\ F!IdleClient.half = 0
      /\ F!IdleClient.seen = << >>
  BY DEF F!IdleClient, F!Free
<1> QED  BY <1>2, <1>3 DEF Busy

\* The first states.
LEMMA FileInit == F!Init /\ calls = 0 => FileInv
<1> SUFFICES ASSUME F!Init, calls = 0  PROVE FileInv
  OBVIOUS
<1>0. /\ node = [p \in F!Paths |-> IF p = Outside THEN F!Old ELSE F!Free]
      /\ dir = TRUE
      /\ data = [n \in F!Nodes |-> IF n = F!Old THEN <<F!Before, F!Before>> ELSE <<0, 0>>]
      /\ fcl = [c \in Clients |-> F!IdleClient]
      /\ fres = [c \in Clients |-> "none"]
      /\ watch = [on |-> FALSE, buf |-> 0] /\ faults = 0
      /\ hist = [clash |-> {}, raced |-> {}, seen |-> 0, drained |-> 0]
  BY DEF F!Init
<1>1. F!IdleClient \in Request /\ F!IdleClient.op = "idle" /\ Busy(F!IdleClient)
  BY IdleFact
<1>2. /\ <<F!Before, F!Before>> \in [{1, 2} -> Nat] /\ F!Before # 0 /\ <<0, 0>> \in [{1, 2} -> Nat]
  BY ToolboxAssumption DEF F!Before
<1>3. FileTypes
  BY <1>0, <1>1, <1>2, Nodes DEF FileTypes, Answers, History
<1>4. ASSUME NEW c \in Clients  PROVE Busy(fcl[c]) /\ Written(c) /\ Reading(c) /\ Torn(c)
  BY <1>0, <1>1, Nodes DEF Written, WritesTo, Reading, Torn
<1>5. ASSUME NEW p \in F!Paths  PROVE Named(p)
  <2> SUFFICES ASSUME node[p] # F!Free  PROVE Whole(node[p])
    BY DEF Named
  <2>1. data[node[p]] = <<F!Before, F!Before>>
    BY <1>0, Nodes
  <2> QED  BY <1>2, <2>1 DEF Whole
<1> QED  BY <1>0, <1>3, <1>4, <1>5 DEF FileInv, Watched

\* Names change, or the watcher; contents and requests under way do not.
LEMMA NamesStep ==
    ASSUME FileInv, UNCHANGED <<data, fcl, faults>>, dir' \in BOOLEAN, calls' \in Nat,
           node' \in [F!Paths -> F!Nodes \cup {F!Free}],
           \A p \in F!Paths : node'[p] = F!Free \/ \E q \in F!Paths : node'[p] = node[q],
           fres' \in [Clients -> Answers], \A c \in Clients : fres'[c] = "torn" => fres[c] = "torn",
           watch' \in [on : BOOLEAN, buf : Nat], hist' \in History, Watched',
           hist'.clash = hist.clash, hist'.raced = hist.raced
    PROVE  FileInv'
<1>0. FileTypes /\ (\A p \in F!Paths : Named(p))
      /\ \A c \in Clients : Busy(fcl[c]) /\ Written(c) /\ Reading(c) /\ Torn(c)
  BY DEF FileInv
<1>1. FileTypes'
  BY <1>0 DEF FileTypes
<1>2. ASSUME NEW c \in Clients  PROVE (Busy(fcl[c]) /\ Written(c) /\ Reading(c) /\ Torn(c))'
  BY <1>0 DEF Busy, Written, WritesTo, Reading, Unwritten, Whole, Torn
<1>3. ASSUME NEW p \in F!Paths  PROVE Named(p)'
  BY <1>0 DEF Named, Unwritten, WritesTo, Whole
<1> QED  BY <1>1, <1>2, <1>3 DEF FileInv

\* A change that the watcher sees, or not.
LEMMA NotedFact ==
    ASSUME FileInv, NEW n \in Nat, F!Noted(n)
    PROVE  /\ watch' \in [on : BOOLEAN, buf : Nat] /\ hist' \in History /\ Watched'
           /\ hist'.clash = hist.clash /\ hist'.raced = hist.raced
<1>1. /\ watch \in [on : BOOLEAN, buf : Nat] /\ hist \in History /\ Watched
  BY DEF FileInv, FileTypes
<1>2. CASE watch.on /\ n > 0
  <2>1. watch' = [watch EXCEPT !.buf = @ + n] /\ hist' = [hist EXCEPT !.seen = @ + n]
    BY <1>2 DEF F!Noted
  <2>2. /\ watch' \in [on : BOOLEAN, buf : Nat] /\ watch'.buf = watch.buf + n
    BY <1>1, <2>1
  <2>3. /\ hist' \in History /\ hist'.clash = hist.clash /\ hist'.raced = hist.raced
        /\ hist'.seen = hist.seen + n /\ hist'.drained = hist.drained
    BY <1>1, <2>1 DEF History
  <2>4. hist.drained + (watch.buf + n) = hist.seen + n
    <3>1. hist.drained \in Nat /\ watch.buf \in Nat /\ hist.seen \in Nat
      BY <1>1 DEF History
    <3>2. hist.drained + watch.buf = hist.seen
      BY <1>1, <1>2 DEF Watched
    <3> QED  BY <3>1, <3>2
  <2> QED  BY <2>2, <2>3, <2>4 DEF Watched
<1>3. CASE ~(watch.on /\ n > 0)
  <2>1. UNCHANGED <<watch, hist>>
    BY <1>3 DEF F!Noted
  <2> QED  BY <1>1, <2>1 DEF Watched
<1> QED  BY <1>2, <1>3

\* A handler with one effect.
LEMMA AtomicFact ==
    ASSUME FileInv, NEW c \in Clients, NEW r \in {"ok", "error"}, F!Atomic(c, r)
    PROVE  /\ UNCHANGED <<fcl, faults>> /\ calls' \in Nat /\ fres' \in [Clients -> Answers]
           /\ \A d \in Clients : fres'[d] = "torn" => fres[d] = "torn"
BY DEF FileInv, FileTypes, F!Atomic, Answers

\* Requests that only look.
LEMMA LookStep ==
    ASSUME FileInv, NEW c \in Clients, NEW r \in {"ok", "error"}, F!Atomic(c, r),
           UNCHANGED <<node, dir, data, watch, hist>>
    PROVE  FileInv'
<1>1. /\ UNCHANGED <<fcl, faults>> /\ calls' \in Nat /\ fres' \in [Clients -> Answers]
      /\ \A d \in Clients : fres'[d] = "torn" => fres[d] = "torn"
  BY AtomicFact
<1>2. FileTypes /\ Watched'
  BY DEF FileInv, Watched
<1> QED  BY <1>1, <1>2, NamesStep DEF FileTypes

\* A name goes.
LEMMA DeleteStep ==
    ASSUME FileInv, NEW c \in Clients, NEW p \in F!Paths, F!DeleteFile(c, p)
    PROVE  FileInv'
<1>0. FileTypes
  BY DEF FileInv
<1>1. CASE /\ F!Atomic(c, "ok") /\ node' = [node EXCEPT ![p] = F!Free] /\ UNCHANGED <<dir, data>>
           /\ F!Noted(IF p \in Inside /\ F!Exists(p) THEN 1 ELSE 0)
  <2>1. /\ UNCHANGED <<fcl, faults>> /\ calls' \in Nat /\ fres' \in [Clients -> Answers]
        /\ \A d \in Clients : fres'[d] = "torn" => fres[d] = "torn"
    BY <1>1, AtomicFact
  <2>2. /\ watch' \in [on : BOOLEAN, buf : Nat] /\ hist' \in History /\ Watched'
        /\ hist'.clash = hist.clash /\ hist'.raced = hist.raced
    BY <1>1, NotedFact
  <2>3. /\ node' \in [F!Paths -> F!Nodes \cup {F!Free}] /\ dir' \in BOOLEAN
        /\ \A q \in F!Paths : node'[q] = F!Free \/ node'[q] = node[q]
    BY <1>0, <1>1 DEF FileTypes
  <2> QED  BY <1>1, <2>1, <2>2, <2>3, NamesStep
<1>2. CASE F!Atomic(c, "error") /\ UNCHANGED <<node, dir, data, watch, hist>>
  BY <1>2, LookStep
<1> QED  BY <1>1, <1>2 DEF F!DeleteFile

\* All names of the directory go.
LEMMA DeleteFolderStep ==
    ASSUME FileInv, NEW c \in Clients, F!DeleteFolder(c)
    PROVE  FileInv'
<1> DEFINE T == {p \in Inside : F!Exists(p)}
           n == F!Cardinality(T) + IF dir THEN 1 ELSE 0
<1>0. FileTypes
  BY DEF FileInv
<1>1. /\ F!Atomic(c, "ok") /\ dir' = FALSE /\ UNCHANGED data
      /\ node' = [p \in F!Paths |-> IF p \in Inside THEN F!Free ELSE node[p]] /\ F!Noted(n)
  BY DEF F!DeleteFolder
<1>2. n \in Nat
  <2>1. T \subseteq Inside
    OBVIOUS
  <2> HIDE DEF T
  <2>2. Cardinality(T) \in Nat
    BY <2>1, Nodes, FS_Subset, FS_CardinalityType
  <2> QED  BY <2>2, SameCount
<1> HIDE DEF n
<1>3. /\ UNCHANGED <<fcl, faults>> /\ calls' \in Nat /\ fres' \in [Clients -> Answers]
      /\ \A d \in Clients : fres'[d] = "torn" => fres[d] = "torn"
  BY <1>1, AtomicFact
<1>4. /\ watch' \in [on : BOOLEAN, buf : Nat] /\ hist' \in History /\ Watched'
      /\ hist'.clash = hist.clash /\ hist'.raced = hist.raced
  BY <1>1, <1>2, NotedFact
<1>5. /\ node' \in [F!Paths -> F!Nodes \cup {F!Free}] /\ dir' \in BOOLEAN
      /\ \A q \in F!Paths : node'[q] = F!Free \/ node'[q] = node[q]
  BY <1>0, <1>1 DEF FileTypes
<1> QED  BY <1>1, <1>3, <1>4, <1>5, NamesStep

\* A name goes to another.
LEMMA MoveStep ==
    ASSUME FileInv, NEW c \in Clients, NEW p \in F!Paths, NEW q \in F!Paths, F!MoveFile(c, p, q)
    PROVE  FileInv'
<1>0. FileTypes
  BY DEF FileInv
<1>1. CASE /\ F!Atomic(c, "ok") /\ node' = [node EXCEPT ![p] = F!Free, ![q] = node[p]]
           /\ F!Noted(F!Cardinality({p, q} \cap Inside)) /\ UNCHANGED <<dir, data>>
  <2> DEFINE T == {p, q} \cap Inside
  <2>1. F!Cardinality(T) \in Nat
    <3>1. T \subseteq Inside
      OBVIOUS
    <3> HIDE DEF T
    <3>2. Cardinality(T) \in Nat
      BY <3>1, Nodes, FS_Subset, FS_CardinalityType
    <3> QED  BY <3>2, SameCount
  <2>2. /\ UNCHANGED <<fcl, faults>> /\ calls' \in Nat /\ fres' \in [Clients -> Answers]
        /\ \A d \in Clients : fres'[d] = "torn" => fres[d] = "torn"
    BY <1>1, AtomicFact
  <2>3. /\ watch' \in [on : BOOLEAN, buf : Nat] /\ hist' \in History /\ Watched'
        /\ hist'.clash = hist.clash /\ hist'.raced = hist.raced
    BY <1>1, <2>1, NotedFact
  <2>4. /\ node' \in [F!Paths -> F!Nodes \cup {F!Free}] /\ dir' \in BOOLEAN
        /\ \A u \in F!Paths : node'[u] \in {F!Free, node[u], node[p]}
    BY <1>0, <1>1 DEF FileTypes
  <2>5. \A u \in F!Paths : node'[u] = F!Free \/ \E w \in F!Paths : node'[u] = node[w]
    BY <2>4
  <2> QED  BY <1>1, <2>2, <2>3, <2>4, <2>5, NamesStep
<1>2. CASE F!Atomic(c, "error") /\ UNCHANGED <<node, dir, data, watch, hist>>
  BY <1>2, LookStep
<1> QED  BY <1>1, <1>2 DEF F!MoveFile

\* The directory is there again.
LEMMA FolderStep ==
    ASSUME FileInv, NEW c \in Clients, F!CreateFolder(c)
    PROVE  FileInv'
<1>1. F!Atomic(c, "ok") /\ dir' = TRUE /\ UNCHANGED <<node, data, watch, hist>>
  BY DEF F!CreateFolder
<1>2. /\ UNCHANGED <<fcl, faults>> /\ calls' \in Nat /\ fres' \in [Clients -> Answers]
      /\ \A d \in Clients : fres'[d] = "torn" => fres[d] = "torn"
  BY <1>1, AtomicFact
<1>3. FileTypes /\ Watched'
  BY <1>1 DEF FileInv, Watched
<1> QED  BY <1>1, <1>2, <1>3, NamesStep DEF FileTypes

\* The watcher begins, hands its events out, and ends.
LEMMA WatchStep ==
    ASSUME FileInv, F!WatchCreate \/ F!WatchEvents \/ F!WatchRemove
    PROVE  FileInv'
<1>0. /\ FileTypes /\ Watched /\ watch \in [on : BOOLEAN, buf : Nat] /\ hist \in History
      /\ hist.drained \in Nat /\ hist.seen \in Nat /\ watch.buf \in Nat
  BY DEF FileInv, FileTypes, History
<1>1. /\ UNCHANGED <<node, dir, data, fcl, fres, faults>> /\ calls' \in Nat
  BY <1>0 DEF F!WatchCreate, F!WatchEvents, F!WatchRemove, FileTypes
<1>2. /\ watch' \in [on : BOOLEAN, buf : Nat] /\ hist' \in History /\ Watched'
      /\ hist'.clash = hist.clash /\ hist'.raced = hist.raced
  <2>1. CASE \E b \in BOOLEAN : /\ watch' = [on |-> b, buf |-> 0]
                                /\ hist' = [hist EXCEPT !.seen = 0, !.drained = 0]
    <3>1. /\ hist' \in History /\ hist'.seen = 0 /\ hist'.drained = 0
          /\ hist'.clash = hist.clash /\ hist'.raced = hist.raced
      <4>1. hist' = [hist EXCEPT !.seen = 0, !.drained = 0] /\ hist \in History
        BY <1>0, <2>1
      <4> QED  BY ONLY <4>1 DEF History
    <3> QED  BY <2>1, <3>1 DEF Watched
  <2>2. CASE F!WatchEvents
    <3>1. /\ watch.on /\ hist' = [hist EXCEPT !.drained = @ + watch.buf] /\ watch' = [watch EXCEPT !.buf = 0]
      BY <2>2 DEF F!WatchEvents
    <3>2. /\ hist' \in History /\ hist'.seen = hist.seen /\ hist'.drained = hist.drained + watch.buf
          /\ hist'.clash = hist.clash /\ hist'.raced = hist.raced
      BY <1>0, <3>1 DEF History
    <3>3. watch' \in [on : BOOLEAN, buf : Nat] /\ watch'.buf = 0 /\ hist.drained + watch.buf = hist.seen
      BY <1>0, <3>1 DEF Watched
    <3>4. (hist.drained + watch.buf) + 0 = hist.seen
      BY <1>0, <3>3
    <3> QED  BY <3>2, <3>3, <3>4 DEF Watched
  <2>3. F!WatchCreate => watch' = [on |-> TRUE, buf |-> 0] /\ hist' = [hist EXCEPT !.seen = 0, !.drained = 0]
    BY DEF F!WatchCreate
  <2>4. F!WatchRemove => watch' = [on |-> FALSE, buf |-> 0] /\ hist' = [hist EXCEPT !.seen = 0, !.drained = 0]
    BY DEF F!WatchRemove
  <2> QED  BY <2>1, <2>2, <2>3, <2>4
<1> QED  BY <1>0, <1>1, <1>2, NamesStep DEF FileTypes

\* A request that writes nothing, before and after, goes on or ends.
LEMMA ClientStep ==
    ASSUME FileInv, NEW c \in Clients, NEW e \in Request, NEW r \in Answers,
           fcl' = [fcl EXCEPT ![c] = e], fres' \in [Clients -> Answers], fres'[c] = r,
           \A d \in Clients \ {c} : fres'[d] = fres[d],
           UNCHANGED <<node, dir, data, watch, faults>>, calls' \in Nat,
           fcl[c].fd = F!Free \/ fcl[c].op = "download", e.fd = F!Free \/ e.op = "download",
           Busy(e),
           hist' \in History, hist'.clash = hist.clash, hist'.seen = hist.seen,
           hist'.drained = hist.drained,
           \A d \in Clients \ {c} : d \in hist.raced => d \in hist'.raced,
           e.op = "download" /\ e.fd # F!Free /\ c \notin hist'.raced =>
               /\ Unwritten(e.fd) /\ e.fd \notin hist.clash /\ Whole(e.fd)
               /\ e.seen # << >> => e.seen[1] = data[e.fd][1],
           r = "torn" => c \in hist'.raced
    PROVE  FileInv'
<1>0. FileTypes /\ Watched /\ (\A p \in F!Paths : Named(p))
      /\ \A d \in Clients : Busy(fcl[d]) /\ Written(d) /\ Reading(d) /\ Torn(d)
  BY DEF FileInv
<1>1. /\ fcl' \in [Clients -> Request] /\ fcl'[c] = e
      /\ \A d \in Clients \ {c} : fcl'[d] = fcl[d]
  BY <1>0 DEF FileTypes
<1>2. FileTypes' /\ Watched'
  BY <1>0, <1>1 DEF FileTypes, Watched
<1>3. \A n \in F!Nodes, d \in Clients : WritesTo(d, n)' <=> WritesTo(d, n)
  BY <1>1, Nodes DEF WritesTo
<1>4. \A n \in F!Nodes : Unwritten(n)' <=> Unwritten(n)
  BY <1>3 DEF Unwritten
<1>5. ASSUME NEW d \in Clients  PROVE Busy(fcl[d])' /\ Written(d)' /\ Reading(d)' /\ Torn(d)'
  <2>1. CASE d = c
    <3>1. Written(c)'
      <4>1. \A n \in F!Nodes : ~WritesTo(c, n)'
        BY <1>1, Nodes DEF WritesTo
      <4> QED  BY <4>1 DEF Written
    <3>2. Reading(c)'
      <4>1. e.fd # F!Free => e.fd \in F!Nodes
        BY DEF Request
      <4> QED  BY <1>1, <1>4, <4>1 DEF Reading, Whole
    <3> QED  BY <1>1, <2>1, <3>1, <3>2 DEF Busy, Torn
  <2>2. CASE d # c
    <3>1. fcl'[d] = fcl[d] /\ fres'[d] = fres[d] /\ fcl[d].fd \in F!Nodes \cup {F!Free}
      BY <1>0, <1>1, <2>2 DEF FileTypes, Request
    <3>2. Written(d)'
      <4>1. Written(d) /\ hist'.clash = hist.clash /\ data' = data
        BY <1>0
      <4> QED  BY <1>3, <3>1, <4>1 DEF Written
    <3>3. Reading(d)'
      <4>1. Reading(d) /\ (d \in hist.raced => d \in hist'.raced) /\ hist'.clash = hist.clash /\ data' = data
        BY <1>0, <2>2
      <4> QED  BY <1>4, <3>1, <4>1 DEF Reading, Whole
    <3> QED  BY <1>0, <2>2, <3>1, <3>2, <3>3 DEF Busy, Torn
  <2> QED  BY <2>1, <2>2
<1>6. ASSUME NEW p \in F!Paths  PROVE Named(p)'
  <2>1. node[p] \in F!Nodes \cup {F!Free} /\ Named(p) /\ hist'.clash = hist.clash
        /\ node' = node /\ data' = data
    BY <1>0 DEF FileTypes
  <2> QED  BY <1>4, <2>1 DEF Named, Whole
<1> QED  BY <1>2, <1>5, <1>6 DEF FileInv

\* A request begins.
LEMMA BeginStep ==
    ASSUME FileInv, NEW c \in Clients, NEW op \in {"download"} \cup F!Writing,
           NEW todo \in Seq(F!Paths), todo # << >>, F!Begin(c, op, todo),
           UNCHANGED <<node, dir, data, watch, faults>>
    PROVE  FileInv'
<1> DEFINE e == [F!IdleClient EXCEPT !.op = op, !.k = calls + 1, !.todo = todo]
<1>0. /\ FileTypes /\ calls \in Nat /\ hist \in History /\ fcl[c].fd = F!Free
      /\ fcl' = [fcl EXCEPT ![c] = e] /\ fres' = [fres EXCEPT ![c] = "none"]
      /\ hist' = [hist EXCEPT !.raced = @ \ {c}] /\ calls' = calls + 1
  BY DEF FileInv, FileTypes, F!Begin, F!IdleClient, F!Free
<1>1. /\ e \in Request /\ e.fd = F!Free /\ e.op = op /\ e.k # 0 /\ e.todo = todo /\ e.half = 0
      /\ e.seen = << >>
  <2>1. << >> \in Seq(Nat) /\ calls + 1 \in Nat /\ calls + 1 # 0
    BY <1>0
  <2> QED  BY <2>1, IdleFact DEF Request
<1> HIDE DEF e
<1>2. Busy(e)
  BY <1>1, Nodes DEF Busy
<1>3. /\ hist' \in History /\ hist'.clash = hist.clash /\ hist'.seen = hist.seen
      /\ hist'.drained = hist.drained /\ hist'.raced = hist.raced \ {c}
  BY <1>0 DEF History
<1>4. fres' \in [Clients -> Answers] /\ fres'[c] = "none" /\ \A d \in Clients \ {c} : fres'[d] = fres[d]
  BY <1>0 DEF FileTypes, Answers
<1>5. "none" \in Answers /\ calls' \in Nat
  BY <1>0 DEF Answers
<1> QED  BY <1>0, <1>1, <1>2, <1>3, <1>4, <1>5, ClientStep

\* A request for one file, or for all in the directory.
LEMMA BeginSteps ==
    ASSUME FileInv, NEW c \in Clients,
           \/ F!BulkUpload(c) \/ F!E2BWrite(c) \/ F!ReplaceInFiles(c)
           \/ \E p \in F!Paths : F!Download(c, p) \/ F!Upload(c, p)
    PROVE  FileInv'
<1>1. ASSUME NEW p \in F!Paths
      PROVE  <<p>> \in Seq(F!Paths) /\ <<p>> # << >>
  OBVIOUS
<1>2. ASSUME NEW s \in F!Orders
      PROVE  s \in Seq(F!Paths) /\ s # << >>
  <2>1. s \in [1 .. Cardinality(Inside) -> Inside] /\ \A p \in Inside : \E i \in DOMAIN s : s[i] = p
    BY SameCount DEF F!Orders
  <2>2. Cardinality(Inside) \in Nat /\ Inside \subseteq F!Paths
    BY Nodes, FS_CardinalityType DEF F!Paths
  <2>3. s \in Seq(F!Paths)
    BY <2>1, <2>2
  <2>4. PICK p \in Inside : TRUE
    BY ToolboxAssumption
  <2>5. DOMAIN s # {}
    BY <2>1, <2>4
  <2>6. DOMAIN << >> = {}
    OBVIOUS
  <2> QED  BY <2>3, <2>5, <2>6
<1>3. {"upload", "write", "replace"} = F!Writing
  BY DEF F!Writing
<1>4. ASSUME F!BulkUpload(c)  PROVE FileInv'
  BY <1>2, <1>3, <1>4, BeginStep DEF F!BulkUpload
<1>5. ASSUME F!E2BWrite(c)  PROVE FileInv'
  BY <1>2, <1>3, <1>5, BeginStep DEF F!E2BWrite
<1>6. ASSUME F!ReplaceInFiles(c)  PROVE FileInv'
  BY <1>1, <1>3, <1>6, BeginStep DEF F!ReplaceInFiles
<1>7. ASSUME NEW p \in F!Paths, F!Download(c, p) \/ F!Upload(c, p)  PROVE FileInv'
  BY <1>1, <1>3, <1>7, BeginStep DEF F!Download, F!Upload
<1> QED  BY <1>4, <1>5, <1>6, <1>7

\* A download opens its file, or does not find it.
LEMMA DownloadOpensStep ==
    ASSUME FileInv, NEW c \in Clients, F!DownloadOpens(c)
    PROVE  FileInv'
<1> DEFINE p == fcl[c].todo[1]
           n == node[p]
<1>0. /\ FileTypes /\ hist \in History /\ fcl[c] \in Request /\ Busy(fcl[c])
      /\ fcl[c].op = "download" /\ fcl[c].fd = F!Free
      /\ UNCHANGED <<node, dir, data, watch, calls, faults>> /\ calls \in Nat
  <2>1. FileTypes /\ Busy(fcl[c])
    BY DEF FileInv
  <2>2. hist \in History /\ fcl[c] \in Request /\ calls \in Nat
    BY <2>1 DEF FileTypes
  <2> QED  BY <2>1, <2>2 DEF F!DownloadOpens, F!Free
<1>1. p \in F!Paths /\ fcl[c].todo # << >> /\ fcl[c].seen = << >> /\ fcl[c].k # 0
      /\ fcl[c].half = 0
  BY <1>0 DEF Busy, Request
<1>2. CASE F!Exists(p)
  <2>0. /\ fcl' = [fcl EXCEPT ![c].fd = n] /\ UNCHANGED fres
        /\ hist' = [hist EXCEPT !.raced =
                      IF F!Writes(n) # {} \/ n \in hist.clash THEN @ \cup {c} ELSE @]
    BY <1>2 DEF F!DownloadOpens
  <2> DEFINE x == fcl[c]
             e == [x EXCEPT !.fd = n]
             R == IF F!Writes(n) # {} \/ n \in hist.clash THEN hist.raced \cup {c} ELSE hist.raced
  <2>1. n \in F!Nodes /\ n # F!Free /\ Named(p)
    BY <1>0, <1>1, <1>2, Nodes DEF FileTypes, F!Exists, FileInv
  <2>2. fcl' = [fcl EXCEPT ![c] = e]
    BY <2>0
  <2>3. hist' = [hist EXCEPT !.raced = R]
    BY <1>0, <2>0 DEF History
  <2>4. R \in SUBSET Clients /\ hist.raced \subseteq R
        /\ (c \notin R => Unwritten(n) /\ n \notin hist.clash)
    BY <1>0 DEF History, F!Writes, Unwritten, WritesTo
  <2> HIDE DEF n, R
  <2>5. /\ hist' \in History /\ hist'.clash = hist.clash /\ hist'.seen = hist.seen
        /\ hist'.drained = hist.drained /\ hist'.raced = R
    BY <1>0, <2>3, <2>4 DEF History
  <2>6. /\ e \in Request /\ e.fd = n /\ e.op = "download" /\ e.seen = << >> /\ e.k # 0
        /\ e.todo # << >> /\ e.half = 0
    <3>1. /\ x \in Request /\ x.op = "download" /\ x.seen = << >> /\ x.k # 0 /\ x.todo # << >>
          /\ x.half = 0
      BY <1>0, <1>1
    <3> HIDE DEF x
    <3> QED  BY <2>1, <3>1 DEF Request
  <2> HIDE DEF e
  <2>7. Busy(e)
    BY <2>1, <2>6 DEF Busy
  <2>8. c \notin hist'.raced => Unwritten(n) /\ n \notin hist.clash /\ Whole(n)
    BY <2>1, <2>4, <2>5 DEF Named, n
  <2>9. fres' \in [Clients -> Answers] /\ fres[c] \in Answers /\ (fres[c] = "torn" => c \in hist'.raced)
    BY <1>0, <2>0, <2>4, <2>5 DEF FileInv, FileTypes, Torn
  <2>10. \A d \in Clients \ {c} : d \in hist.raced => d \in hist'.raced
    BY <2>4, <2>5
  <2> QED  BY <1>0, <2>0, <2>2, <2>5, <2>6, <2>7, <2>8, <2>9, <2>10, ClientStep
<1>3. CASE ~F!Exists(p)
  <2>0. /\ fcl' = [fcl EXCEPT ![c] = F!IdleClient] /\ fres' = [fres EXCEPT ![c] = "error"]
        /\ UNCHANGED hist
    BY <1>3 DEF F!DownloadOpens
  <2>1. /\ fres' \in [Clients -> Answers] /\ fres'[c] = "error" /\ "error" \in Answers
        /\ \A d \in Clients \ {c} : fres'[d] = fres[d]
    BY <1>0, <2>0 DEF FileTypes, Answers
  <2> QED  BY <1>0, <2>0, <2>1, IdleFact, ClientStep
<1> QED  BY <1>2, <1>3

\* Two halves are read one by one.
LEMMA Halves ==
    ASSUME NEW s \in Seq(Nat), Len(s) \in {0, 1}
    PROVE  /\ Len(s) + 1 \in {1, 2}
           /\ \A v \in Nat :
                 /\ Append(s, v) \in Seq(Nat) /\ Append(s, v) # << >>
                 /\ Append(s, v)[Len(s) + 1] = v
                 /\ Len(Append(s, v)) < 2 => s = << >> /\ Len(s) = 0 /\ Len(Append(s, v)) = 1
                 /\ ~(Len(Append(s, v)) < 2) => Len(s) = 1 /\ s # << >> /\ Append(s, v)[1] = s[1]
<1>1. Len(s) + 1 \in {1, 2}
  OBVIOUS
<1>2. ASSUME NEW v \in Nat
      PROVE  /\ Append(s, v) \in Seq(Nat) /\ Append(s, v) # << >>
             /\ Append(s, v)[Len(s) + 1] = v /\ Len(Append(s, v)) = Len(s) + 1
             /\ Len(s) = 1 => Append(s, v)[1] = s[1]
  OBVIOUS
<1>3. CASE Len(s) = 0
  <2>1. s = << >>
    BY <1>3, EmptySeq
  <2> QED  BY <1>1, <1>2, <1>3, <2>1
<1>4. CASE Len(s) = 1
  BY <1>1, <1>2, <1>4
<1> QED  BY <1>3, <1>4

\* A download reads the next half.
LEMMA DownloadReadsStep ==
    ASSUME FileInv, NEW c \in Clients, F!DownloadReads(c)
    PROVE  FileInv'
<1> DEFINE x == fcl[c]
           n == x.fd
           v == data[n][Len(x.seen) + 1]
           q == Append(x.seen, v)
<1>0. /\ FileTypes /\ hist \in History /\ x \in Request /\ Busy(x) /\ Reading(c) /\ Torn(c)
      /\ x.op = "download" /\ n # F!Free
      /\ UNCHANGED <<node, dir, data, watch, calls, faults, hist>> /\ calls \in Nat
  <2>1. FileTypes /\ Busy(x) /\ Reading(c) /\ Torn(c)
    BY DEF FileInv
  <2>2. hist \in History /\ x \in Request /\ calls \in Nat
    BY <2>1 DEF FileTypes
  <2> QED  BY <2>1, <2>2 DEF F!DownloadReads, F!Free
<1>1. /\ n \in F!Nodes /\ x.seen \in Seq(Nat) /\ Len(x.seen) \in {0, 1} /\ x.k # 0 /\ x.todo # << >>
      /\ (Len(x.seen) = 0 => x.seen = << >>)
  <2>1. x \in Request /\ x.op = "download" /\ x.fd # F!Free /\ Busy(x)
    BY <1>0
  <2> HIDE DEF x
  <2>2. x.fd \in F!Nodes /\ x.seen \in Seq(Nat) /\ Len(x.seen) \in {0, 1} /\ x.k # 0 /\ x.todo # << >>
    BY <2>1 DEF Request, Busy
  <2>3. Len(x.seen) = 0 => x.seen = << >>
    BY <2>2, EmptySeq
  <2> QED  BY <2>2, <2>3
<1>2. /\ v \in Nat /\ q \in Seq(Nat) /\ q # << >> /\ q[Len(x.seen) + 1] = v
      /\ Len(q) < 2 => x.seen = << >> /\ Len(x.seen) = 0 /\ Len(q) = 1
      /\ ~(Len(q) < 2) => Len(x.seen) = 1 /\ x.seen # << >> /\ q[1] = x.seen[1]
  <2>1. v \in Nat
    <3>1. data[n] \in [{1, 2} -> Nat]
      BY <1>0, <1>1 DEF FileTypes
    <3> HIDE DEF x, n
    <3>2. Len(x.seen) + 1 \in {1, 2}
      BY <1>1, Halves
    <3> QED  BY <3>1, <3>2
  <2> HIDE DEF v, x
  <2> QED  BY <1>1, <2>1, Halves
<1>3. CASE Len(q) < 2
  <2> DEFINE e == [x EXCEPT !.seen = q]
  <2>0. fcl' = [fcl EXCEPT ![c] = e] /\ UNCHANGED fres
    BY <1>3 DEF F!DownloadReads
  <2>1. Len(x.seen) = 0 /\ Len(q) = 1 /\ q # << >> /\ q[1] = data[n][1]
    <3>1. Len(x.seen) = 0 /\ Len(q) = 1 /\ q # << >> /\ q[Len(x.seen) + 1] = v
      BY <1>2, <1>3
    <3>2. Len(x.seen) + 1 = 1
      BY <3>1
    <3> QED  BY <3>1, <3>2
  <2>2. /\ e \in Request /\ e.fd = n /\ e.op = "download" /\ e.seen = q /\ e.k # 0 /\ e.todo # << >>
        /\ e.half = x.half
    <3>1. x \in Request /\ x.fd = n
      BY <1>0
    <3> HIDE DEF x, n, q
    <3> QED  BY <1>0, <1>1, <1>2, <3>1 DEF Request
  <2> HIDE DEF e, q, n
  <2>3. Busy(e)
    BY <1>0, <1>1, <2>1, <2>2 DEF Busy
  <2>4. c \notin hist'.raced =>
            /\ Unwritten(e.fd) /\ e.fd \notin hist.clash /\ Whole(e.fd)
            /\ e.seen # << >> => e.seen[1] = data[e.fd][1]
    BY <1>0, <2>1, <2>2 DEF Reading, n
  <2>5. fres' \in [Clients -> Answers] /\ fres[c] \in Answers /\ (fres[c] = "torn" => c \in hist'.raced)
    BY <1>0, <2>0 DEF FileTypes, Torn
  <2> QED  BY <1>0, <2>0, <2>2, <2>3, <2>4, <2>5, ClientStep
<1>4. CASE ~(Len(q) < 2)
  <2> DEFINE r == IF q[1] = q[2] THEN "whole" ELSE "torn"
  <2>0. /\ fcl' = [fcl EXCEPT ![c] = F!IdleClient] /\ fres' = [fres EXCEPT ![c] = r]
    BY <1>4 DEF F!DownloadReads
  <2>1. r \in Answers
    BY DEF Answers
  <2>2. /\ fres' \in [Clients -> Answers] /\ fres'[c] = r
        /\ \A d \in Clients \ {c} : fres'[d] = fres[d]
    BY <1>0, <2>0, <2>1 DEF FileTypes
  <2>3. r = "torn" => c \in hist'.raced
    <3> SUFFICES ASSUME c \notin hist.raced  PROVE r = "whole"
      BY <1>0
    <3>1. Len(x.seen) = 1 /\ x.seen # << >> /\ q[1] = x.seen[1]
      BY <1>2, <1>4
    <3>2. q[1] = data[n][1] /\ q[2] = data[n][2] /\ Whole(n)
      <4>1. Len(x.seen) + 1 = 2
        BY <3>1
      <4>2. q[2] = data[n][2]
        BY <1>2, <4>1
      <4> QED  BY <1>0, <1>2, <3>1, <4>2 DEF Reading
    <3> HIDE DEF q, n
    <3> QED  BY <3>2 DEF Whole
  <2> HIDE DEF r
  <2> QED  BY <1>0, <2>0, <2>1, <2>2, <2>3, IdleFact, ClientStep
<1> QED  BY <1>3, <1>4

\* A request that writes to node n writes a half, or is through with it.
LEMMA WriterStep ==
    ASSUME FileInv, NEW c \in Clients, NEW n \in F!Nodes, fcl[c].fd = n, fcl[c].op \in F!Writing,
           NEW e \in Request, Busy(e), e.op # "download",
           e.fd = F!Free \/ (e.fd = n /\ e.op \in F!Writing),
           fcl' = [fcl EXCEPT ![c] = e], fres' \in [Clients -> Answers],
           \A d \in Clients : fres'[d] = "torn" => fres[d] = "torn",
           UNCHANGED <<node, dir, watch>>, calls' \in Nat, faults' \in Nat,
           data' \in [F!Nodes -> [{1, 2} -> Nat]], \A m \in F!Nodes \ {n} : data'[m] = data[m],
           hist' \in History, hist'.raced = hist.raced, hist'.seen = hist.seen,
           hist'.drained = hist.drained,
           hist.clash \subseteq hist'.clash, hist'.clash \subseteq hist.clash \cup {n},
           n \notin hist'.clash /\ e.fd = F!Free => data'[n][1] = data'[n][2] /\ data'[n][1] # 0,
           n \notin hist'.clash /\ e.fd = n /\ e.half = 1 => data'[n][1] = e.k
    PROVE  FileInv'
<1>0. FileTypes /\ Watched /\ (\A p \in F!Paths : Named(p))
      /\ \A d \in Clients : Busy(fcl[d]) /\ Written(d) /\ Reading(d) /\ Torn(d)
  BY DEF FileInv
<1>1. /\ fcl' \in [Clients -> Request] /\ fcl'[c] = e
      /\ \A d \in Clients \ {c} : fcl'[d] = fcl[d]
  BY <1>0 DEF FileTypes
<1>2. FileTypes' /\ Watched'
  BY <1>0, <1>1 DEF FileTypes, Watched
<1>3. /\ WritesTo(c, n) /\ \A m \in F!Nodes \ {n} : ~WritesTo(c, m) /\ ~WritesTo(c, m)'
      /\ \A m \in F!Nodes, d \in Clients \ {c} : WritesTo(d, m)' <=> WritesTo(d, m)
  BY <1>1, Nodes DEF WritesTo
<1>4. /\ ~Unwritten(n)
      /\ \A m \in F!Nodes \ {n} : Unwritten(m)' <=> Unwritten(m)
  BY <1>3 DEF Unwritten
<1>5. ASSUME NEW d \in Clients  PROVE Busy(fcl[d])' /\ Written(d)' /\ Reading(d)' /\ Torn(d)'
  <2>1. Torn(d)'
    BY <1>0 DEF Torn
  <2>2. CASE d = c
    <3>1. Written(c)'
      <4> SUFFICES ASSUME NEW m \in F!Nodes, m \notin hist'.clash, WritesTo(c, m)'
                   PROVE  /\ \A u \in Clients : WritesTo(u, m)' => u = c
                          /\ fcl'[c].half = 1 => data'[m][1] = fcl'[c].k
        BY DEF Written
      <4>1. m = n /\ e.fd = n /\ n \notin hist.clash
        BY <1>1, <1>3 DEF WritesTo
      <4>2. \A u \in Clients : WritesTo(u, n) => u = c
        BY <1>0, <1>3, <4>1 DEF Written
      <4> QED  BY <1>1, <1>3, <4>1, <4>2
    <3>2. Reading(c)'
      BY <1>1 DEF Reading
    <3> QED  BY <1>1, <2>1, <2>2, <3>1, <3>2
  <2>3. CASE d # c
    <3>1. fcl'[d] = fcl[d] /\ fcl[d].fd \in F!Nodes \cup {F!Free}
      BY <1>0, <1>1, <2>3 DEF FileTypes, Request
    <3>2. Written(d)'
      <4> SUFFICES ASSUME NEW m \in F!Nodes, m \notin hist'.clash, WritesTo(d, m)'
                   PROVE  /\ \A u \in Clients : WritesTo(u, m)' => u = d
                          /\ fcl[d].half = 1 => data'[m][1] = fcl[d].k
        BY <3>1 DEF Written
      <4>1. /\ m \notin hist.clash /\ WritesTo(d, m)
        BY <1>3, <2>3
      <4>2. /\ \A u \in Clients : WritesTo(u, m) => u = d
            /\ fcl[d].half = 1 => data[m][1] = fcl[d].k
        BY <1>0, <4>1 DEF Written
      <4>3. m # n
        BY <1>3, <2>3, <4>2
      <4> QED  BY <1>3, <4>2, <4>3
    <3>3. Reading(d)'
      <4> SUFFICES ASSUME fcl[d].op = "download", fcl[d].fd # F!Free, d \notin hist.raced
                   PROVE  /\ Unwritten(fcl[d].fd)' /\ fcl[d].fd \notin hist'.clash /\ Whole(fcl[d].fd)'
                          /\ fcl[d].seen # << >> => fcl[d].seen[1] = data'[fcl[d].fd][1]
        BY <3>1 DEF Reading, Unwritten, Whole
      <4>0. PICK m \in F!Nodes : m = fcl[d].fd
        BY <3>1
      <4>1. /\ Unwritten(m) /\ m \notin hist.clash /\ Whole(m)
            /\ fcl[d].seen # << >> => fcl[d].seen[1] = data[m][1]
        BY <1>0, <4>0 DEF Reading
      <4>2. m # n
        BY <1>4, <4>1
      <4>3. data'[m] = data[m] /\ Unwritten(m)' /\ m \notin hist'.clash
        BY <1>4, <4>1, <4>2
      <4>4. Whole(m)'
        BY <4>1, <4>3 DEF Whole
      <4> QED  BY <3>1, <4>0, <4>1, <4>3, <4>4
    <3> QED  BY <1>0, <2>1, <3>1, <3>2, <3>3 DEF Busy
  <2> QED  BY <2>2, <2>3
<1>6. ASSUME NEW p \in F!Paths  PROVE Named(p)'
  <2> SUFFICES ASSUME node[p] # F!Free, node[p] \notin hist'.clash, Unwritten(node[p])'
               PROVE  Whole(node[p])'
    BY DEF Named, Unwritten, Whole, WritesTo
  <2>1. node[p] \in F!Nodes /\ node[p] \notin hist.clash /\ Named(p)
    BY <1>0 DEF FileTypes
  <2>2. CASE node[p] = n
    <3>1. e.fd = F!Free
      BY <1>1, <2>2 DEF Unwritten, WritesTo
    <3> QED  BY <2>2, <3>1 DEF Whole
  <2>3. CASE node[p] # n
    <3>1. Whole(node[p])
      BY <1>4, <2>1, <2>3 DEF Named
    <3> QED  BY <2>1, <2>3, <3>1 DEF Whole
  <2> QED  BY <2>2, <2>3
<1> QED  BY <1>2, <1>5, <1>6 DEF FileInv

\* One file of a request is done.
LEMMA ItemFact ==
    ASSUME FileInv, NEW c \in Clients, NEW ok \in BOOLEAN, fcl[c].op \in F!Writing, F!Item(c, ok)
    PROVE  /\ \E e \in Request : /\ Busy(e) /\ e.op # "download" /\ e.fd = F!Free
                                 /\ fcl' = [fcl EXCEPT ![c] = e]
           /\ \E r \in Answers : /\ r # "torn" /\ fres' \in [Clients -> Answers] /\ fres'[c] = r
                                 /\ \A d \in Clients \ {c} : fres'[d] = fres[d]
<1> DEFINE x == fcl[c]
           r == IF ok THEN "ok" ELSE "error"
           r2 == IF fres[c] \in {"none", r} \/ x.op = "write" THEN r ELSE "mixed"
           y == [x EXCEPT !.todo = Tail(x.todo), !.fd = 0, !.half = 0, !.seen = << >>]
           e == IF Len(x.todo) = 1 \/ (~ok /\ x.op = "write") THEN F!IdleClient ELSE y
<1>0. FileTypes /\ x \in Request /\ Busy(x) /\ x.op \in F!Writing
  BY DEF FileInv, FileTypes
<1>1. fcl' = [fcl EXCEPT ![c] = e] /\ fres' = [fres EXCEPT ![c] = r2]
  BY DEF F!Item
<1>2. r2 \in Answers /\ r2 # "torn"
  BY DEF Answers
<1> HIDE DEF r2
<1>3. /\ fres' \in [Clients -> Answers] /\ fres'[c] = r2
      /\ \A d \in Clients \ {c} : fres'[d] = fres[d]
  BY <1>0, <1>1, <1>2 DEF FileTypes
<1>4. Busy(e) /\ e \in Request /\ e.op # "download" /\ e.fd = F!Free
  <2>1. CASE Len(x.todo) = 1 \/ (~ok /\ x.op = "write")
    BY <2>1, IdleFact
  <2>2. CASE ~(Len(x.todo) = 1 \/ (~ok /\ x.op = "write"))
    <3> DEFINE z == Tail(x.todo)
    <3>1. z \in Seq(F!Paths) /\ z # << >> /\ << >> \in Seq(Nat) /\ 0 = F!Free
      <4>1. x.todo \in Seq(F!Paths) /\ x.todo # << >> /\ Len(x.todo) # 1
        BY <1>0, <2>2, Nodes DEF Request, Busy
      <4> HIDE DEF x
      <4>2. z \in Seq(F!Paths) /\ Len(z) = Len(x.todo) - 1
        BY <4>1
      <4>3. Len(x.todo) # 0 /\ Len(x.todo) \in Nat /\ Len(<< >>) = 0
        BY <4>1, EmptySeq
      <4> HIDE DEF z
      <4>4. z # << >>
        <5>1. Len(z) # 0
          BY <4>1, <4>2, <4>3
        <5> QED  BY <4>3, <5>1
      <4>5. << >> \in Seq(Nat) /\ 0 = F!Free
        BY Nodes
      <4> QED  BY <4>2, <4>4, <4>5
    <3>2. x \in Request /\ x.op \in F!Writing /\ x.k # 0 /\ "idle" \notin F!Writing /\ "download" \notin F!Writing
      BY <1>0, Nodes DEF Busy
    <3>3. e = [x EXCEPT !.todo = z, !.fd = 0, !.half = 0, !.seen = << >>]
      BY <2>2
    <3> HIDE DEF x, z, e
    <3>4. e \in Request /\ e.op = x.op /\ e.k = x.k /\ e.todo = z /\ e.fd = F!Free /\ e.half = 0
      BY ONLY <3>1, <3>2, <3>3 DEF Request
    <3> QED  BY <3>1, <3>2, <3>4 DEF Busy
  <2> QED  BY <2>1, <2>2
<1> HIDE DEF e
<1> QED  BY <1>1, <1>2, <1>3, <1>4

\* A file is refused before it is opened.
LEMMA RefusedStep ==
    ASSUME FileInv, NEW c \in Clients, F!Refused(c)
    PROVE  FileInv'
<1>0. /\ fcl[c].op \in F!Writing /\ fcl[c].fd = F!Free /\ F!Item(c, FALSE)
      /\ UNCHANGED <<node, dir, data, watch, calls, faults, hist>>
  BY DEF F!Refused, F!Free
<1>1. PICK e \in Request : /\ Busy(e) /\ e.op # "download" /\ e.fd = F!Free
                           /\ fcl' = [fcl EXCEPT ![c] = e]
  BY <1>0, ItemFact
<1>2. PICK r \in Answers : /\ r # "torn" /\ fres' \in [Clients -> Answers] /\ fres'[c] = r
                           /\ \A d \in Clients \ {c} : fres'[d] = fres[d]
  BY <1>0, ItemFact
<1>3. calls \in Nat /\ hist \in History
  BY DEF FileInv, FileTypes
<1> QED  BY <1>0, <1>1, <1>2, <1>3, ClientStep

\* A replacement reads what it will replace.
LEMMA ReplaceReadsStep ==
    ASSUME FileInv, NEW c \in Clients, F!ReplaceReads(c)
    PROVE  FileInv'
<1> DEFINE x == fcl[c]
           s == data[node[x.todo[1]]]
           e == [x EXCEPT !.seen = s]
<1>0. /\ FileTypes /\ x \in Request /\ Busy(x) /\ calls \in Nat /\ hist \in History /\ Torn(c)
  BY DEF FileInv, FileTypes
<1>1. /\ x.op = "replace" /\ x.fd = F!Free /\ F!Exists(x.todo[1])
      /\ fcl' = [fcl EXCEPT ![c] = e]
      /\ UNCHANGED <<node, dir, data, fres, watch, calls, faults, hist>>
  BY DEF F!ReplaceReads, F!Free
<1>2. s \in Seq(Nat)
  <2>1. x.todo[1] \in F!Paths
    BY <1>0, <1>1, Nodes DEF Request, Busy
  <2>2. node[x.todo[1]] \in F!Nodes
    BY <1>0, <1>1, <2>1 DEF F!Exists, FileTypes
  <2>3. s \in [1 .. 2 -> Nat]
    <3>1. data[node[x.todo[1]]] \in [{1, 2} -> Nat] /\ {1, 2} = 1 .. 2
      BY <1>0, <2>2 DEF FileTypes
    <3> QED  BY <3>1
  <2> HIDE DEF s
  <2>4. 2 \in Nat
    OBVIOUS
  <2> QED  BY <2>3, <2>4, SeqDef
<1>3. e \in Request /\ e.op = x.op /\ e.k = x.k /\ e.todo = x.todo /\ e.fd = x.fd /\ e.half = x.half
  <2>1. x \in Request
    BY <1>0
  <2> HIDE DEF x, s
  <2> QED  BY <1>2, <2>1 DEF Request
<1> HIDE DEF e
<1>4. Busy(e) /\ e.op # "download"
  BY <1>0, <1>1, <1>3 DEF Busy
<1>5. fres' \in [Clients -> Answers] /\ fres[c] \in Answers /\ (fres[c] = "torn" => c \in hist'.raced)
  BY <1>0, <1>1 DEF FileTypes, Torn
<1> QED  BY <1>0, <1>1, <1>3, <1>4, <1>5, ClientStep

\* A file is opened for writing, and emptied or created.
LEMMA OpenTruncatedStep ==
    ASSUME FileInv, NEW c \in Clients, F!OpenTruncated(c)
    PROVE  FileInv'
<1> DEFINE x == fcl[c]
           p == x.todo[1]
           b == watch.on /\ p \in Inside
<1>0. /\ FileTypes /\ Watched /\ (\A q \in F!Paths : Named(q))
      /\ \A d \in Clients : Busy(fcl[d]) /\ Written(d) /\ Reading(d) /\ Torn(d)
  BY SMTT(20) DEF FileInv
<1>1. /\ x \in Request /\ Busy(x) /\ x.op \in F!Writing /\ x.fd = F!Free /\ x.op # "download"
      /\ hist \in History /\ UNCHANGED <<dir, fres, calls, faults>>
  BY <1>0, Nodes DEF FileTypes, F!OpenTruncated, F!Free
<1>2. PICK n \in F!Nodes :
         /\ node' = [node EXCEPT ![p] = n] /\ data' = [data EXCEPT ![n] = <<0, 0>>]
         /\ fcl' = [fcl EXCEPT ![c].fd = n]
         /\ watch' = [watch EXCEPT !.buf = IF b THEN @ + 1 ELSE @]
         /\ hist' = [hist EXCEPT
               !.clash = IF F!Writes(n) # {} THEN @ \cup {n} ELSE @ \ {n},
               !.raced = @ \cup F!Reads(n),
               !.seen  = IF b THEN @ + 1 ELSE @]
  <2> DEFINE m == IF F!Exists(p) THEN node[p] ELSE F!Fresh
  <2>1. m \in F!Nodes
    <3>1. p \in F!Paths
      BY <1>1, Nodes, SMTT(20) DEF Request, Busy
    <3>2. node[p] \in F!Nodes \cup {F!Free}
      BY <1>0, <3>1 DEF FileTypes
    <3> QED  BY <3>2, FreshFact DEF F!Exists
  <2>2. /\ node' = [node EXCEPT ![p] = m] /\ data' = [data EXCEPT ![m] = <<0, 0>>]
        /\ fcl' = [fcl EXCEPT ![c].fd = m]
        /\ watch' = [watch EXCEPT !.buf = IF b THEN @ + 1 ELSE @]
        /\ hist' = [hist EXCEPT
              !.clash = IF F!Writes(m) # {} THEN @ \cup {m} ELSE @ \ {m},
              !.raced = @ \cup F!Reads(m),
              !.seen  = IF b THEN @ + 1 ELSE @]
    BY DEF F!OpenTruncated
  <2> HIDE DEF m, p, x, b
  <2> QED  BY <2>1, <2>2
<1> HIDE DEF b
<1> DEFINE e == [x EXCEPT !.fd = n]
<1>3. /\ e \in Request /\ e.fd = n /\ e.op = x.op /\ e.k = x.k /\ e.half = 0 /\ e.todo = x.todo
  <2>1. x \in Request /\ x.half = 0
    BY <1>1 DEF Busy
  <2> HIDE DEF x
  <2> QED  BY <1>2, <2>1 DEF Request
<1>4. /\ fcl' \in [Clients -> Request] /\ fcl'[c] = e
      /\ \A d \in Clients \ {c} : fcl'[d] = fcl[d]
  <2>1. fcl' = [fcl EXCEPT ![c] = e] /\ fcl \in [Clients -> Request]
    BY <1>0, <1>2 DEF FileTypes
  <2> HIDE DEF e
  <2> QED  BY <1>3, <2>1
<1>5. /\ data' \in [F!Nodes -> [{1, 2} -> Nat]]
      /\ \A m \in F!Nodes \ {n} : data'[m] = data[m]
  <2>1. <<0, 0>> \in [{1, 2} -> Nat]
    OBVIOUS
  <2> QED  BY <1>0, <1>2, <2>1 DEF FileTypes
<1>6. /\ node' \in [F!Paths -> F!Nodes \cup {F!Free}]
      /\ \A q \in F!Paths : node'[q] \in {n, node[q]}
  BY <1>0, <1>2 DEF FileTypes
<1>7. /\ hist' \in History /\ watch' \in [on : BOOLEAN, buf : Nat] /\ Watched'
      /\ hist'.clash = (IF F!Writes(n) # {} THEN hist.clash \cup {n} ELSE hist.clash \ {n})
      /\ hist'.raced = hist.raced \cup F!Reads(n)
  <2> DEFINE C == IF F!Writes(n) # {} THEN hist.clash \cup {n} ELSE hist.clash \ {n}
             R == hist.raced \cup F!Reads(n)
             s == IF b THEN hist.seen + 1 ELSE hist.seen
             w == IF b THEN watch.buf + 1 ELSE watch.buf
  <2>1. /\ hist.clash \in SUBSET F!Nodes /\ hist.raced \in SUBSET Clients
        /\ hist.seen \in Nat /\ hist.drained \in Nat
        /\ watch \in [on : BOOLEAN, buf : Nat] /\ watch.buf \in Nat
    BY <1>0, <1>1 DEF History, FileTypes
  <2>2. C \in SUBSET F!Nodes /\ R \in SUBSET Clients /\ s \in Nat /\ w \in Nat
    BY <1>2, <2>1 DEF F!Reads
  <2>3. watch.on => hist.drained + w = s
    BY <1>0, <2>1 DEF Watched
  <2>4. hist' = [hist EXCEPT !.clash = C, !.raced = R, !.seen = s] /\ watch' = [watch EXCEPT !.buf = w]
    BY <1>2
  <2> HIDE DEF C, R, s, w
  <2>5. hist' \in History /\ hist'.clash = C /\ hist'.raced = R /\ hist'.seen = s
        /\ hist'.drained = hist.drained
    BY <1>1, <2>2, <2>4 DEF History
  <2>6. watch' \in [on : BOOLEAN, buf : Nat] /\ watch'.buf = w /\ watch'.on = watch.on
    BY <2>1, <2>2, <2>4
  <2> QED  BY <2>3, <2>5, <2>6 DEF Watched, C, R
<1> HIDE DEF e
<1>8. FileTypes'
  BY <1>0, <1>1, <1>4, <1>5, <1>6, <1>7 DEF FileTypes
<1>9. /\ WritesTo(c, n)' /\ (\A m \in F!Nodes : ~WritesTo(c, m))
      /\ \A m \in F!Nodes \ {n} : ~WritesTo(c, m)'
      /\ \A m \in F!Nodes, d \in Clients \ {c} : WritesTo(d, m)' <=> WritesTo(d, m)
  BY <1>1, <1>3, <1>4, Nodes DEF WritesTo
<1>10. /\ ~Unwritten(n)' /\ \A m \in F!Nodes \ {n} : Unwritten(m)' <=> Unwritten(m)
  BY <1>9 DEF Unwritten
<1>11. F!Writes(n) # {} <=> ~Unwritten(n)
  BY DEF F!Writes, Unwritten, WritesTo
<1>12. ASSUME NEW d \in Clients  PROVE Busy(fcl[d])' /\ Written(d)' /\ Reading(d)' /\ Torn(d)'
  <2>1. Torn(d)'
    BY <1>0, <1>1, <1>7 DEF Torn
  <2>2. CASE d = c
    <3>1. Busy(e)
      BY <1>1, <1>2, <1>3, Nodes DEF Busy
    <3>2. Written(c)'
      <4> SUFFICES ASSUME NEW m \in F!Nodes, m \notin hist'.clash, WritesTo(c, m)'
                   PROVE  \A u \in Clients : WritesTo(u, m)' => u = c
        BY <1>3, <1>4 DEF Written
      <4>1. m = n
        BY <1>9
      <4>2. Unwritten(n)
        BY <1>7, <1>11, <4>1
      <4> QED  BY <1>9, <4>1, <4>2 DEF Unwritten
    <3>3. Reading(c)'
      BY <1>1, <1>3, <1>4 DEF Reading
    <3> QED  BY <1>4, <2>1, <2>2, <3>1, <3>2, <3>3
  <2>3. CASE d # c
    <3>1. fcl'[d] = fcl[d] /\ fcl[d] \in Request
      BY <1>0, <1>4, <2>3 DEF FileTypes
    <3>2. Written(d)'
      <4> SUFFICES ASSUME NEW m \in F!Nodes, m \notin hist'.clash, WritesTo(d, m)'
                   PROVE  /\ \A u \in Clients : WritesTo(u, m)' => u = d
                          /\ fcl[d].half = 1 => data'[m][1] = fcl[d].k
        BY <3>1 DEF Written
      <4>1. WritesTo(d, m)
        BY <1>9, <2>3
      <4>2. m # n
        BY <1>7, <1>11, <4>1 DEF Unwritten
      <4>3. m \notin hist.clash
        BY <1>7, <4>2
      <4>4. /\ \A u \in Clients : WritesTo(u, m) => u = d
            /\ fcl[d].half = 1 => data[m][1] = fcl[d].k
        BY <1>0, <4>1, <4>3 DEF Written
      <4> QED  BY <1>5, <1>9, <4>2, <4>4
    <3>3. Reading(d)'
      <4> SUFFICES ASSUME fcl[d].op = "download", fcl[d].fd # F!Free, d \notin hist'.raced
                   PROVE  /\ Unwritten(fcl[d].fd)' /\ fcl[d].fd \notin hist'.clash /\ Whole(fcl[d].fd)'
                          /\ fcl[d].seen # << >> => fcl[d].seen[1] = data'[fcl[d].fd][1]
        BY <3>1 DEF Reading, Unwritten, Whole
      <4>0. PICK m \in F!Nodes : m = fcl[d].fd
        BY <3>1 DEF Request
      <4>1. /\ d \notin hist.raced /\ m # n
        BY <1>7, <4>0 DEF F!Reads
      <4>2. /\ Unwritten(m) /\ m \notin hist.clash /\ Whole(m)
            /\ fcl[d].seen # << >> => fcl[d].seen[1] = data[m][1]
        BY <1>0, <4>0, <4>1 DEF Reading
      <4>3. data'[m] = data[m] /\ Unwritten(m)' /\ m \notin hist'.clash
        BY <1>5, <1>7, <1>10, <4>1, <4>2
      <4>4. Whole(m)'
        BY <4>2, <4>3 DEF Whole
      <4> QED  BY <3>1, <4>0, <4>2, <4>3, <4>4
    <3> QED  BY <1>0, <2>1, <3>1, <3>2, <3>3 DEF Busy
  <2> QED  BY <2>2, <2>3
<1>13. ASSUME NEW q \in F!Paths  PROVE Named(q)'
  <2> SUFFICES ASSUME node'[q] # F!Free, node'[q] \notin hist'.clash, Unwritten(node[q])'
               PROVE  Whole(node[q])'
    BY DEF Named
  <2>0. PICK m \in F!Nodes : m = node'[q]
    BY <1>6
  <2>1. m # n /\ Unwritten(m)'
    BY <1>10, <2>0
  <2>2. m = node[q] /\ Unwritten(m) /\ m \notin hist.clash
    BY <1>6, <1>7, <1>10, <2>0, <2>1
  <2>3. Whole(m) /\ data'[m] = data[m]
    BY <1>0, <1>5, <2>0, <2>1, <2>2 DEF Named
  <2> QED  BY <2>0, <2>3 DEF Whole
<1> QED  BY <1>7, <1>8, <1>12, <1>13 DEF FileInv

\* A request writes half of a file.
LEMMA WriteHalfStep ==
    ASSUME FileInv, NEW c \in Clients, F!WriteHalf(c)
    PROVE  FileInv'
<1> DEFINE x == fcl[c]
           n == x.fd
           h == x.half + 1
<1>0. /\ FileTypes /\ x \in Request /\ Busy(x) /\ Written(c) /\ hist \in History
      /\ calls \in Nat /\ faults \in Nat /\ fres \in [Clients -> Answers]
      /\ data \in [F!Nodes -> [{1, 2} -> Nat]]
  BY DEF FileInv, FileTypes
<1>1. /\ x.op \in F!Writing /\ n # F!Free /\ data' = [data EXCEPT ![n][h] = x.k]
      /\ UNCHANGED <<node, dir, watch, calls, faults, hist>>
      /\ IF h = 1 THEN fcl' = [fcl EXCEPT ![c].half = 1] /\ UNCHANGED fres ELSE F!Item(c, TRUE)
  BY DEF F!WriteHalf, F!Free
<1>2. n \in F!Nodes /\ x.half \in {0, 1} /\ x.k \in Nat /\ x.k # 0 /\ x.op # "download"
  BY <1>0, <1>1, Nodes DEF Request, Busy
<1>3. /\ data' \in [F!Nodes -> [{1, 2} -> Nat]] /\ data'[n][h] = x.k
      /\ (\A m \in F!Nodes \ {n} : data'[m] = data[m])
      /\ \A g \in {1, 2} \ {h} : data'[n][g] = data[n][g]
  <2>1. n \in F!Nodes /\ h \in {1, 2} /\ x.k \in Nat /\ data' = [data EXCEPT ![n][h] = x.k]
    BY <1>1, <1>2
  <2> HIDE DEF x, n, h
  <2> QED  BY <1>0, <2>1
<1>4. WritesTo(c, n)
  BY <1>1, SMTT(20) DEF WritesTo
<1>5. CASE x.half = 0
  <2> DEFINE e == [x EXCEPT !.half = 1]
  <2>1. fcl' = [fcl EXCEPT ![c] = e] /\ UNCHANGED fres /\ h = 1
    BY <1>1, <1>5
  <2>2. /\ e \in Request /\ e.fd = n /\ e.op = x.op /\ e.k = x.k /\ e.half = 1 /\ e.todo = x.todo
    <3>1. x \in Request /\ n = x.fd
      BY <1>0
    <3> HIDE DEF x, n
    <3> QED  BY <3>1 DEF Request
  <2>3. Busy(e)
    <3> HIDE DEF e
    <3> QED  BY <1>0, <1>1, <1>2, <2>2, Nodes DEF Busy
  <2>4. data'[n][1] = e.k
    BY <1>3, <2>1, <2>2
  <2> HIDE DEF e, n, h
  <2> QED  BY <1>0, <1>1, <1>2, <1>3, <2>1, <2>2, <2>3, <2>4, WriterStep DEF n
<1>6. CASE x.half = 1
  <2>1. F!Item(c, TRUE) /\ h = 2
    <3>1. h = 2 /\ h # 1
      BY <1>6
    <3> HIDE DEF h
    <3> QED  BY <1>1, <3>1
  <2>2. PICK e \in Request : /\ Busy(e) /\ e.op # "download" /\ e.fd = F!Free
                             /\ fcl' = [fcl EXCEPT ![c] = e]
    BY <1>1, <2>1, ItemFact
  <2>3. PICK r \in Answers : /\ r # "torn" /\ fres' \in [Clients -> Answers] /\ fres'[c] = r
                             /\ \A d \in Clients \ {c} : fres'[d] = fres[d]
    BY <1>1, <2>1, ItemFact
  <2>4. \A d \in Clients : fres'[d] = "torn" => fres[d] = "torn"
    BY <2>3
  <2>5. n \notin hist.clash => data'[n][1] = data'[n][2] /\ data'[n][1] # 0
    <3> SUFFICES ASSUME n \notin hist.clash  PROVE data'[n][1] = x.k /\ data'[n][2] = x.k
      BY <1>2
    <3>1. data[n][1] = x.k
      BY <1>0, <1>2, <1>4, <1>6 DEF Written
    <3> QED  BY <1>3, <2>1, <3>1
  <2> HIDE DEF n, h
  <2> QED  BY <1>0, <1>1, <1>2, <1>3, <2>2, <2>3, <2>4, <2>5, WriterStep DEF n
<1> QED  BY <1>2, <1>5, <1>6

\* A request cannot write on.
LEMMA WriteFailsStep ==
    ASSUME FileInv, NEW c \in Clients, F!WriteFails(c)
    PROVE  FileInv'
<1> DEFINE n == fcl[c].fd
<1>0. /\ FileTypes /\ hist \in History /\ fcl[c] \in Request /\ data \in [F!Nodes -> [{1, 2} -> Nat]]
      /\ calls \in Nat /\ faults \in Nat
  BY DEF FileInv, FileTypes
<1>1. /\ fcl[c].op \in F!Writing /\ n # F!Free /\ faults' = faults + 1 /\ F!Item(c, FALSE)
      /\ hist' = [hist EXCEPT !.clash = @ \cup {n}] /\ UNCHANGED <<node, dir, data, watch, calls>>
  BY DEF F!WriteFails, F!Free
<1>2. n \in F!Nodes
  BY <1>0, <1>1 DEF Request
<1>3. PICK e \in Request : /\ Busy(e) /\ e.op # "download" /\ e.fd = F!Free
                           /\ fcl' = [fcl EXCEPT ![c] = e]
  BY <1>1, ItemFact
<1>4. PICK r \in Answers : /\ r # "torn" /\ fres' \in [Clients -> Answers] /\ fres'[c] = r
                           /\ \A d \in Clients \ {c} : fres'[d] = fres[d]
  BY <1>1, ItemFact
<1>5. \A d \in Clients : fres'[d] = "torn" => fres[d] = "torn"
  BY <1>4
<1>6. /\ hist' \in History /\ hist'.clash = hist.clash \cup {n} /\ hist'.raced = hist.raced
      /\ hist'.seen = hist.seen /\ hist'.drained = hist.drained
  <2> HIDE DEF n
  <2> QED  BY <1>0, <1>1, <1>2 DEF History
<1>7. faults' \in Nat /\ n \in hist'.clash /\ e.fd # n
  BY <1>0, <1>1, <1>3, <1>6
<1> HIDE DEF n
<1> QED  BY <1>0, <1>1, <1>2, <1>3, <1>4, <1>5, <1>6, <1>7, WriterStep DEF n

\* Every step of the file requests and of the watcher.
LEMMA FileNext == FileInv /\ F!Next => FileInv'
<1> SUFFICES ASSUME FileInv, F!Next  PROVE FileInv'
  OBVIOUS
<1>1. ASSUME NEW c \in Clients, NEW r \in {"ok", "error"}, F!Atomic(c, r),
             UNCHANGED <<node, dir, data, watch, hist>>
      PROVE  FileInv'
  BY <1>1, LookStep
<1>2. ASSUME NEW c \in Clients,
             \/ F!FilesHandler(c) \/ F!FilesInfoHandler(c)
             \/ F!FilesSearchHandler(c) \/ F!FilesFindHandler(c)
      PROVE  FileInv'
  <2>1. F!ListFiles \in {"ok", "error"} /\ F!SearchFiles \in {"ok", "error"}
        /\ F!FindInFiles \in {"ok", "error"} /\ \A p : F!FileInfo(p) \in {"ok", "error"}
    BY DEF F!ListFiles, F!SearchFiles, F!FindInFiles, F!FileInfo
  <2> QED  BY <1>1, <1>2, <2>1
           DEF F!FilesHandler, F!FilesInfoHandler, F!FilesSearchHandler, F!FilesFindHandler
<1>3. ASSUME NEW c \in Clients,
             \/ F!BulkUpload(c) \/ F!E2BWrite(c) \/ F!ReplaceInFiles(c)
             \/ \E p \in F!Paths : F!Download(c, p) \/ F!Upload(c, p)
      PROVE  FileInv'
  BY <1>3, BeginSteps
<1>4. ASSUME NEW c \in Clients, F!Server(c) \/ F!WriteFails(c)  PROVE FileInv'
  BY <1>4, DownloadOpensStep, DownloadReadsStep, RefusedStep, ReplaceReadsStep,
     OpenTruncatedStep, WriteHalfStep, WriteFailsStep DEF F!Server
<1>5. ASSUME NEW c \in Clients,
             \/ F!DeleteFolder(c) \/ F!CreateFolder(c)
             \/ \E p \in F!Paths : F!DeleteFile(c, p)
             \/ \E p, q \in F!Paths : F!MoveFile(c, p, q)
      PROVE  FileInv'
  BY <1>5, DeleteStep, DeleteFolderStep, MoveStep, FolderStep
<1> QED  BY <1>2, <1>3, <1>4, <1>5, WatchStep DEF F!Next

\* What is so of the nodes in use is so of the files.
LEMMA FileWhole == FileInv => FilesWhole
<1> SUFFICES ASSUME FileInv  PROVE FilesWhole
  OBVIOUS
<1>1. ASSUME NEW p \in F!Paths, F!Exists(p), F!Writes(node[p]) = {}, node[p] \notin hist.clash
      PROVE  data[node[p]][1] = data[node[p]][2] /\ data[node[p]][1] # 0
  <2>1. Named(p) /\ node[p] # F!Free /\ Unwritten(node[p])
    BY <1>1 DEF FileInv, F!Exists, F!Writes, Unwritten, WritesTo
  <2> QED  BY <1>1, <2>1 DEF Named, Whole
<1> QED  BY <1>1 DEF FileInv, Torn, Watched, FilesWhole, F!FilesWhole

\* While another part is looked at, the files stay as they were at first.
FilesInv ==
    /\ part = "files" => FileInv
    /\ part # "files" => F!Init

\* Whoever reads, writes, moves and deletes files at once, a file that nobody
\* is writing to holds one request's content, all of it, unless two wrote to it
\* at once or a write failed; a download that returns a mixture met a writer;
\* and the watcher's events are those that happened.
THEOREM FilesKept == Spec => []FilesWhole
<1>1. Init => FilesInv
  BY FileInit DEF Init, FilesInv
<1>2. FilesInv /\ [Next]_vars => FilesInv'
  <2> SUFFICES ASSUME FilesInv, [Next]_vars  PROVE FilesInv'
    OBVIOUS
  <2>1. CASE part = "files" /\ F!Next /\ UNCHANGED part
    BY <2>1, FileNext DEF FilesInv
  <2>2. CASE UNCHANGED <<part, fvars>> /\ (part # "files" \/ UNCHANGED calls)
    <3>1. CASE part = "files"
      BY <2>2, <3>1 DEF FilesInv, fvars, FileInv, FileTypes, Watched, Busy, Written, WritesTo,
         Reading, Unwritten, Whole, Torn, Named
    <3>2. CASE part # "files"
      BY <2>2, <3>2 DEF FilesInv, fvars, F!Init
    <3> QED  BY <3>1, <3>2
  <2> QED  BY <2>1, <2>2 DEF Next, vars
<1>3. FilesInv => FilesWhole
  <2>1. F!Init => FilesWhole
    <3> SUFFICES ASSUME F!Init  PROVE F!FilesWhole
      BY DEF FilesWhole
    <3>1. /\ node = [p \in F!Paths |-> IF p = Outside THEN F!Old ELSE F!Free]
          /\ data = [n \in F!Nodes |-> IF n = F!Old THEN <<F!Before, F!Before>> ELSE <<0, 0>>]
          /\ fres = [c \in Clients |-> "none"] /\ ~watch.on
      BY DEF F!Init
    <3>2. ASSUME NEW p \in F!Paths, F!Exists(p)
          PROVE  data[node[p]][1] = data[node[p]][2] /\ data[node[p]][1] # 0
      <4>1. node[p] = F!Old
        BY <3>1, <3>2 DEF F!Exists
      <4>2. data[F!Old] = <<F!Before, F!Before>> /\ F!Before # 0
        BY <3>1, Nodes, ToolboxAssumption DEF F!Before
      <4> QED  BY <4>1, <4>2
    <3> QED  BY <3>1, <3>2 DEF F!FilesWhole
  <2> QED  BY <2>1, FileWhole DEF FilesInv
<1> QED  BY <1>1, <1>2, <1>3, PTL DEF Spec
==============================================================================
