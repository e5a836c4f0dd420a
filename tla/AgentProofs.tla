----------------------------- MODULE AgentProofs -----------------------------
(***************************************************************************)
(* The audit trail of the agent implements AuditLog, for every value of    *)
(* the constants with rotations a second or more apart.  The step that     *)
(* could lose events is the removal of a rotated file, and that it does    *)
(* not rests on facts about several steps before it (AuditInv): what is    *)
(* before the cursor, in memory or on disk, was delivered; the cycle's     *)
(* batch reaches from the cursor to its end; and a file that is to be      *)
(* removed ends there.  That a cursor never meets another file under its   *)
(* name rests on the stamps' going up.                                     *)
(*                                                                         *)
(* The bridge's calls, for every set of servers whose names keep apart     *)
(* (NamesApart): a bridged URI cut at its separators gives back the alias  *)
(* and the URI it was made of (WayBackOf), a name in the index stands for  *)
(* one thing (OneRow), and with that every call reaches what its name      *)
(* stands for, however old the listing is that it was asked from (ToolsInv *)
(* and CallInv).                                                           *)
(***************************************************************************)
EXTENDS Agent, WellFoundedInduction, FiniteSetTheorems, SequenceTheorems, TLAPS

-----------------------------------------------------------------------------
(* The audit trail *)

Lines   == Events \cup {Bad}
LogFile == [lines : Seq(Lines), torn : BOOLEAN]

\* The types; rotated files are numbered by their stamps, and nothing refers
\* to a file that is still to come.
AuditTypes ==
    /\ active \in LogFile
    /\ stamp \in Nat
    /\ rotated \in [DOMAIN rotated -> LogFile]
    /\ DOMAIN rotated \subseteq 1 .. stamp
    /\ cursor \in [file : Int, off : Nat] /\ cursor.file <= stamp
    /\ saved \in [file : Int, off : Nat] /\ saved.file <= stamp
    /\ up \in [at : {"rest", "picked", "posting", "posted", "removing"}, file : Int,
               batch : SUBSET Events, end : Nat, finish : BOOLEAN]
    /\ up.file <= stamp

\* Of the files r, f has its first n lines in `got`.
Sent(r, f, n, got) ==
    f \in DOMAIN r =>
        \A i \in DOMAIN r[f].lines : i <= n => r[f].lines[i] \in got \cup {Bad}

\* What is before the cursor was delivered, in memory and on disk.
Cursors == /\ Sent(rotated, cursor.file, cursor.off, delivered)
           /\ Sent(rotated, saved.file, saved.off, delivered)

\* The cycle works on the file of its cursor.  Its batch is from the files and
\* reaches from the cursor to its end, and a file it is to finish ends there.
Cycle ==
    /\ up.at # "rest" => up.file = cursor.file /\ up.file \in DOMAIN rotated \cup {0}
    /\ up.at \in {"posting", "posted"} =>
          Sent(rotated, up.file, up.end, delivered \cup up.batch)
    /\ up.at = "posting" => up.batch \subseteq A!Held \cup delivered
    /\ up.at = "posted" => up.batch \subseteq delivered
    /\ up.at = "removing" => up.finish /\ cursor.off = up.end
    /\ up.at # "rest" /\ up.finish =>
          /\ up.file \in DOMAIN rotated
          /\ up.end >= Len(rotated[up.file].lines)

AuditInv == AuditTypes /\ Cursors /\ Cycle

\* A set of numbers that is not empty has a least one.
LEMMA Least ==
    ASSUME NEW S \in SUBSET Nat, S # {}
    PROVE  \E n \in S : \A k \in S : n <= k
<1>1. \E n \in S : \A k \in S : ~(<<k, n>> \in OpToRel(<, Nat))
  BY NatLessThanWellFounded, WFMin
<1>2. ASSUME NEW k \in Nat, NEW n \in Nat, k < n
      PROVE  <<k, n>> \in OpToRel(<, Nat)
  BY <1>2, Zenon DEF OpToRel
<1>3. PICK n \in S : \A k \in S : ~(<<k, n>> \in OpToRel(<, Nat))
  BY <1>1
<1>4. ASSUME NEW k \in S  PROVE n <= k
  <2>1. ~(k < n)
    BY <1>2, <1>3, Zenon
  <2> QED  BY <2>1
<1> QED  BY <1>4

\* A batch ends in the file, or where it begins.
LEMMA EndFact ==
    ASSUME NEW lines \in Seq(Lines), NEW off \in Nat
    PROVE  /\ A!End(lines, off) \in Nat
           /\ A!End(lines, off) <= off \/ A!End(lines, off) <= Len(lines)
<1> DEFINE full == {n \in off .. Len(lines) :
                       Cardinality({i \in off + 1 .. n : lines[i] # Bad}) = BatchSize}
           least == CHOOSE n \in full : \A k \in full : n <= k
<1>0. Len(lines) \in Nat
  OBVIOUS
<1>1. full \in SUBSET Nat /\ \A n \in full : n <= Len(lines)
  BY <1>0
<1>2. A!End(lines, off) = CASE off > Len(lines) -> off
                            [] full # {} -> least
                            [] OTHER -> Len(lines)
  BY DEF A!End
<1>3. off > Len(lines) => full = {}
  BY <1>0
<1> HIDE DEF full
<1>4. full # {} => least \in full
  BY <1>1, Least
<1> HIDE DEF least
<1>5. CASE full # {}
  BY <1>0, <1>1, <1>2, <1>3, <1>4, <1>5
<1>6. CASE full = {}
  BY <1>0, <1>2, <1>6
<1> QED  BY <1>5, <1>6

\* The events in files a and r.
HeldIn(a, r) == A!Written(a) \cup UNION {A!Written(r[f]) : f \in DOMAIN r}

\* Held, now and after a step.
LEMMA HeldFact ==
    ASSUME 0 \notin DOMAIN rotated
    PROVE  A!Held = HeldIn(active, rotated)
BY DEF A!Held, A!Files, A!Active, HeldIn

\* ... after a step.
LEMMA HeldNext ==
    ASSUME 0 \notin DOMAIN rotated'
    PROVE  A!Held' = HeldIn(active', rotated')
BY DEF A!Held, A!Files, A!Active, HeldIn

\* The events of a file that gets a line.
LEMMA AppendFact ==
    ASSUME NEW a \in LogFile, NEW e \in Events
    PROVE  /\ A!Append1(a, e) \in LogFile
           /\ a.torn => A!Written(A!Append1(a, e)) = A!Written(a)
           /\ ~a.torn => A!Written(A!Append1(a, e)) = A!Written(a) \cup {e}
<1> DEFINE x == IF a.torn THEN Bad ELSE e
           l == Append(a.lines, x)
<1>0. a.lines \in Seq(Lines) /\ a.torn \in BOOLEAN /\ x \in Lines /\ e # Bad
  BY AgentAssumption DEF LogFile, Lines
<1>1. A!Append1(a, e) = [lines |-> l, torn |-> FALSE]
  BY DEF A!Append1
<1>x. a.torn => x = Bad
  OBVIOUS
<1>y. ~a.torn => x = e
  OBVIOUS
<1> HIDE DEF x
<1>2. l \in Seq(Lines)
  BY <1>0
<1>3. /\ DOMAIN l = DOMAIN a.lines \cup {Len(a.lines) + 1}
      /\ l[Len(a.lines) + 1] = x
      /\ \A i \in DOMAIN a.lines : l[i] = a.lines[i]
  BY <1>0
<1> HIDE DEF l
<1>4. A!Append1(a, e) \in LogFile /\ A!Append1(a, e).lines = l
  BY <1>1, <1>2 DEF LogFile
<1>5. {l[i] : i \in DOMAIN l} = {a.lines[i] : i \in DOMAIN a.lines} \cup {x}
  BY <1>3
<1>6. A!Written(A!Append1(a, e)) = (A!Written(a) \cup {x}) \ {Bad}
  BY <1>4, <1>5 DEF A!Written
<1>7. Bad \notin A!Written(a)
  BY DEF A!Written
<1> QED  BY <1>0, <1>4, <1>6, <1>7, <1>x, <1>y

\* What was sent of a file stays sent while the file stays as it is.
LEMMA SentStays ==
    ASSUME NEW r, NEW q, NEW f, NEW n, NEW got, NEW more, got \subseteq more,
           f \in DOMAIN q => f \in DOMAIN r /\ q[f] = r[f],
           Sent(r, f, n, got)
    PROVE  Sent(q, f, n, more)
BY DEF Sent

\* The first states.
LEMMA AuditInit == A!Init => AuditInv /\ A!Log!Init
<1> SUFFICES ASSUME A!Init  PROVE AuditInv /\ A!Log!Init
  OBVIOUS
<1>0. /\ active = A!Empty /\ rotated = [f \in {} |-> A!Empty] /\ stamp = 0
      /\ cursor = A!Start /\ saved = A!Start /\ up = A!Resting /\ delivered = {}
  BY DEF A!Init
<1>1. DOMAIN rotated = {}
  BY <1>0
<1>2. A!Empty \in LogFile /\ A!Written(A!Empty) = {}
  BY DEF LogFile, A!Empty, A!Written
<1>3. AuditTypes
  BY <1>0, <1>1, <1>2 DEF AuditTypes, A!Start, A!Resting, A!NoFile
<1>4. Cursors /\ Cycle
  BY <1>0, <1>1 DEF Cursors, Cycle, Sent, A!Resting
<1>5. A!Held = {}
  BY <1>0, <1>1, <1>2, HeldFact DEF HeldIn
<1> QED  BY <1>0, <1>3, <1>4, <1>5 DEF AuditInv, A!Log!Init

\* A decision is recorded, into the active file or a new one.
LEMMA RecordStep ==
    ASSUME AuditInv, Apart, NEW e \in Events, A!Record(e)
    PROVE  AuditInv' /\ (A!Held' = A!Held \/ A!Held' = A!Held \cup {e})
<1>0. AuditTypes /\ Cursors /\ Cycle /\ UNCHANGED <<cursor, saved, up, delivered>>
  BY DEF AuditInv, A!Record
<1>1. 0 \notin DOMAIN rotated /\ A!Held = HeldIn(active, rotated)
  BY <1>0, HeldFact DEF AuditTypes
<1>2. /\ AuditTypes' /\ (A!Held' = A!Held \/ A!Held' = A!Held \cup {e})
      /\ \A f \in DOMAIN rotated : f \in DOMAIN rotated' /\ rotated'[f] = rotated[f]
      /\ \A f \in DOMAIN rotated' : f <= stamp => f \in DOMAIN rotated
  <2>1. CASE Len(active.lines) < MaxLines
    <3>1. active' = A!Append1(active, e) /\ UNCHANGED <<rotated, stamp>>
      BY <2>1 DEF A!Record
    <3>2. active \in LogFile
      BY <1>0 DEF AuditTypes
    <3>3. /\ active' \in LogFile
          /\ A!Written(active') = A!Written(active) \/ A!Written(active') = A!Written(active) \cup {e}
      BY <3>1, <3>2, AppendFact DEF LogFile
    <3>4. A!Held' = HeldIn(active', rotated')
      BY <1>1, <3>1, HeldNext
    <3>5. A!Held' = A!Held \/ A!Held' = A!Held \cup {e}
      BY <1>1, <3>1, <3>3, <3>4 DEF HeldIn
    <3>6. AuditTypes'
      BY <1>0, <3>1, <3>3 DEF AuditTypes
    <3> QED  BY <3>1, <3>5, <3>6
  <2>2. CASE ~(Len(active.lines) < MaxLines)
    <3> DEFINE s == stamp + 1
    <3>1. /\ rotated' = [f \in DOMAIN rotated \cup {s} |-> IF f = s THEN active ELSE rotated[f]]
          /\ active' = A!Append1(A!Empty, e)
          /\ stamp' = s
      BY <2>2 DEF A!Record, A!Stamps
    <3>2. s \notin DOMAIN rotated /\ s \in Nat \ {0} /\ s > stamp
      BY <1>0 DEF AuditTypes
    <3>3. /\ DOMAIN rotated' = DOMAIN rotated \cup {s} /\ rotated'[s] = active
          /\ \A f \in DOMAIN rotated : rotated'[f] = rotated[f]
      BY <3>1, <3>2
    <3>4. A!Empty \in LogFile /\ ~A!Empty.torn /\ A!Written(A!Empty) = {}
      BY DEF LogFile, A!Empty, A!Written
    <3>5. active' \in LogFile /\ A!Written(active') = {e}
      BY <3>1, <3>4, AppendFact
    <3>6. A!Held' = HeldIn(active', rotated')
      BY <1>1, <3>2, <3>3, HeldNext
    <3>7. UNION {A!Written(rotated'[f]) : f \in DOMAIN rotated'}
             = A!Written(active) \cup UNION {A!Written(rotated[f]) : f \in DOMAIN rotated}
      BY <3>3
    <3>8. A!Held' = A!Held \cup {e}
      BY <1>1, <3>5, <3>6, <3>7 DEF HeldIn
    <3>9. rotated' \in [DOMAIN rotated' -> LogFile]
      BY <1>0, <3>1, <3>3 DEF AuditTypes
    <3>10. AuditTypes'
      BY <1>0, <3>1, <3>2, <3>3, <3>5, <3>9 DEF AuditTypes
    <3> QED  BY <1>0, <3>2, <3>3, <3>8, <3>10 DEF AuditTypes
  <2> QED  BY <2>1, <2>2
<1>3. /\ cursor.file \in DOMAIN rotated' => cursor.file \in DOMAIN rotated
      /\ saved.file \in DOMAIN rotated' => saved.file \in DOMAIN rotated
      /\ up.file \in DOMAIN rotated' => up.file \in DOMAIN rotated
  BY <1>0, <1>2 DEF AuditTypes
<1>4. Cursors'
  BY <1>0, <1>2, <1>3 DEF Cursors, Sent
<1>5. Cycle'
  BY <1>0, <1>2, <1>3 DEF Cycle, Sent
<1> QED  BY <1>2, <1>4, <1>5 DEF AuditInv

\* Steps that leave the files alone leave the events in them.
LEMMA HeldStays == ASSUME UNCHANGED <<active, rotated>>  PROVE A!Held' = A!Held
BY DEF A!Held, A!Files, A!Active

\* A write fails: at most the active file is torn.
LEMMA FailsStep ==
    ASSUME AuditInv, A!RecordFails
    PROVE  AuditInv' /\ UNCHANGED <<A!Held, delivered>>
<1>0. /\ AuditTypes /\ Cursors /\ Cycle /\ UNCHANGED <<rotated, stamp, cursor, saved, up, delivered>>
      /\ active' = [active EXCEPT !.torn = TRUE] \/ active' = active
  BY DEF AuditInv, A!RecordFails
<1>1. active' \in LogFile /\ active'.lines = active.lines
  BY <1>0 DEF AuditTypes, LogFile
<1>2. A!Held' = A!Held
  <2>1. A!Written(active') = A!Written(active)
    BY <1>1 DEF A!Written
  <2>2. 0 \notin DOMAIN rotated /\ 0 \notin DOMAIN rotated'
    BY <1>0 DEF AuditTypes
  <2> QED  BY <1>0, <2>1, <2>2, HeldFact, HeldNext DEF HeldIn
<1>3. AuditTypes'
  BY <1>0, <1>1 DEF AuditTypes
<1> QED  BY <1>0, <1>2, <1>3 DEF AuditInv, Cursors, Cycle

\* A cycle begins with the oldest rotated file, or the active one.
LEMMA PickStep ==
    ASSUME AuditInv, A!Pick
    PROVE  AuditInv' /\ UNCHANGED <<A!Held, delivered>>
<1> DEFINE f == A!Target
<1>0. /\ AuditTypes /\ Cursors /\ Cycle /\ UNCHANGED <<active, rotated, stamp, saved, delivered>>
      /\ cursor' = IF cursor.file = f THEN cursor ELSE [file |-> f, off |-> 0]
      /\ up' = [A!Resting EXCEPT !.at = "picked", !.file = f]
  BY DEF AuditInv, A!Pick
<1>1. f \in DOMAIN rotated \cup {0}
  <2>1. CASE DOMAIN rotated = {}
    BY <2>1 DEF A!Target, A!Active
  <2>2. CASE DOMAIN rotated # {}
    <3>1. DOMAIN rotated \in SUBSET Nat
      BY <1>0 DEF AuditTypes
    <3>2. \E s \in DOMAIN rotated : \A t \in DOMAIN rotated : s <= t
      BY <2>2, <3>1, Least
    <3>3. f = CHOOSE s \in DOMAIN rotated : \A t \in DOMAIN rotated : s <= t
      BY <2>2 DEF A!Target
    <3> QED  BY <3>2, <3>3
  <2> QED  BY <2>1, <2>2
<1>2. f \in Int /\ f <= stamp
  BY <1>0, <1>1 DEF AuditTypes
<1> HIDE DEF f
<1>3. /\ up'.at = "picked" /\ up'.file = f /\ up'.batch = {} /\ up'.end = 0 /\ ~up'.finish
      /\ up' = [at |-> "picked", file |-> f, batch |-> {}, end |-> 0, finish |-> FALSE]
  BY <1>0 DEF A!Resting
<1>4. /\ cursor' \in [file : Int, off : Nat] /\ cursor'.file = f
      /\ cursor'.off = 0 \/ cursor' = cursor
  BY <1>0, <1>2 DEF AuditTypes
<1>5. AuditTypes'
  <2>1. up' \in [at : {"rest", "picked", "posting", "posted", "removing"}, file : Int,
                 batch : SUBSET Events, end : Nat, finish : BOOLEAN]
    BY <1>2, <1>3
  <2> QED  BY <1>0, <1>2, <1>3, <1>4, <2>1 DEF AuditTypes
<1>6. Cursors'
  <2>1. CASE cursor' = cursor
    BY <1>0, <2>1 DEF Cursors
  <2>2. CASE cursor'.off = 0
    <3>1. Sent(rotated, cursor'.file, 0, delivered)
      BY <1>0 DEF Sent, AuditTypes, LogFile
    <3> QED  BY <1>0, <2>2, <3>1 DEF Cursors
  <2> QED  BY <1>4, <2>1, <2>2
<1>7. Cycle'
  BY <1>0, <1>1, <1>3, <1>4 DEF Cycle
<1> QED  BY <1>0, <1>5, <1>6, <1>7, HeldStays DEF AuditInv

\* A batch is read from the cursor on, of a file that no other party removes.
LEMMA ReadStep ==
    ASSUME AuditInv, A!Read
    PROVE  AuditInv' /\ UNCHANGED <<A!Held, delivered>>
<1> DEFINE f == up.file
           lines == A!Files[f].lines
           end == A!End(lines, cursor.off)
           batch == {lines[i] : i \in cursor.off + 1 .. end} \ {Bad}
<1>0. /\ AuditTypes /\ Cursors /\ Cycle /\ up.at = "picked"
      /\ UNCHANGED <<active, rotated, stamp, cursor, saved, delivered>>
      /\ up' = IF batch = {} THEN A!Resting
               ELSE [up EXCEPT !.at = "posting", !.batch = batch, !.end = end,
                               !.finish = A!Finishes(up.file, end)]
  BY DEF AuditInv, A!Read
<1>1. /\ f = cursor.file /\ f \in DOMAIN rotated \cup {0} /\ 0 \notin DOMAIN rotated
      /\ f \in Int /\ cursor.off \in Nat
  BY <1>0 DEF Cycle, AuditTypes
<1>2. A!Files[f] \in LogFile /\ (f # 0 => f \in DOMAIN rotated /\ A!Files[f] = rotated[f])
  BY <1>0, <1>1 DEF A!Files, A!Active, AuditTypes
<1>3. lines \in Seq(Lines)
  BY <1>2 DEF LogFile
<1>4. A!Written(A!Files[f]) \subseteq A!Held
  BY <1>1 DEF A!Held, A!Files, A!Active
<1>a. (A!Finishes(f, end) \in BOOLEAN) /\ (A!Finishes(f, end) => f # 0 /\ end >= Len(lines))
  BY DEF A!Finishes, A!Active
<1>b. {lines[i] : i \in DOMAIN lines} \ {Bad} \subseteq A!Held
  BY <1>4 DEF A!Written
<1> DEFINE done == A!Finishes(f, end)
<1>c. batch # {} => up' = [up EXCEPT !.at = "posting", !.batch = batch, !.end = end, !.finish = done]
  BY <1>0
<1>d. batch = {} => up' = A!Resting
  BY <1>0
<1>e. f # 0 => lines = rotated[f].lines
  BY <1>2
<1> HIDE DEF lines, done
<1>5. end \in Nat /\ (end <= cursor.off \/ end <= Len(lines))
  BY <1>1, <1>3, EndFact
<1> HIDE DEF end
<1>6. \A i \in cursor.off + 1 .. end : i \in DOMAIN lines
  BY <1>1, <1>3, <1>5
<1>7. batch \subseteq A!Held /\ batch \in SUBSET Events
  BY <1>3, <1>6, <1>b DEF Lines
<1>8. \A i \in DOMAIN lines : i <= end => i <= cursor.off \/ lines[i] \in batch \cup {Bad}
  BY <1>1, <1>3, <1>5
<1> HIDE DEF batch
<1>9. CASE batch = {}
  <2>1. AuditTypes'
    BY <1>0, <1>9, <1>d DEF AuditTypes, A!Resting, A!NoFile
  <2>2. Cursors' /\ Cycle'
    BY <1>0, <1>9, <1>d DEF Cursors, Cycle, A!Resting
  <2> QED  BY <1>0, <2>1, <2>2, HeldStays DEF AuditInv
<1>10. CASE batch # {}
  <2>1. /\ up'.at = "posting" /\ up'.file = f /\ up'.batch = batch /\ up'.end = end /\ up'.finish = done
        /\ up' \in [at : {"posting"}, file : {f}, batch : {batch}, end : {end}, finish : {done}]
    BY <1>0, <1>10, <1>c DEF AuditTypes
  <2>2. AuditTypes'
    <3>1. up' \in [at : {"rest", "picked", "posting", "posted", "removing"}, file : Int,
                   batch : SUBSET Events, end : Nat, finish : BOOLEAN]
      BY <1>1, <1>5, <1>7, <1>a, <2>1 DEF done
    <3> QED  BY <1>0, <2>1, <3>1 DEF AuditTypes
  <2>3. Sent(rotated, f, end, delivered \cup batch)
    <3> SUFFICES ASSUME f \in DOMAIN rotated, NEW i \in DOMAIN rotated[f].lines, i <= end
                 PROVE  rotated[f].lines[i] \in delivered \cup batch \cup {Bad}
      BY DEF Sent
    <3>1. lines = rotated[f].lines
      BY <1>1, <1>e
    <3>2. i <= cursor.off => lines[i] \in delivered \cup {Bad}
      BY <1>0, <1>1, <3>1 DEF Cursors, Sent
    <3> QED  BY <1>8, <3>1, <3>2
  <2>4. Cursors'
    BY <1>0 DEF Cursors
  <2>5. done => f \in DOMAIN rotated /\ end >= Len(rotated[f].lines)
    BY <1>1, <1>a, <1>e DEF done
  <2>6. A!Held' = A!Held
    BY <1>0, HeldStays
  <2>7. Cycle'
    BY <1>0, <1>1, <1>7, <2>1, <2>3, <2>5, <2>6 DEF Cycle
  <2> QED  BY <1>0, <2>2, <2>4, <2>6, <2>7 DEF AuditInv
<1> QED  BY <1>9, <1>10

\* The server answers, or does not: it may have the batch.
LEMMA PostStep ==
    ASSUME AuditInv, A!PostOK \/ A!PostFails
    PROVE  /\ AuditInv' /\ A!Held' = A!Held
           /\ delivered' = delivered
              \/ (delivered' = delivered \cup up.batch /\ up.batch \subseteq A!Held \cup delivered)
<1>0. /\ AuditTypes /\ Cursors /\ Cycle /\ up.at = "posting"
      /\ UNCHANGED <<active, rotated, stamp, cursor, saved>>
      /\ \/ delivered' = delivered \cup up.batch /\ up' = [up EXCEPT !.at = "posted"]
         \/ delivered' \in {delivered, delivered \cup up.batch} /\ up' = A!Resting
  BY DEF AuditInv, A!PostOK, A!PostFails
<1>1. up.batch \subseteq A!Held \cup delivered /\ A!Held' = A!Held
  BY <1>0, HeldStays DEF Cycle
<1>2. delivered \subseteq delivered'
  BY <1>0
<1>3. Cursors'
  BY <1>0, <1>2, SentStays DEF Cursors
<1>4. CASE delivered' = delivered \cup up.batch /\ up' = [up EXCEPT !.at = "posted"]
  <2>1. /\ up'.at = "posted" /\ up'.file = up.file /\ up'.batch = up.batch /\ up'.end = up.end
        /\ up'.finish = up.finish
    BY <1>0, <1>4 DEF AuditTypes
  <2>2. AuditTypes'
    BY <1>0, <1>4 DEF AuditTypes
  <2>3. Sent(rotated, up.file, up.end, delivered \cup up.batch)
    BY <1>0 DEF Cycle
  <2>4. delivered' \cup up'.batch = delivered \cup up.batch
    BY <1>4, <2>1
  <2>5. Sent(rotated', up'.file, up'.end, delivered' \cup up'.batch)
    BY <1>0, <2>1, <2>3, <2>4
  <2>6. Cycle'
    BY <1>0, <1>4, <2>1, <2>5 DEF Cycle
  <2> QED  BY <1>0, <1>1, <1>3, <2>2, <2>6 DEF AuditInv
<1>5. CASE up' = A!Resting
  <2>1. AuditTypes'
    BY <1>0, <1>5 DEF AuditTypes, A!Resting, A!NoFile
  <2>2. Cycle'
    BY <1>5 DEF Cycle, A!Resting
  <2> QED  BY <1>0, <1>1, <1>3, <2>1, <2>2 DEF AuditInv
<1> QED  BY <1>0, <1>4, <1>5

\* The cursor moves behind what was posted.
LEMMA CommitStep ==
    ASSUME AuditInv, A!Commit
    PROVE  AuditInv' /\ UNCHANGED <<A!Held, delivered>>
<1>0. /\ AuditTypes /\ Cursors /\ Cycle /\ up.at = "posted"
      /\ UNCHANGED <<active, rotated, stamp, delivered>>
      /\ cursor' = [file |-> up.file, off |-> up.end]
      /\ saved' = cursor' \/ saved' = saved
      /\ up' = A!Resting \/ (up.finish /\ up' = [up EXCEPT !.at = "removing"])
  BY DEF AuditInv, A!Commit
<1>1. cursor' \in [file : Int, off : Nat] /\ cursor'.file = up.file /\ cursor'.off = up.end
  BY <1>0 DEF AuditTypes
<1>2. Sent(rotated, up.file, up.end, delivered)
  <2>1. delivered \cup up.batch = delivered
    BY <1>0 DEF Cycle
  <2> QED  BY <1>0, <2>1 DEF Cycle
<1>3. Cursors'
  <2>1. Sent(rotated', cursor'.file, cursor'.off, delivered')
    BY <1>0, <1>1, <1>2
  <2>2. Sent(rotated', saved'.file, saved'.off, delivered')
    BY <1>0, <2>1 DEF Cursors
  <2> QED  BY <2>1, <2>2 DEF Cursors
<1>4. CASE up' = A!Resting
  <2>1. AuditTypes'
    BY <1>0, <1>1, <1>4 DEF AuditTypes, A!Resting, A!NoFile
  <2>2. Cycle'
    BY <1>4 DEF Cycle, A!Resting
  <2> QED  BY <1>0, <1>3, <2>1, <2>2, HeldStays DEF AuditInv
<1>5. CASE up.finish /\ up' = [up EXCEPT !.at = "removing"]
  <2>1. /\ up'.at = "removing" /\ up'.file = up.file /\ up'.end = up.end /\ up'.finish = up.finish
    BY <1>0, <1>5 DEF AuditTypes
  <2>2. AuditTypes'
    <3>1. up' \in [at : {"rest", "picked", "posting", "posted", "removing"}, file : Int,
                   batch : SUBSET Events, end : Nat, finish : BOOLEAN]
      BY <1>0, <1>5 DEF AuditTypes
    <3> QED  BY <1>0, <1>1, <2>1, <3>1 DEF AuditTypes
  <2>3. Cycle'
    BY <1>0, <1>1, <1>5, <2>1 DEF Cycle
  <2> QED  BY <1>0, <1>3, <2>2, <2>3, HeldStays DEF AuditInv
<1> QED  BY <1>0, <1>4, <1>5

\* A finished file goes; the server has every event in it.
LEMMA RemoveStep ==
    ASSUME AuditInv, A!Remove
    PROVE  AuditInv' /\ UNCHANGED delivered /\ A!Held' \cup delivered = A!Held \cup delivered
<1> DEFINE left == [f \in DOMAIN rotated \ {up.file} |-> rotated[f]]
<1>0. /\ AuditTypes /\ Cursors /\ Cycle /\ up.at = "removing"
      /\ UNCHANGED <<active, stamp, delivered>>
      /\ rotated' = left \/ rotated' = rotated
      /\ saved' = A!Start \/ saved' = saved
      /\ cursor' = A!Start /\ up' = A!Resting
  BY DEF AuditInv, A!Remove
<1>1. /\ up.file \in DOMAIN rotated /\ up.file = cursor.file /\ cursor.off = up.end
      /\ up.end >= Len(rotated[up.file].lines) /\ 0 \notin DOMAIN rotated
  BY <1>0 DEF Cycle, AuditTypes
<1>2. A!Written(rotated[up.file]) \subseteq delivered
  <2>1. rotated[up.file].lines \in Seq(Lines) /\ up.end \in Nat
    BY <1>0, <1>1 DEF AuditTypes, LogFile
  <2>2. \A i \in DOMAIN rotated[up.file].lines : i <= up.end
    BY <1>1, <2>1
  <2> QED  BY <1>0, <1>1, <2>2 DEF A!Written, Cursors, Sent
<1>3. /\ DOMAIN rotated' \subseteq DOMAIN rotated /\ DOMAIN rotated \subseteq DOMAIN rotated' \cup {up.file}
      /\ \A f \in DOMAIN rotated' : rotated'[f] = rotated[f]
      /\ rotated' \in [DOMAIN rotated' -> LogFile]
  BY <1>0 DEF AuditTypes
<1>4. A!Held = HeldIn(active, rotated) /\ A!Held' = HeldIn(active, rotated')
  BY <1>0, <1>1, <1>3, HeldFact, HeldNext
<1>5. A!Held' \cup delivered = A!Held \cup delivered
  BY <1>2, <1>3, <1>4 DEF HeldIn
<1>6. AuditTypes'
  BY <1>0, <1>3 DEF AuditTypes, A!Start, A!Resting, A!NoFile
<1>7. Cycle'
  BY <1>0 DEF Cycle, A!Resting
<1>8. Cursors'
  <2>1. A!Start.file = -1 /\ -1 \notin DOMAIN rotated'
    BY <1>0, <1>3 DEF A!Start, A!NoFile, AuditTypes
  <2>2. Sent(rotated', A!Start.file, A!Start.off, delivered')
    BY <2>1 DEF Sent
  <2>3. Sent(rotated', saved.file, saved.off, delivered')
    BY <1>0, <1>3, SentStays DEF Cursors
  <2> QED  BY <1>0, <2>2, <2>3 DEF Cursors
<1> QED  BY <1>0, <1>5, <1>6, <1>7, <1>8 DEF AuditInv

\* The agent starts anew with the cursor of the disk.
LEMMA RestartStep ==
    ASSUME AuditInv, A!Restart
    PROVE  AuditInv' /\ UNCHANGED <<A!Held, delivered>>
<1>0. /\ AuditTypes /\ Cursors /\ UNCHANGED <<active, rotated, stamp, saved, delivered>>
      /\ cursor' = saved /\ up' = A!Resting
  BY DEF AuditInv, A!Restart
<1>1. AuditTypes'
  BY <1>0 DEF AuditTypes, A!Resting, A!NoFile
<1>2. Cursors' /\ Cycle'
  BY <1>0 DEF Cursors, Cycle, A!Resting
<1> QED  BY <1>0, <1>1, <1>2, HeldStays DEF AuditInv

\* The invariant is inductive, and a step is one of AuditLog, or none: what is
\* new in the files is recorded, and only what was pending is delivered.
LEMMA AuditStep ==
    ASSUME AuditInv, Apart, [Next]_vars
    PROVE  AuditInv' /\ [A!Log!Next]_(A!Log!logVars)
<1>1. CASE UNCHANGED avars
  <2>1. AuditInv'
    <3>1. AuditTypes' /\ Cursors'
      BY <1>1 DEF AuditInv, avars, AuditTypes, Cursors
    <3>2. A!Held' = A!Held
      BY <1>1, HeldStays DEF avars
    <3>3. Cycle'
      BY <1>1, <3>2 DEF AuditInv, avars, Cycle
    <3> QED  BY <3>1, <3>3 DEF AuditInv
  <2> QED  BY <1>1, <2>1, HeldStays DEF avars, A!Log!logVars
<1>2. CASE A!Next
  <2>1. ASSUME NEW e \in Events, A!Record(e)
        PROVE  AuditInv' /\ [A!Log!Next]_(A!Log!logVars)
    <3>1. AuditInv' /\ (A!Held' = A!Held \/ A!Held' = A!Held \cup {e})
      BY <2>1, RecordStep
    <3>2. UNCHANGED delivered /\ e \notin A!Held \cup delivered
      BY <2>1 DEF A!Record
    <3>3. CASE A!Held' = A!Held
      BY <3>1, <3>2, <3>3 DEF A!Log!logVars
    <3>4. CASE A!Held' = A!Held \cup {e}
      <4>1. A!Held' \ delivered' = (A!Held \ delivered) \cup {e}
        BY <3>2, <3>4
      <4>2. e \in Events \ ((A!Held \ delivered) \cup delivered)
        BY <3>2
      <4> QED  BY <3>1, <3>2, <4>1, <4>2 DEF A!Log!Next, A!Log!Record
    <3> QED  BY <3>1, <3>3, <3>4
  <2>2. CASE A!PostOK \/ A!PostFails
    <3>1. /\ AuditInv' /\ A!Held' = A!Held
          /\ delivered' = delivered
             \/ (delivered' = delivered \cup up.batch /\ up.batch \subseteq A!Held \cup delivered)
      BY <2>2, PostStep
    <3>2. CASE delivered' = delivered
      BY <3>1, <3>2 DEF A!Log!logVars
    <3>3. CASE delivered' # delivered
      <4> DEFINE b == up.batch \ delivered
      <4>1. b \in (SUBSET (A!Held \ delivered)) \ {{}}
        BY <3>1, <3>3
      <4>2. A!Held' \ delivered' = (A!Held \ delivered) \ b /\ delivered' = delivered \cup b
        BY <3>1, <3>3
      <4> HIDE DEF b
      <4> QED  BY <3>1, <4>1, <4>2 DEF A!Log!Next, A!Log!Deliver
    <3> QED  BY <3>2, <3>3
  <2>3. CASE A!Remove
    <3>1. AuditInv' /\ UNCHANGED delivered /\ A!Held' \cup delivered = A!Held \cup delivered
      BY <2>3, RemoveStep
    <3>2. A!Held' \ delivered' = A!Held \ delivered
      BY <3>1
    <3> QED  BY <3>1, <3>2 DEF A!Log!logVars
  <2>4. CASE A!RecordFails \/ A!Pick \/ A!Read \/ A!Commit \/ A!Restart
    <3>1. AuditInv' /\ UNCHANGED <<A!Held, delivered>>
      BY <2>4, FailsStep, PickStep, ReadStep, CommitStep, RestartStep
    <3> QED  BY <3>1 DEF A!Log!logVars
  <2> QED  BY <1>2, <2>1, <2>2, <2>3, <2>4 DEF A!Next
<1> QED  BY <1>1, <1>2 DEF Next, vars, avars

\* At-least-once delivery: as long as rotations are a second or more apart, no
\* rotation, removal of a drained file (uploader.go), cursor of before a crash
\* or lost answer takes an event away that the server does not have, for any
\* file and batch size and any number of events and faults.
THEOREM DeliversAtLeastOnce == ASSUME Apart PROVE Spec => ImplementsLog
<1>1. Init => AuditInv /\ A!Log!Init
  BY AuditInit DEF Init
<1>2. AuditInv /\ [Next]_vars => AuditInv' /\ [A!Log!Next]_(A!Log!logVars)
  BY AuditStep
<1> QED  BY <1>1, <1>2, PTL DEF Spec, ImplementsLog, A!ImplementsLog, A!Log!Spec

-----------------------------------------------------------------------------
(* Names *)

\* A part is a name, and so are two.
LEMMA Parted ==
    ASSUME NEW x \in Words, NEW y \in Words
    PROVE  /\ <<x>> \in T!Names /\ Len(<<x>>) = 1 /\ <<x>>[1] = x
           /\ <<x, y>> \in T!Names /\ Len(<<x, y>>) = 2 /\ <<x, y>>[1] = x /\ <<x, y>>[2] = y
BY DEF T!Names

\* Names with the same parts are the same.
LEMMA SameParts ==
    ASSUME NEW u \in T!Names, NEW v \in T!Names, Len(u) = Len(v),
           \A i \in 1 .. Len(u) : u[i] = v[i]
    PROVE  u = v
BY SeqEqual DEF T!Names

\* Joining names is associative.
LEMMA JoinAssociative ==
    ASSUME NEW u \in T!Names, NEW v \in T!Names, NEW w \in T!Names
    PROVE  (u \o v) \o w = u \o (v \o w)
<1> DEFINE l == (u \o v) \o w
           r == u \o (v \o w)
<1>1. l \in T!Names /\ r \in T!Names
  BY DEF T!Names
<1>2. Len(l) = Len(r) /\ \A i \in 1 .. Len(l) : l[i] = r[i]
  BY DEF T!Names
<1> HIDE DEF l, r
<1>3. l = r
  BY <1>1, <1>2, SameParts
<1> QED  BY <1>3 DEF l, r

\* Some of the parts of a name.
LEMMA SubName ==
    ASSUME NEW u \in T!Names, NEW i \in Nat \ {0}, NEW j \in Nat, j <= Len(u)
    PROVE  /\ SubSeq(u, i, j) \in T!Names
           /\ Len(SubSeq(u, i, j)) = IF i <= j THEN j - i + 1 ELSE 0
           /\ \A k \in 1 .. j - i + 1 : SubSeq(u, i, j)[k] = u[i + k - 1]
<1>1. Len(u) \in Nat /\ \A k \in i .. j : u[k] \in Words
  BY DEF T!Names
<1>2. \A k \in 1 .. j - i + 1 : SubSeq(u, i, j)[k] = u[i + k - 1]
  BY <1>1
<1>3. SubSeq(u, i, j) \in Seq(Words) /\ Len(SubSeq(u, i, j)) = IF i <= j THEN j - i + 1 ELSE 0
  BY <1>1, SubSeqProperties
<1> QED  BY <1>2, <1>3 DEF T!Names

\* A name and what precedes it.
LEMMA AfterPrefix ==
    ASSUME NEW p \in T!Names, NEW q \in T!Names
    PROVE  /\ p \o q \in T!Names /\ Len(p \o q) = Len(p) + Len(q) /\ Len(p) \in Nat /\ Len(q) \in Nat
           /\ DOMAIN (p \o q) = 1 .. Len(p) + Len(q)
           /\ SubSeq(p \o q, 1, Len(p)) = p
           /\ SubSeq(p \o q, Len(p) + 1, Len(p \o q)) = q
           /\ \A i \in 1 .. Len(p) : (p \o q)[i] = p[i]
           /\ \A i \in 1 .. Len(q) : (p \o q)[Len(p) + i] = q[i]
<1> USE DEF T!Names
<1>1. /\ p \o q \in Seq(Words) /\ Len(p \o q) = Len(p) + Len(q) /\ Len(p) \in Nat /\ Len(q) \in Nat
      /\ DOMAIN (p \o q) = 1 .. Len(p) + Len(q)
  BY ConcatProperties, LenProperties
<1>2. /\ \A i \in 1 .. Len(p) : (p \o q)[i] = p[i]
      /\ \A i \in 1 .. Len(q) : (p \o q)[Len(p) + i] = q[i]
  BY <1>1, ConcatProperties
<1>3. SubSeq(p \o q, 1, Len(p)) = p
  <2> DEFINE l == SubSeq(p \o q, 1, Len(p))
  <2>1. l \in Seq(Words) /\ Len(l) = Len(p) /\ \A i \in 1 .. Len(p) : l[i] = p[i]
    BY <1>1, <1>2
  <2> HIDE DEF l
  <2> QED  BY <2>1, SeqEqual
<1>4. SubSeq(p \o q, Len(p) + 1, Len(p \o q)) = q
  <2> DEFINE l == SubSeq(p \o q, Len(p) + 1, Len(p \o q))
  <2>1. l \in Seq(Words) /\ Len(l) = Len(q) /\ \A i \in 1 .. Len(q) : l[i] = q[i]
    BY <1>1, <1>2
  <2> HIDE DEF l
  <2> QED  BY <2>1, SeqEqual
<1> QED  BY <1>1, <1>2, <1>3, <1>4

\* The first of two parts.
LEMMA FirstPart ==
    ASSUME NEW x \in Words, NEW y \in Words
    PROVE  SubSeq(<<x, y>>, 1, 1) = <<x>>
<1> DEFINE p == <<x, y>>
           k == SubSeq(p, 1, 1)
           l == <<x>>
<1>1. l \in T!Names /\ Len(l) = 1 /\ l[1] = x /\ p \in T!Names /\ Len(p) = 2 /\ p[1] = x
  BY Parted
<1> HIDE DEF l, p
<1>2. k \in T!Names /\ Len(k) = 1 /\ k[1] = x
  <2>0. 1 \in Nat \ {0} /\ 1 \in Nat /\ 1 <= Len(p) /\ p \in T!Names
    BY <1>1
  <2>1. /\ k \in T!Names /\ Len(k) = IF 1 <= 1 THEN 1 - 1 + 1 ELSE 0
        /\ \A j \in 1 .. 1 - 1 + 1 : k[j] = p[1 + j - 1]
    BY <2>0, SubName, Zenon
  <2> HIDE DEF k
  <2> QED  BY <1>1, <2>1
<1> HIDE DEF k
<1>3. k = l
  BY <1>1, <1>2, SameParts
<1> QED  BY <1>3 DEF k, l, p

\* A name is what comes up to a part and what comes after.
LEMMA TwoHalves ==
    ASSUME NEW u \in T!Names, NEW i \in 1 .. Len(u)
    PROVE  SubSeq(u, 1, i) \o SubSeq(u, i + 1, Len(u)) = u
<1>1. u \in Seq(Words) /\ Len(u) \in Nat
  BY DEF T!Names
<1>2. SubSeq(u, 1, i) \o SubSeq(u, i + 1, Len(u)) = SubSeq(u, 1, Len(u))
  <2>1. 1 \in 1 .. Len(u) + 1 /\ i \in 1 - 1 .. Len(u) /\ Len(u) \in i .. Len(u)
    BY <1>1
  <2> QED  BY <1>1, <2>1, ConcatAdjacentSubSeq
<1>3. SubSeq(u, 1, Len(u)) = u
  BY <1>1, SubSeqFull
<1> QED  BY <1>2, <1>3

\* The place of a part that is not in what precedes.
LEMMA FirstOf ==
    ASSUME NEW u \in T!Names, NEW x, NEW i \in DOMAIN u, u[i] = x,
           \A j \in 1 .. i - 1 : u[j] # x
    PROVE  T!First(u, x) = i
<1>1. DOMAIN u = 1 .. Len(u) /\ Len(u) \in Nat
  BY DEF T!Names
<1>2. ASSUME NEW k \in DOMAIN u, u[k] = x, \A j \in 1 .. k - 1 : u[j] # x
      PROVE  k = i
  <2>1. ~(k < i) /\ ~(i < k)
    BY <1>1, <1>2
  <2> QED  BY <1>1, <2>1
<1> DEFINE P(k) == u[k] = x /\ \A j \in 1 .. k - 1 : u[j] # x
<1>3. (CHOOSE k \in DOMAIN u : P(k)) = i
  <2>1. P(i) /\ \A k \in DOMAIN u : P(k) => k = i
    BY <1>2
  <2> HIDE DEF P
  <2> QED  BY <2>1
<1> QED  BY <1>3 DEF T!First

\* Where a part first occurs, or that it does not.
LEMMA FirstFact ==
    ASSUME NEW u \in T!Names, NEW x
    PROVE  \/ T!First(u, x) = 0 /\ \A i \in DOMAIN u : u[i] # x
           \/ /\ T!First(u, x) \in DOMAIN u /\ u[T!First(u, x)] = x
              /\ \A j \in 1 .. T!First(u, x) - 1 : u[j] # x
<1>1. DOMAIN u = 1 .. Len(u) /\ Len(u) \in Nat
  BY DEF T!Names
<1>2. CASE \A i \in DOMAIN u : u[i] # x
  BY <1>2 DEF T!First
<1>3. CASE \E i \in DOMAIN u : u[i] = x
  <2> DEFINE all == {i \in DOMAIN u : u[i] = x}
  <2>1. all \in SUBSET Nat /\ all # {}
    BY <1>1, <1>3
  <2>2. PICK i \in all : \A k \in all : i <= k
    BY <2>1, Least
  <2>3. i \in DOMAIN u /\ u[i] = x
    BY <2>2
  <2>4. \A j \in 1 .. i - 1 : u[j] # x
    BY <1>1, <2>2, <2>3
  <2>5. T!First(u, x) = i
    BY <2>3, <2>4, FirstOf
  <2> QED  BY <2>3, <2>4, <2>5
<1> QED  BY <1>2, <1>3

\* A bridged URI, taken apart: what is up to "://", the alias and the rest.
LEMMA SplitOf ==
    ASSUME NEW p \in T!Names, NEW a \in T!Names, NEW v \in T!Names,
           Len(p) > 0, p[Len(p)] = "://", \A j \in 1 .. Len(p) - 1 : p[j] # "://",
           a # <<>>, \A j \in DOMAIN a : a[j] # "/"
    PROVE  T!SplitQualifiedURI(p \o (a \o (<<"/">> \o v))) =
              {[alias |-> a, uri |-> IF SubSeq(p, 1, Len(p) - 1) = <<"sandrpod">> THEN v ELSE p \o v]}
<1> DEFINE w == <<"/">> \o v
           rest == a \o w
           fq == p \o rest
           n == Len(p)
           m == Len(a)
<1>0. <<"/">> \in T!Names /\ Len(<<"/">>) = 1 /\ <<"/">>[1] = "/"
  BY ToolsAssumption, Parted
<1>1. /\ w \in T!Names /\ Len(w) = Len(v) + 1 /\ Len(v) \in Nat /\ w[1] = "/"
      /\ SubSeq(w, 2, Len(w)) = v
  BY <1>0, AfterPrefix
<1> HIDE DEF w
<1>2. /\ rest \in T!Names /\ Len(rest) = m + Len(w) /\ m \in Nat
      /\ DOMAIN rest = 1 .. m + Len(w)
      /\ SubSeq(rest, 1, m) = a /\ SubSeq(rest, m + 1, Len(rest)) = w
      /\ \A i \in 1 .. m : rest[i] = a[i]
      /\ \A i \in 1 .. Len(w) : rest[m + i] = w[i]
  BY <1>1, AfterPrefix
<1> HIDE DEF rest
<1>3. m > 0 /\ DOMAIN a = 1 .. m
  BY <1>2, EmptySeq, LenProperties DEF T!Names
<1> DEFINE j == m + 1
<1>4. T!First(rest, "/") = j
  <2>1. rest[j] = "/" /\ j \in DOMAIN rest
    BY <1>1, <1>2
  <2>2. \A i \in 1 .. j - 1 : rest[i] # "/"
    BY <1>2, <1>3
  <2> HIDE DEF j
  <2> QED  BY <1>2, <2>1, <2>2, FirstOf
<1>5. SubSeq(rest, m + 2, Len(rest)) = v
  <2> DEFINE l == SubSeq(rest, m + 2, Len(rest))
  <2>1. \A i \in 1 .. Len(v) : rest[m + 1 + i] = v[i]
    <3>1. \A i \in 1 .. Len(v) : w[1 + i] = v[i]
      BY <1>0, AfterPrefix DEF w
    <3> QED  BY <1>1, <1>2, <3>1
  <2>2. /\ l \in T!Names /\ Len(l) = Len(v)
        /\ \A i \in 1 .. Len(l) : l[i] = rest[m + 1 + i]
    <3>1. Len(rest) = m + Len(v) + 1 /\ m + 2 \in Nat \ {0} /\ Len(rest) \in Nat
      BY <1>1, <1>2
    <3> HIDE DEF m
    <3>2. /\ l \in T!Names
          /\ Len(l) = IF m + 2 <= Len(rest) THEN Len(rest) - (m + 2) + 1 ELSE 0
          /\ \A i \in 1 .. Len(rest) - (m + 2) + 1 : l[i] = rest[m + 2 + i - 1]
      BY <1>2, <3>1, SubName
    <3> HIDE DEF l
    <3> QED  BY <1>1, <1>2, <3>1, <3>2
  <2> HIDE DEF l
  <2>3. \A i \in 1 .. Len(l) : l[i] = v[i]
    BY <2>1, <2>2
  <2>4. l = v
    BY <2>2, <2>3, SameParts
  <2> QED  BY <2>4 DEF l
<1>6. /\ fq \in T!Names /\ Len(fq) = n + Len(rest) /\ n \in Nat
      /\ DOMAIN fq = 1 .. n + Len(rest)
      /\ SubSeq(fq, 1, n) = p /\ SubSeq(fq, n + 1, Len(fq)) = rest
      /\ \A i \in 1 .. n : fq[i] = p[i]
  <2>1. /\ fq \in T!Names /\ Len(fq) = n + Len(rest) /\ n \in Nat
        /\ DOMAIN fq = 1 .. n + Len(rest)
    BY <1>2, AfterPrefix
  <2>2. SubSeq(fq, 1, n) = p /\ SubSeq(fq, n + 1, Len(fq)) = rest
    BY <1>2, AfterPrefix
  <2>3. \A i \in 1 .. n : fq[i] = p[i]
    BY <1>2, AfterPrefix
  <2> QED  BY <2>1, <2>2, <2>3
<1>7. T!First(fq, "://") = n
  <2>1. n \in DOMAIN fq /\ fq[n] = "://"
    BY <1>2, <1>1, <1>6
  <2>2. \A i \in 1 .. n - 1 : fq[i] # "://"
    BY <1>6
  <2> QED  BY <1>6, <2>1, <2>2, FirstOf
<1>8. SubSeq(fq, 1, n - 1) = SubSeq(p, 1, n - 1)
  <2> DEFINE k == SubSeq(fq, 1, n - 1)
             l == SubSeq(p, 1, n - 1)
  <2>1. k \in T!Names /\ l \in T!Names /\ Len(k) = n - 1 /\ Len(l) = n - 1
    BY <1>6 DEF T!Names
  <2>2. \A i \in 1 .. n - 1 : k[i] = l[i]
    BY <1>6
  <2> HIDE DEF k, l
  <2> QED  BY <1>6, <2>1, <2>2, SameParts
<1>9. SubSeq(rest, j + 1, Len(rest)) = v /\ SubSeq(rest, 1, j - 1) = a
  <2>1. j + 1 = m + 2 /\ j - 1 = m
    BY <1>2
  <2> HIDE DEF j
  <2> QED  BY <1>2, <1>5, <2>1, Zenon
<1> HIDE DEF fq, n, m
<1>10. n # 0 /\ ~(m + 1 <= 1) /\ m + 1 - 1 = m
  BY <1>2, <1>3 DEF n, m
<1>11. T!SplitQualifiedURI(fq) =
          {[alias |-> a, uri |-> IF SubSeq(p, 1, n - 1) = <<"sandrpod">> THEN v ELSE p \o v]}
  <2>1. /\ n = T!First(fq, "://") /\ rest = SubSeq(fq, n + 1, Len(fq))
        /\ j = T!First(rest, "/") /\ ~(n = 0 \/ j <= 1)
    BY <1>4, <1>6, <1>7, <1>10
  <2> HIDE DEF j
  <2>2. T!SplitQualifiedURI(fq) =
           {[alias |-> SubSeq(rest, 1, j - 1),
             uri |-> IF SubSeq(fq, 1, n - 1) = <<"sandrpod">> THEN SubSeq(rest, j + 1, Len(rest))
                     ELSE SubSeq(fq, 1, n) \o SubSeq(rest, j + 1, Len(rest))]}
    BY <2>1 DEF T!SplitQualifiedURI
  <2> QED  BY <1>6, <1>8, <1>9, <2>2, Zenon
<1> QED  BY <1>11 DEF fq, n, rest, w

\* The way back from a bridged URI.
LEMMA WayBackOf ==
    ASSUME NEW a \in T!Names, NEW u \in T!Names, a # <<>>, \A j \in DOMAIN a : a[j] # "/"
    PROVE  T!SplitQualifiedURI(T!FullyQualifiedURI(a, u)) = {[alias |-> a, uri |-> u]}
<1> DEFINE i == T!First(u, "://")
           s == <<"/">>
<1>0. s \in T!Names
  BY ToolsAssumption, Parted
<1>1. ASSUME NEW p \in T!Names, NEW v \in T!Names
      PROVE  ((p \o a) \o s) \o v = p \o (a \o (s \o v))
  <2> HIDE DEF s
  <2> DEFINE pa == p \o a
             sv == s \o v
  <2>1. pa \in T!Names
    BY AfterPrefix
  <2>2. sv \in T!Names
    BY <1>0, AfterPrefix
  <2>3. (pa \o s) \o v = pa \o (s \o v)
    <3> HIDE DEF pa, sv
    <3> QED  BY <1>0, <2>1, JoinAssociative
  <2>4. (p \o a) \o sv = p \o (a \o sv)
    <3> HIDE DEF pa, sv
    <3> QED  BY <2>2, JoinAssociative
  <2> QED  BY <2>3, <2>4
<1>2. DOMAIN u = 1 .. Len(u) /\ Len(u) \in Nat
  BY DEF T!Names
<1>3. i = 0 \/ (i \in 1 .. Len(u) /\ u[i] = "://" /\ \A j \in 1 .. i - 1 : u[j] # "://")
  BY <1>2, FirstFact
<1> HIDE DEF i
<1>4. CASE i > 0 /\ SubSeq(u, 1, i - 1) # <<"sandrpod">>
  <2> DEFINE p == SubSeq(u, 1, i)
             v == SubSeq(u, i + 1, Len(u))
  <2>1. i \in 1 .. Len(u) /\ i \in Nat
    BY <1>2, <1>3, <1>4
  <2>2. /\ p \in T!Names /\ Len(p) = i /\ p[i] = "://"
        /\ \A j \in 1 .. i : p[j] = u[j]
    BY <1>2, <1>3, <2>1 DEF T!Names
  <2>3. v \in T!Names
    BY <1>2, <2>1 DEF T!Names
  <2>4. p \o v = u
    BY <2>1, TwoHalves
  <2>5. SubSeq(p, 1, i - 1) = SubSeq(u, 1, i - 1)
    <3> DEFINE k == SubSeq(p, 1, i - 1)
               l == SubSeq(u, 1, i - 1)
    <3>1. k \in T!Names /\ l \in T!Names /\ Len(k) = i - 1 /\ Len(l) = i - 1
      BY <1>2, <2>1, <2>2 DEF T!Names
    <3>2. \A j \in 1 .. i - 1 : k[j] = l[j]
      BY <2>1, <2>2
    <3> HIDE DEF k, l
    <3> QED  BY <2>1, <3>1, <3>2, SameParts
  <2>6. T!FullyQualifiedURI(a, u) = ((p \o a) \o s) \o v
    BY <1>4, Zenon DEF T!FullyQualifiedURI, i
  <2>7. \A j \in 1 .. Len(p) - 1 : p[j] # "://"
    BY <1>3, <2>1, <2>2
  <2> HIDE DEF p, v
  <2>8. T!SplitQualifiedURI(p \o (a \o (s \o v))) = {[alias |-> a, uri |-> p \o v]}
    <3>1. Len(p) > 0 /\ p[Len(p)] = "://" /\ SubSeq(p, 1, Len(p) - 1) # <<"sandrpod">>
      BY <1>4, <2>1, <2>2, <2>5
    <3> QED  BY <2>2, <2>3, <2>7, <3>1, SplitOf
  <2> QED  BY <1>1, <2>2, <2>3, <2>4, <2>6, <2>8
<1>5. CASE ~(i > 0 /\ SubSeq(u, 1, i - 1) # <<"sandrpod">>)
  <2> DEFINE p == <<"sandrpod", "://">>
  <2>0. "sandrpod" \in Words /\ "://" \in Words
    BY ToolsAssumption
  <2>1. p \in T!Names /\ Len(p) = 2 /\ p[1] = "sandrpod" /\ p[2] = "://"
    BY <2>0, Parted
  <2>2. SubSeq(p, 1, 1) = <<"sandrpod">>
    BY <2>0, FirstPart
  <2>3. T!FullyQualifiedURI(a, u) = ((p \o a) \o s) \o u
    BY <1>5, Zenon DEF T!FullyQualifiedURI, i
  <2>4. "sandrpod" # "://"
    OBVIOUS
  <2> HIDE DEF p
  <2>5. T!SplitQualifiedURI(p \o (a \o (s \o u))) = {[alias |-> a, uri |-> u]}
    <3>1. /\ Len(p) > 0 /\ p[Len(p)] = "://" /\ SubSeq(p, 1, Len(p) - 1) = <<"sandrpod">>
          /\ \A j \in 1 .. Len(p) - 1 : p[j] # "://"
      BY <2>1, <2>2, <2>4
    <3> QED  BY <2>1, <3>1, SplitOf
  <2> QED  BY <1>1, <2>1, <2>3, <2>5
<1> QED  BY <1>4, <1>5

\* A bridged URI tells the alias and the URI.
LEMMA URIApart ==
    ASSUME NEW a \in T!Names, NEW u \in T!Names, a # <<>>, \A j \in DOMAIN a : a[j] # "/",
           NEW b \in T!Names, NEW v \in T!Names, b # <<>>, \A j \in DOMAIN b : b[j] # "/",
           T!FullyQualifiedURI(a, u) = T!FullyQualifiedURI(b, v)
    PROVE  a = b /\ u = v
<1>1. {[alias |-> a, uri |-> u]} = {[alias |-> b, uri |-> v]}
  BY WayBackOf
<1>2. [alias |-> a, uri |-> u] = [alias |-> b, uri |-> v]
  BY <1>1
<1> QED  BY <1>2

-----------------------------------------------------------------------------
(* The bridge's calls: the invariant *)

\* What a child of server s may keep of what it is offered.
Kept(s) == {th \in UNION Offers[s] : ~T!Denied(s, th.kind, th.name)}

\* The entry of a listing for a thing, and all there may be.
Interface(s, th) == IF th.ui = <<>> THEN <<>> ELSE T!FullyQualifiedURI(AliasOf[s], th.ui)
Entry(s, th) == [kind |-> th.kind, srv |-> s, fq |-> T!Bridged(s, th), ui |-> Interface(s, th)]
Entries == UNION {{Entry(s, th) : th \in Kept(s)} : s \in T!Servers}

Child    == [gen : Nat, ready : BOOLEAN, has : SUBSET T!Things]
Callee   == {<<>>} \cup {<<s>> : s \in T!Servers}
Call     == [pc : {"free", "call", "count", "flying", "done"}, kind : {"tool", "prompt", "resource"},
             ui : Callee, srv : Callee, gen : Nat, name : T!Names, early : BOOLEAN, cut : BOOLEAN]
Drain    == [pc : {"up", "drain", "down"}, left : SUBSET (T!Servers \X Nat),
             late : SUBSET (T!Servers \X Nat)]

\* The types.  The index is the one of the children, a listing has entries for
\* what they may keep, and a call under way holds a child.
ToolsTypes ==
    /\ kid \in [T!Servers -> Child]
    /\ \A s \in T!Servers : kid[s].has \subseteq Kept(s) /\ (kid[s].gen = 0 => ~kid[s].ready)
    /\ index = T!RebuildIndex(kid)
    /\ sync \in [due : BOOLEAN, read : SUBSET SUBSET Entries]
    /\ shown \subseteq Entries
    /\ req \in [Reqs -> Call]
    /\ \A r \in Reqs : req[r].pc \in {"call", "count", "flying"} => req[r].srv # <<>>
    /\ drain \in Drain
    /\ moves \in Nat

\* The call of r on a child as Shutdown names it.
Held(r) == <<req[r].srv[1], req[r].gen>>

\* What Shutdown found in flight is waited for or reported until it ends, and
\* nothing is cut before the children are stopped.
DrainInv ==
    /\ \A r \in Reqs :
          /\ req[r].early \/ req[r].cut => req[r].pc = "flying"
          /\ req[r].early => drain.pc # "up"
          /\ req[r].cut => drain.pc = "down"
          /\ req[r].early /\ drain.pc = "drain" => Held(r) \in drain.left \cup drain.late
    /\ drain.pc = "drain" /\ drain.left # {} => drain.late = {}
    /\ T!DrainSpares

\* A call for an interface is for the server of the tool, and a call that was
\* checked is for something that no denylist names.
CallInv ==
    \A r \in Reqs :
       /\ req[r].ui # <<>> => req[r].srv = req[r].ui
       /\ req[r].pc \in {"count", "flying"} => ~T!Denied(req[r].srv[1], req[r].kind, req[r].name)

ToolsInv == ToolsTypes /\ DrainInv

\* A bridged URI is a name ...
LEMMA URIType ==
    ASSUME NEW a \in T!Names, NEW u \in T!Names
    PROVE  T!FullyQualifiedURI(a, u) \in T!Names
<1> DEFINE i == T!First(u, "://")
           s == <<"/">>
           w == <<"sandrpod", "://">>
<1>1. s \in T!Names /\ w \in T!Names
  BY ToolsAssumption, Parted
<1>2. i \in 0 .. Len(u) /\ Len(u) \in Nat
  BY FirstFact DEF T!Names
<1> HIDE DEF i, s, w
<1>3. SubSeq(u, 1, i) \in T!Names /\ SubSeq(u, i + 1, Len(u)) \in T!Names
  BY <1>2, SubName
<1>4. /\ ((SubSeq(u, 1, i) \o a) \o s) \o SubSeq(u, i + 1, Len(u)) \in T!Names
      /\ ((w \o a) \o s) \o u \in T!Names
  BY <1>1, <1>3, AfterPrefix
<1> QED  BY <1>4 DEF T!FullyQualifiedURI, i, s, w

\* ... and so is what a URI leads back to.
LEMMA SplitType ==
    ASSUME NEW fq \in T!Names, NEW p \in T!SplitQualifiedURI(fq)
    PROVE  p.uri \in T!Names
<1> DEFINE i == T!First(fq, "://")
           rest == SubSeq(fq, i + 1, Len(fq))
           j == T!First(rest, "/")
           tail == SubSeq(rest, j + 1, Len(rest))
<1>1. i \in 0 .. Len(fq) /\ Len(fq) \in Nat
  BY FirstFact DEF T!Names
<1>2. p.uri = tail \/ p.uri = SubSeq(fq, 1, i) \o tail
  <2> DEFINE uri == IF SubSeq(fq, 1, i - 1) = <<"sandrpod">> THEN tail ELSE SubSeq(fq, 1, i) \o tail
  <2>1. T!SplitQualifiedURI(fq) = IF i = 0 \/ j <= 1 THEN {}
                                  ELSE {[alias |-> SubSeq(rest, 1, j - 1), uri |-> uri]}
    BY Zenon DEF T!SplitQualifiedURI
  <2>2. uri = tail \/ uri = SubSeq(fq, 1, i) \o tail
    OBVIOUS
  <2> HIDE DEF uri, tail, i, rest, j
  <2>3. p.uri = uri
    BY <2>1
  <2> QED  BY <2>2, <2>3
<1> HIDE DEF i
<1>3. SubSeq(fq, 1, i) \in T!Names /\ rest \in T!Names
  BY <1>1, SubName
<1> HIDE DEF rest
<1>4. j \in 0 .. Len(rest) /\ Len(rest) \in Nat
  BY <1>3, FirstFact DEF T!Names
<1> HIDE DEF j
<1>5. tail \in T!Names
  BY <1>3, <1>4, SubName
<1> HIDE DEF tail
<1>6. SubSeq(fq, 1, i) \o tail \in T!Names
  BY <1>3, <1>5, AfterPrefix
<1> QED  BY <1>2, <1>5, <1>6

\* What a host makes of a template is a name.
LEMMA ExpandType == ASSUME NEW u \in T!Names  PROVE T!Expand(u) \in T!Names
<1>1. DOMAIN u = 1 .. Len(u) /\ Len(u) \in Nat /\ \A i \in 1 .. Len(u) : u[i] \in Words
  BY DEF T!Names
<1>2. T!Expand(u) \in [1 .. Len(u) -> Words]
  BY <1>1, ToolsAssumption DEF T!Expand
<1> QED  BY <1>1, <1>2, SeqDef DEF T!Names

\* What the configuration is made of.
LEMMA ServerTypes ==
    ASSUME NEW s \in T!Servers
    PROVE  /\ s \in Words /\ AliasOf[s] \in T!Names /\ AliasOf[s] # <<>>
           /\ Kept(s) \subseteq T!Things
<1>1. /\ Order \in Seq(Words) /\ AliasOf[s] \in T!Names \ {<<>>}
      /\ \A offer \in Offers[s] : offer \subseteq T!Things
  BY ToolsAssumption
<1> QED  BY <1>1 DEF T!Servers, Kept

\* The bridged name of a thing is a name.
LEMMA BridgedType ==
    ASSUME NEW s \in T!Servers, NEW th \in T!Things
    PROVE  T!Bridged(s, th) \in T!Names
<1>1. AliasOf[s] \in T!Names /\ th.name \in T!Names
  BY ServerTypes DEF T!Things
<1>2. T!FullyQualifiedName(AliasOf[s], th.name) \in T!Names
  BY <1>1, AfterPrefix DEF T!FullyQualifiedName
<1>3. T!FullyQualifiedURI(AliasOf[s], th.name) \in T!Names
  BY <1>1, URIType
<1> QED  BY <1>2, <1>3 DEF T!Bridged

\* With aliases apart, a bridged URI tells the server.
LEMMA ServerOfURI ==
    ASSUME T!AliasesApart, NEW s \in T!Servers, NEW t \in T!Servers,
           NEW u \in T!Names, NEW v \in T!Names,
           T!FullyQualifiedURI(AliasOf[s], u) = T!FullyQualifiedURI(AliasOf[t], v)
    PROVE  s = t /\ u = v
<1>1. /\ AliasOf[s] \in T!Names /\ AliasOf[s] # <<>> /\ \A j \in DOMAIN AliasOf[s] : AliasOf[s][j] # "/"
      /\ AliasOf[t] \in T!Names /\ AliasOf[t] # <<>> /\ \A j \in DOMAIN AliasOf[t] : AliasOf[t][j] # "/"
  BY ServerTypes DEF T!AliasesApart
<1>2. AliasOf[s] = AliasOf[t] /\ u = v
  BY <1>1, URIApart
<1> QED  BY <1>2 DEF T!AliasesApart

\* Two things of one kind with the same bridged name, of one server, have the
\* same name.
LEMMA SameName ==
    ASSUME T!AliasesApart, NEW s \in T!Servers, NEW th \in T!Things, NEW h \in T!Things,
           th.kind = h.kind, T!Bridged(s, th) = T!Bridged(s, h)
    PROVE  th.name = h.name
<1>1. AliasOf[s] \in T!Names /\ th.name \in T!Names /\ h.name \in T!Names
  BY ServerTypes DEF T!Things
<1>2. CASE th.kind \in {"tool", "prompt"}
  <2>1. AliasOf[s] \o th.name = AliasOf[s] \o h.name
    BY <1>2 DEF T!Bridged, T!FullyQualifiedName
  <2> QED  BY <1>1, <2>1, ConcatSimplifications DEF T!Names
<1>3. CASE th.kind \notin {"tool", "prompt"}
  BY <1>1, <1>3, ServerOfURI DEF T!Bridged
<1> QED  BY <1>2, <1>3

\* A suffix tells its server, and what it was put behind.
LEMMA SuffixFact ==
    ASSUME NEW u \in T!Names, NEW s \in Words
    PROVE  LET fq == u \o <<"from", s>>
           IN  fq \in T!Names /\ Len(fq) > 1 /\ fq[Len(fq) - 1] = "from" /\ fq[Len(fq)] = s
<1> DEFINE x == <<"from", s>>
           fq == u \o x
<1>1. x \in T!Names /\ Len(x) = 2 /\ x[1] = "from" /\ x[2] = s
  BY ToolsAssumption, Parted
<1> HIDE DEF x
<1>2. /\ fq \in T!Names /\ Len(fq) = Len(u) + 2 /\ Len(u) \in Nat
      /\ \A i \in 1 .. 2 : fq[Len(u) + i] = x[i]
  <2>1. /\ fq \in T!Names /\ Len(fq) = Len(u) + Len(x) /\ Len(u) \in Nat
        /\ \A i \in 1 .. Len(x) : fq[Len(u) + i] = x[i]
    BY <1>1, AfterPrefix
  <2> HIDE DEF fq
  <2> QED  BY <1>1, <2>1
<1> HIDE DEF fq
<1>3. Len(fq) > 1 /\ fq[Len(fq) - 1] = "from" /\ fq[Len(fq)] = s
  <2>1. Len(fq) - 1 = Len(u) + 1 /\ Len(fq) = Len(u) + 2 /\ 1 \in 1 .. 2 /\ 2 \in 1 .. 2
    BY <1>2
  <2>2. fq[Len(u) + 1] = "from" /\ fq[Len(u) + 2] = s
    BY <1>1, <1>2
  <2> QED  BY <1>2, <2>1, <2>2
<1> QED  BY <1>2, <1>3 DEF fq, x

\* What has a suffix tells where the suffix begins.
LEMMA SuffixApart ==
    ASSUME NEW u \in T!Names, NEW s \in Words, NEW v \in T!Names, NEW t \in Words,
           u \o <<"from", s>> = v \o <<"from", t>>
    PROVE  s = t /\ u = v
<1>1. s = t
  <2> DEFINE f == u \o <<"from", s>>
             g == v \o <<"from", t>>
  <2>1. f[Len(f)] = s
    BY SuffixFact
  <2>2. g[Len(g)] = t
    BY SuffixFact
  <2>3. f = g
    OBVIOUS
  <2> HIDE DEF f, g
  <2> QED  BY <2>1, <2>2, <2>3
<1> DEFINE x == <<"from", s>>
<1>2. x \in T!Names
  BY ToolsAssumption, Parted
<1>3. u \o x = v \o x
  BY <1>1
<1> HIDE DEF x
<1>4. u = v
  BY <1>2, <1>3, ConcatSimplifications DEF T!Names
<1> QED  BY <1>1, <1>4

\* Of two servers one comes before the other, and not both.
LEMMA BeforeFact ==
    ASSUME NEW s \in T!Servers, NEW t \in T!Servers
    PROVE  /\ s # t => T!Before(s, t) \/ T!Before(t, s)
           /\ T!Before(s, t) => s # t
<1>1. /\ DOMAIN Order = 1 .. Len(Order) /\ Len(Order) \in Nat
      /\ \A i, j \in DOMAIN Order : Order[i] = Order[j] => i = j
  <2>1. Order \in Seq(Words) /\ \A i, j \in DOMAIN Order : Order[i] = Order[j] => i = j
    BY ToolsAssumption
  <2> QED  BY <2>1, LenProperties
<1>2. PICK i \in DOMAIN Order : Order[i] = s
  BY DEF T!Servers
<1>3. PICK j \in DOMAIN Order : Order[j] = t
  BY DEF T!Servers
<1>4. s # t => i < j \/ j < i
  BY <1>1, <1>2, <1>3
<1>5. s # t => T!Before(s, t) \/ T!Before(t, s)
  BY <1>2, <1>3, <1>4 DEF T!Before
<1>6. T!Before(s, t) => s # t
  BY <1>1 DEF T!Before
<1> QED  BY <1>5, <1>6

\* Children k keep what they may.
Kids(k) == \A s \in T!Servers : k[s].has \subseteq Kept(s)

\* A row of the index, and whether it gets a suffix.
Taken(k, s, th) == \E t \in T!Ready(k) : /\ T!Before(t, s)
                                         /\ \E h \in k[t].has : /\ h.kind = th.kind
                                                                /\ T!Bridged(t, h) = T!Bridged(s, th)
Indexable(k, s) == {h \in k[s].has : h.kind # "template"}
Row(k, s, th) ==
    [kind |-> th.kind, srv |-> s, name |-> th.name,
     fq |-> T!Bridged(s, th) \o IF Taken(k, s, th) THEN <<"from", s>> ELSE <<>>]

\* The index is the rows of the ready servers.
LEMMA IndexRows ==
    ASSUME NEW k
    PROVE  T!RebuildIndex(k) = UNION {{Row(k, s, th) : th \in Indexable(k, s)} : s \in T!Ready(k)}
BY Zenon DEF T!RebuildIndex, Row, Taken, Indexable

\* What is in the index.
LEMMA RowOf ==
    ASSUME NEW k, NEW e
    PROVE  e \in T!RebuildIndex(k) <=>
              \E s \in T!Ready(k) : \E th \in k[s].has : th.kind # "template" /\ e = Row(k, s, th)
BY IndexRows DEF Indexable

\* What a row is for.
LEMMA RowFields ==
    ASSUME NEW k, NEW s, NEW th
    PROVE  Row(k, s, th).kind = th.kind /\ Row(k, s, th).srv = s /\ Row(k, s, th).name = th.name
BY DEF Row

\* What has a row, or none.
LEMMA KeptTypes ==
    ASSUME NEW k, Kids(k), NEW s \in T!Servers, NEW th \in k[s].has
    PROVE  th \in T!Things /\ T!Bridged(s, th) \in T!Names /\ s \in Words
BY ServerTypes, BridgedType DEF Kids

\* The name of a row.
LEMMA RowName ==
    ASSUME NEW k, Kids(k), NEW s \in T!Servers, NEW th \in k[s].has
    PROVE  Row(k, s, th).fq = IF Taken(k, s, th) THEN T!Bridged(s, th) \o <<"from", s>>
                              ELSE T!Bridged(s, th)
<1>1. T!Bridged(s, th) \in T!Names
  BY KeptTypes
<1>2. T!Bridged(s, th) \o <<>> = T!Bridged(s, th)
  BY <1>1, ConcatEmptySeq DEF T!Names
<1> QED  BY <1>2 DEF Row

\* Rows for the same kind and name of a server are the same.
LEMMA SameRow ==
    ASSUME NEW k, NEW s, NEW th, NEW h, th.kind = h.kind, th.name = h.name
    PROVE  Row(k, s, th) = Row(k, s, h)
<1>1. T!Bridged(s, th) = T!Bridged(s, h)
  BY DEF T!Bridged
<1>2. Taken(k, s, th) = Taken(k, s, h)
  BY <1>1 DEF Taken
<1> QED  BY <1>1, <1>2 DEF Row

\* A name that something else has gets a suffix unless it was first.
LEMMA FirstHasIt ==
    ASSUME NEW k, NEW s \in T!Ready(k), NEW t \in T!Ready(k), NEW th \in k[s].has, NEW h \in k[t].has,
           th.kind = h.kind, T!Bridged(s, th) = T!Bridged(t, h), ~Taken(k, s, th), ~Taken(k, t, h)
    PROVE  s = t
<1>1. s \in T!Servers /\ t \in T!Servers
  BY DEF T!Ready
<1>2. ~T!Before(s, t) /\ ~T!Before(t, s)
  BY DEF Taken
<1> QED  BY <1>1, <1>2, BeforeFact

\* A name without a suffix does not end like one that has one.
LEMMA NoSuffix ==
    ASSUME T!SuffixesApart, NEW k, Kids(k), NEW s \in T!Servers, NEW t \in T!Servers,
           NEW th \in k[s].has, th.kind # "template", NEW u \in T!Names
    PROVE  T!Bridged(s, th) # u \o <<"from", t>>
<1> DEFINE fq == T!Bridged(s, th)
<1>1. PICK o \in Offers[s] : th \in o
  BY DEF Kids, Kept
<1>2. ~(Len(fq) > 1 /\ fq[Len(fq) - 1] = "from" /\ fq[Len(fq)] = t)
  BY <1>1 DEF T!SuffixesApart
<1> HIDE DEF fq
<1>3. t \in Words
  BY ServerTypes
<1> DEFINE g == u \o <<"from", t>>
<1>4. Len(g) > 1 /\ g[Len(g) - 1] = "from" /\ g[Len(g)] = t
  BY <1>3, SuffixFact
<1> HIDE DEF g
<1>5. fq # g
  BY <1>2, <1>4
<1> QED  BY <1>5 DEF fq, g

\* A name in the index stands for one thing.
LEMMA OneRow ==
    ASSUME T!AliasesApart, T!SuffixesApart, NEW k, Kids(k),
           NEW e \in T!RebuildIndex(k), NEW f \in T!RebuildIndex(k), e.kind = f.kind, e.fq = f.fq
    PROVE  e = f
<1>1. PICK s \in T!Ready(k) : \E x \in k[s].has : x.kind # "template" /\ e = Row(k, s, x)
  BY RowOf
<1>2. PICK th \in k[s].has : th.kind # "template" /\ e = Row(k, s, th)
  BY <1>1
<1>3. PICK t \in T!Ready(k) : \E x \in k[t].has : x.kind # "template" /\ f = Row(k, t, x)
  BY RowOf
<1>4. PICK h \in k[t].has : h.kind # "template" /\ f = Row(k, t, h)
  BY <1>3
<1>5. s \in T!Servers /\ t \in T!Servers
  BY DEF T!Ready
<1>6. /\ th \in T!Things /\ T!Bridged(s, th) \in T!Names /\ s \in Words /\ e.kind = th.kind
      /\ e.fq = IF Taken(k, s, th) THEN T!Bridged(s, th) \o <<"from", s>> ELSE T!Bridged(s, th)
  <2>1. th \in T!Things /\ T!Bridged(s, th) \in T!Names /\ s \in Words
    BY <1>5, KeptTypes
  <2>2. e.kind = th.kind
    BY <1>2, RowFields
  <2>3. e.fq = IF Taken(k, s, th) THEN T!Bridged(s, th) \o <<"from", s>> ELSE T!Bridged(s, th)
    BY <1>2, <1>5, RowName
  <2> QED  BY <2>1, <2>2, <2>3
<1>7. /\ h \in T!Things /\ T!Bridged(t, h) \in T!Names /\ t \in Words /\ f.kind = h.kind
      /\ f.fq = IF Taken(k, t, h) THEN T!Bridged(t, h) \o <<"from", t>> ELSE T!Bridged(t, h)
  <2>1. h \in T!Things /\ T!Bridged(t, h) \in T!Names /\ t \in Words
    BY <1>5, KeptTypes
  <2>2. f.kind = h.kind
    BY <1>4, RowFields
  <2>3. f.fq = IF Taken(k, t, h) THEN T!Bridged(t, h) \o <<"from", t>> ELSE T!Bridged(t, h)
    BY <1>4, <1>5, RowName
  <2> QED  BY <2>1, <2>2, <2>3
<1>8. s = t /\ T!Bridged(s, th) = T!Bridged(t, h)
  <2>1. CASE ~Taken(k, s, th) /\ ~Taken(k, t, h)
    BY <1>6, <1>7, <2>1, FirstHasIt
  <2>2. CASE Taken(k, s, th) /\ Taken(k, t, h)
    <3> DEFINE u == T!Bridged(s, th)
               v == T!Bridged(t, h)
    <3>1. u \o <<"from", s>> = v \o <<"from", t>>
      BY <1>6, <1>7, <2>2
    <3>2. u \in T!Names /\ v \in T!Names /\ s \in Words /\ t \in Words
      BY <1>6, <1>7
    <3> HIDE DEF u, v
    <3>3. s = t /\ u = v
      BY <3>1, <3>2, SuffixApart
    <3> QED  BY <3>3 DEF u, v
  <2>3. CASE Taken(k, s, th) /\ ~Taken(k, t, h)
    BY <1>4, <1>5, <1>6, <1>7, <2>3, NoSuffix
  <2>4. CASE ~Taken(k, s, th) /\ Taken(k, t, h)
    BY <1>2, <1>5, <1>6, <1>7, <2>4, NoSuffix
  <2> QED  BY <2>1, <2>2, <2>3, <2>4
<1>9. th.name = h.name
  BY <1>5, <1>6, <1>7, <1>8, SameName
<1> QED  BY <1>2, <1>4, <1>6, <1>7, <1>8, <1>9, SameRow

\* Everything but a template has one row.
LEMMA RowsOf ==
    ASSUME NEW k, Kids(k), NEW s \in T!Ready(k), NEW th \in k[s].has, th.kind # "template"
    PROVE  {e \in T!RebuildIndex(k) : e.kind = th.kind /\ e.srv = s /\ e.name = th.name} = {Row(k, s, th)}
<1>1. Row(k, s, th) \in T!RebuildIndex(k)
  BY RowOf
<1>2. /\ Row(k, s, th) \in T!RebuildIndex(k) /\ Row(k, s, th).kind = th.kind
      /\ Row(k, s, th).srv = s /\ Row(k, s, th).name = th.name
  BY <1>1, RowFields
<1>3. ASSUME NEW e \in T!RebuildIndex(k), e.kind = th.kind, e.srv = s, e.name = th.name
      PROVE  e = Row(k, s, th)
  <2>1. PICK t \in T!Ready(k) : \E x \in k[t].has : x.kind # "template" /\ e = Row(k, t, x)
    BY RowOf
  <2>2. PICK h \in k[t].has : h.kind # "template" /\ e = Row(k, t, h)
    BY <2>1
  <2>3. e.kind = h.kind /\ e.srv = t /\ e.name = h.name
    BY <2>2, RowFields
  <2> QED  BY <1>3, <2>2, <2>3, SameRow
<1> QED  BY <1>2, <1>3

-----------------------------------------------------------------------------
(* The bridge's calls: initially *)

\* A listing has entries for what the children keep.
LEMMA ListingFact ==
    ASSUME NEW k, Kids(k)
    PROVE  T!Listing(k) \subseteq Entries
<1> SUFFICES ASSUME NEW e \in T!Listing(k)
             PROVE  \E s \in T!Servers : \E th \in Kept(s) : e = Entry(s, th)
  BY DEF Entries
<1>1. PICK s \in T!Ready(k) : \E th \in k[s].has : e = Entry(s, th)
  BY DEF T!Listing, Entry, Interface
<1> QED  BY <1>1 DEF T!Ready, Kids

\* What a new child has.
LEMMA NewChild ==
    ASSUME NEW s \in T!Servers, NEW o \in Offers[s], NEW g \in Nat \ {0}
    PROVE  LET c == [gen |-> g, ready |-> TRUE, has |-> T!Filter(s, o)]
           IN  c \in Child /\ c.has \subseteq Kept(s) /\ c.gen # 0
<1>1. T!Filter(s, o) \subseteq Kept(s)
  BY DEF T!Filter, Kept
<1>2. T!Filter(s, o) \subseteq T!Things
  BY <1>1, ServerTypes
<1> QED  BY <1>1, <1>2 DEF Child

\* No child is a child with nothing.
LEMMA GoneChild == T!Gone \in Child /\ T!Gone.has = {} /\ T!Gone.gen = 0 /\ ~T!Gone.ready
BY DEF T!Gone, Child

\* A call that is not under way.
LEMMA Idle ==
    /\ T!NoReq \in Call /\ T!NoReq.pc = "free" /\ T!NoReq.ui = <<>> /\ ~T!NoReq.early /\ ~T!NoReq.cut
    /\ T!Finished \in Call /\ T!Finished.pc = "done" /\ T!Finished.ui = <<>>
    /\ ~T!Finished.early /\ ~T!Finished.cut
<1>1. <<>> \in T!Names /\ <<>> \in Callee /\ 0 \in Nat
  BY EmptySeq DEF T!Names, Callee
<1>2. T!NoReq \in Call /\ T!NoReq.pc = "free" /\ T!NoReq.ui = <<>> /\ ~T!NoReq.early /\ ~T!NoReq.cut
  BY <1>1 DEF T!NoReq, Call
<1>3. /\ T!Finished \in Call /\ T!Finished.pc = "done" /\ T!Finished.ui = T!NoReq.ui
      /\ T!Finished.early = T!NoReq.early /\ T!Finished.cut = T!NoReq.cut
  BY <1>2 DEF T!Finished, Call
<1> QED  BY <1>2, <1>3

\* The invariant holds when the bridge starts.
LEMMA ToolsInit == ASSUME T!Init  PROVE ToolsInv /\ CallInv
<1>1. /\ index = T!RebuildIndex(kid) /\ sync = [due |-> FALSE, read |-> {}]
      /\ shown = T!Listing(kid) /\ req = [r \in Reqs |-> T!NoReq]
      /\ drain = [pc |-> "up", left |-> {}, late |-> {}] /\ moves = 0
  BY DEF T!Init
<1>2. /\ kid \in [T!Servers -> Child]
      /\ \A s \in T!Servers : kid[s].has \subseteq Kept(s) /\ (kid[s].gen = 0 => ~kid[s].ready)
  <2>1. CASE kid = [s \in T!Servers |-> T!Gone]
    BY <2>1, GoneChild
  <2>2. ASSUME NEW offer, \A s \in T!Servers : offer[s] \in Offers[s],
               kid = [s \in T!Servers |-> [gen |-> 1, ready |-> TRUE, has |-> T!Filter(s, offer[s])]]
        PROVE  /\ kid \in [T!Servers -> Child]
               /\ \A s \in T!Servers : kid[s].has \subseteq Kept(s) /\ (kid[s].gen = 0 => ~kid[s].ready)
    <3>1. ASSUME NEW s \in T!Servers
          PROVE  kid[s] \in Child /\ kid[s].has \subseteq Kept(s) /\ kid[s].gen # 0
      BY <2>2, NewChild
    <3> QED  BY <2>2, <3>1
  <2> QED  BY <2>1, <2>2 DEF T!Init
<1>3. shown \subseteq Entries
  BY <1>1, <1>2, ListingFact DEF Kids
<1>4. req \in [Reqs -> Call] /\ \A r \in Reqs : req[r] = T!NoReq
  BY <1>1, Idle
<1>5. ToolsTypes
  BY <1>1, <1>2, <1>3, <1>4, Idle DEF ToolsTypes, Drain
<1>6. DrainInv
  BY <1>1, <1>4, Idle DEF DrainInv, T!DrainSpares
<1>7. CallInv
  BY <1>4, Idle DEF CallInv
<1> QED  BY <1>5, <1>6, <1>7 DEF ToolsInv

-----------------------------------------------------------------------------
(* The bridge's calls: children and listings *)

\* Children k that are as they may be become the bridge's.
LEMMA RebuildStep ==
    ASSUME ToolsInv, NEW k, T!Rebuild(k), UNCHANGED <<shown, req, drain>>, k \in [T!Servers -> Child],
           \A s \in T!Servers : k[s].has \subseteq Kept(s) /\ (k[s].gen = 0 => ~k[s].ready)
    PROVE  ToolsInv' /\ (CallInv => CallInv')
<1>1. /\ ToolsTypes /\ DrainInv /\ kid' = k /\ index' = T!RebuildIndex(k)
      /\ sync' = [sync EXCEPT !.due = TRUE] /\ moves' = moves + 1
  BY DEF ToolsInv, T!Rebuild
<1>2. sync' \in [due : BOOLEAN, read : SUBSET SUBSET Entries]
  BY <1>1 DEF ToolsTypes
<1>3. ToolsTypes'
  BY <1>1, <1>2 DEF ToolsTypes
<1>4. DrainInv' /\ (CallInv => CallInv')
  BY <1>1 DEF DrainInv, CallInv, T!DrainSpares, Held
<1> QED  BY <1>3, <1>4 DEF ToolsInv

\* A child comes or goes.
LEMMA KidStep ==
    ASSUME ToolsInv, NEW s \in T!Servers, T!Replace(s) \/ T!Disable(s)
    PROVE  ToolsInv' /\ (CallInv => CallInv')
<1>0. /\ kid \in [T!Servers -> Child] /\ moves \in Nat
      /\ \A t \in T!Servers : kid[t].has \subseteq Kept(t) /\ (kid[t].gen = 0 => ~kid[t].ready)
  BY DEF ToolsInv, ToolsTypes
<1>1. ASSUME NEW c \in Child, c.has \subseteq Kept(s), c.gen = 0 => ~c.ready,
             T!Rebuild([kid EXCEPT ![s] = c]), UNCHANGED <<shown, req, drain>>
      PROVE  ToolsInv' /\ (CallInv => CallInv')
  <2> DEFINE k == [kid EXCEPT ![s] = c]
  <2>1. /\ k \in [T!Servers -> Child]
        /\ \A t \in T!Servers : k[t].has \subseteq Kept(t) /\ (k[t].gen = 0 => ~k[t].ready)
    BY <1>0, <1>1
  <2> HIDE DEF k
  <2>2. T!Rebuild(k)
    BY <1>1 DEF k
  <2> QED  BY <1>1, <2>1, <2>2, RebuildStep
<1>2. CASE T!Replace(s)
  <2>1. PICK o \in Offers[s] :
           T!Rebuild([kid EXCEPT ![s] = [gen |-> moves + 2, ready |-> TRUE, has |-> T!Filter(s, o)]])
    BY <1>2 DEF T!Replace
  <2> DEFINE c == [gen |-> moves + 2, ready |-> TRUE, has |-> T!Filter(s, o)]
  <2>2. moves + 2 \in Nat \ {0}
    BY <1>0
  <2>3. c \in Child /\ c.has \subseteq Kept(s) /\ c.gen # 0
    BY <2>2, NewChild
  <2>4. T!Rebuild([kid EXCEPT ![s] = c]) /\ UNCHANGED <<shown, req, drain>>
    BY <1>2, <2>1 DEF T!Replace
  <2> HIDE DEF c
  <2> QED  BY <1>1, <2>3, <2>4
<1>3. CASE T!Disable(s)
  BY <1>1, <1>3, GoneChild DEF T!Disable
<1> QED  BY <1>2, <1>3

\* The aggregator's callback reads or writes.
LEMMA SyncStep ==
    ASSUME ToolsInv, T!SyncReads \/ T!SyncWrites
    PROVE  ToolsInv' /\ (CallInv => CallInv')
<1>1. /\ ToolsTypes /\ DrainInv /\ UNCHANGED <<kid, index, req, drain, moves>>
  BY DEF ToolsInv, T!SyncReads, T!SyncWrites
<1>2. sync' \in [due : BOOLEAN, read : SUBSET SUBSET Entries] /\ shown' \subseteq Entries
  <2>0. sync \in [due : BOOLEAN, read : SUBSET SUBSET Entries] /\ shown \subseteq Entries
    BY <1>1 DEF ToolsTypes
  <2>1. CASE T!SyncReads
    <3>1. Kids(kid)
      BY <1>1 DEF ToolsTypes, Kids
    <3>2. T!Listing(kid) \subseteq Entries
      BY <3>1, ListingFact
    <3> QED  BY <2>0, <2>1, <3>2 DEF T!SyncReads
  <2>2. CASE T!SyncWrites
    BY <2>0, <2>2 DEF T!SyncWrites
  <2> QED  BY <2>1, <2>2
<1>3. ToolsTypes'
  BY <1>1, <1>2 DEF ToolsTypes
<1>4. DrainInv' /\ (CallInv => CallInv')
  BY <1>1 DEF DrainInv, CallInv, T!DrainSpares, Held
<1> QED  BY <1>3, <1>4 DEF ToolsInv

-----------------------------------------------------------------------------
(* The bridge's calls: a call moves on *)

\* What a host asks for.
LEMMA AskFact ==
    ASSUME ToolsTypes, NEW a \in T!Asks
    PROVE  /\ a.kind \in {"tool", "prompt", "resource"} /\ a.fq \in T!Names /\ a.ui \in Callee
           /\ a.ui # <<>> => /\ a.kind = "resource"
                             /\ \E s \in T!Servers : \E u \in T!Names :
                                   a.ui = <<s>> /\ a.fq = T!FullyQualifiedURI(AliasOf[s], u)
<1>1. ASSUME NEW e \in shown
      PROVE  \E s \in T!Servers : \E th \in T!Things : e = Entry(s, th)
  BY ServerTypes DEF ToolsTypes, Entries
<1>2. ASSUME NEW e \in shown,
             a = [kind |-> IF e.kind = "template" THEN "resource" ELSE e.kind,
                  fq |-> T!Expand(e.fq), ui |-> <<>>]
      PROVE  a.kind \in {"tool", "prompt", "resource"} /\ a.fq \in T!Names /\ a.ui = <<>>
  <2>1. PICK s \in T!Servers, th \in T!Things : e = Entry(s, th)
    BY <1>1
  <2>2. e.kind = th.kind /\ e.fq = T!Bridged(s, th)
    BY <2>1 DEF Entry
  <2>3. T!Expand(e.fq) \in T!Names
    BY <2>2, BridgedType, ExpandType
  <2>4. th.kind \in {"tool", "prompt", "resource", "template"}
    BY DEF T!Things
  <2> QED  BY <1>2, <2>2, <2>3, <2>4
<1>3. ASSUME NEW e \in shown, e.ui # <<>>, a = [kind |-> "resource", fq |-> e.ui, ui |-> <<e.srv>>]
      PROVE  /\ a.kind = "resource" /\ a.fq \in T!Names
             /\ \E s \in T!Servers : \E u \in T!Names :
                   a.ui = <<s>> /\ a.fq = T!FullyQualifiedURI(AliasOf[s], u)
  <2>1. PICK s \in T!Servers, th \in T!Things : e = Entry(s, th)
    BY <1>1
  <2>2. e.srv = s /\ e.ui = Interface(s, th)
    BY <2>1 DEF Entry
  <2>3. e.ui = T!FullyQualifiedURI(AliasOf[s], th.ui)
    BY <1>3, <2>2 DEF Interface
  <2>4. th.ui \in T!Names /\ AliasOf[s] \in T!Names
    BY ServerTypes DEF T!Things
  <2> QED  BY <1>3, <2>2, <2>3, <2>4, URIType
<1>4. <<>> \in Callee /\ \A s \in T!Servers : <<s>> \in Callee
  BY DEF Callee
<1>5. CASE \E e \in shown : a = [kind |-> IF e.kind = "template" THEN "resource" ELSE e.kind,
                                 fq |-> T!Expand(e.fq), ui |-> <<>>]
  BY <1>2, <1>4, <1>5
<1>6. CASE \E e \in shown : e.ui # <<>> /\ a = [kind |-> "resource", fq |-> e.ui, ui |-> <<e.srv>>]
  BY <1>3, <1>4, <1>6
<1> QED  BY <1>5, <1>6 DEF T!Asks

\* A target is a server and a name there.
LEMMA TargetFact ==
    ASSUME ToolsTypes, NEW a, a.fq \in T!Names, NEW t \in T!Targets(a)
    PROVE  t.srv \in T!Servers /\ t.name \in T!Names
<1>0. Kids(kid) /\ index = T!RebuildIndex(kid)
  BY DEF ToolsTypes, Kids
<1>1. CASE \E e \in index : t = [srv |-> e.srv, name |-> e.name]
  <2>1. PICK e \in index : t = [srv |-> e.srv, name |-> e.name]
    BY <1>1
  <2>2. PICK s \in T!Ready(kid) : \E x \in kid[s].has : x.kind # "template" /\ e = Row(kid, s, x)
    BY <1>0, RowOf
  <2>3. PICK th \in kid[s].has : e = Row(kid, s, th)
    BY <2>2
  <2>4. s \in T!Servers
    BY DEF T!Ready
  <2>5. th \in T!Things /\ Row(kid, s, th).srv = s /\ Row(kid, s, th).name = th.name
    BY <1>0, <2>4, KeptTypes, RowFields
  <2> QED  BY <2>1, <2>3, <2>4, <2>5 DEF T!Things
<1>2. CASE \E s \in T!ByAlias(a.fq), p \in T!SplitQualifiedURI(a.fq) : t = [srv |-> s, name |-> p.uri]
  BY <1>2, SplitType DEF T!ByAlias, T!Ready
<1> QED  BY <1>1, <1>2 DEF T!Targets

\* With aliases apart, the interface of a tool of server s leads to s.
LEMMA InterfaceTarget ==
    ASSUME T!AliasesApart, ToolsTypes, NEW a, a.kind = "resource", NEW s \in T!Servers, NEW u \in T!Names,
           a.fq = T!FullyQualifiedURI(AliasOf[s], u), NEW t \in T!Targets(a)
    PROVE  t.srv = s
<1>0. Kids(kid) /\ index = T!RebuildIndex(kid)
  BY DEF ToolsTypes, Kids
<1>1. CASE \E e \in index : e.kind = a.kind /\ e.fq = a.fq /\ t = [srv |-> e.srv, name |-> e.name]
  <2>1. PICK e \in index : e.kind = a.kind /\ e.fq = a.fq /\ t = [srv |-> e.srv, name |-> e.name]
    BY <1>1
  <2>2. PICK x \in T!Ready(kid) : \E y \in kid[x].has : y.kind # "template" /\ e = Row(kid, x, y)
    BY <1>0, RowOf
  <2>3. PICK th \in kid[x].has : e = Row(kid, x, th)
    BY <2>2
  <2>4. x \in T!Servers
    BY DEF T!Ready
  <2>5. /\ th \in T!Things /\ e.srv = x /\ e.kind = th.kind
        /\ ~Taken(kid, x, th) => e.fq = T!Bridged(x, th)
    <3>1. th \in T!Things
      BY <1>0, <2>4, KeptTypes
    <3>2. e.srv = x /\ e.kind = th.kind
      BY <2>3, RowFields
    <3>3. e.fq = IF Taken(kid, x, th) THEN T!Bridged(x, th) \o <<"from", x>> ELSE T!Bridged(x, th)
      BY <1>0, <2>3, <2>4, RowName
    <3> QED  BY <3>1, <3>2, <3>3
  <2>6. th.kind = "resource" /\ th.name \in T!Names
    BY <2>1, <2>5 DEF T!Things
  <2>7. ~Taken(kid, x, th)
    <3> SUFFICES ASSUME NEW y \in T!Ready(kid), T!Before(y, x), NEW h \in kid[y].has,
                        h.kind = th.kind, T!Bridged(y, h) = T!Bridged(x, th)
                 PROVE  FALSE
      BY DEF Taken
    <3>1. y \in T!Servers
      BY DEF T!Ready
    <3>2. h \in T!Things
      BY <1>0, <3>1, KeptTypes
    <3>3. h.name \in T!Names /\ T!FullyQualifiedURI(AliasOf[y], h.name) = T!FullyQualifiedURI(AliasOf[x], th.name)
      BY <2>6, <3>2 DEF T!Bridged, T!Things
    <3>4. y = x
      BY <2>4, <2>6, <3>1, <3>3, ServerOfURI
    <3> QED  BY <2>4, <3>1, <3>4, BeforeFact
  <2>8. T!FullyQualifiedURI(AliasOf[x], th.name) = T!FullyQualifiedURI(AliasOf[s], u)
    BY <2>1, <2>5, <2>6, <2>7 DEF T!Bridged
  <2>9. x = s
    BY <2>4, <2>6, <2>8, ServerOfURI
  <2> QED  BY <2>1, <2>5, <2>9
<1>2. CASE \E x \in T!ByAlias(a.fq), p \in T!SplitQualifiedURI(a.fq) : t = [srv |-> x, name |-> p.uri]
  <2>1. PICK x \in T!ByAlias(a.fq) : t.srv = x
    BY <1>2
  <2>2. x \in T!Servers /\ \E p \in T!SplitQualifiedURI(a.fq) : p.alias = AliasOf[x]
    BY DEF T!ByAlias, T!Ready
  <2>3. T!SplitQualifiedURI(a.fq) = {[alias |-> AliasOf[s], uri |-> u]}
    BY ServerTypes, WayBackOf DEF T!AliasesApart
  <2>4. AliasOf[x] = AliasOf[s]
    BY <2>2, <2>3
  <2> QED  BY <2>1, <2>2, <2>4 DEF T!AliasesApart
<1> QED  BY <1>1, <1>2 DEF T!Targets

\* With templates apart, what a child exposes is not denied.
LEMMA KnownFact ==
    ASSUME T!TemplatesApart, ToolsTypes, NEW r \in Reqs, req[r].srv # <<>>, T!Known(r)
    PROVE  ~T!Denied(req[r].srv[1], req[r].kind, req[r].name)
<1> DEFINE s == req[r].srv[1]
<1>1. s \in T!Servers
  <2>1. req[r].srv \in Callee
    BY DEF ToolsTypes, Call
  <2> QED  BY <2>1 DEF Callee
<1>2. T!Mine(r).has \subseteq Kept(s)
  BY <1>1 DEF T!Mine, T!Gone, ToolsTypes
<1>3. PICK th \in Kept(s) :
         \/ th.kind = req[r].kind /\ th.name = req[r].name
         \/ th.kind = "template" /\ req[r].kind = "resource" /\ T!TemplateMatches(th.name, req[r].name)
  BY <1>2 DEF T!Known
<1>4. CASE th.kind = req[r].kind /\ th.name = req[r].name
  BY <1>4 DEF Kept
<1>5. CASE th.kind = "template" /\ req[r].kind = "resource" /\ T!TemplateMatches(th.name, req[r].name)
  <2>1. PICK o \in Offers[s] : th \in o
    BY DEF Kept
  <2>2. \A h \in Hidden[s] : h.kind = "resource" => ~T!TemplateMatches(th.name, h.name)
    BY <1>1, <1>5, <2>1 DEF T!TemplatesApart
  <2> QED  BY <1>5, <2>2 DEF T!Denied
<1> QED  BY <1>3, <1>4, <1>5

\* The call c takes the place of r's.
Moved(r, c) ==
    /\ req' = [req EXCEPT ![r] = c]
    /\ UNCHANGED <<kid, index, sync, shown, drain, moves>>

\* A call that was looked up, or one that gets to the next step.
LookedUp(c) == \E a \in T!Asks : \E t \in T!Targets(a) :
                  c = [pc |-> "call", kind |-> a.kind, ui |-> a.ui, srv |-> <<t.srv>>, gen |-> kid[t.srv].gen,
                       name |-> t.name, early |-> FALSE, cut |-> FALSE]
Further(r, c, p) == /\ c.pc = p /\ c.kind = req[r].kind /\ c.ui = req[r].ui /\ c.srv = req[r].srv
                    /\ c.gen = req[r].gen /\ c.name = req[r].name
                    /\ c.early = req[r].early /\ c.cut = req[r].cut

\* Any step of a call.
LEMMA Moves ==
    ASSUME ToolsTypes, NEW r \in Reqs,
           T!Dispatch(r) \/ T!Steps(r) \/ T!Answers(r) \/ T!Leaves(r)
    PROVE  \E c \in Call :
              /\ Moved(r, c)
              /\ \/ c = T!Finished
                 \/ LookedUp(c)
                 \/ req[r].pc = "call" /\ T!Known(r) /\ Further(r, c, "count")
                 \/ req[r].pc = "count" /\ Further(r, c, "flying")
<1>0. req[r] \in Call
  BY DEF ToolsTypes
<1>1. ASSUME NEW c \in Call, NEW pc, T!Move(r, pc, c)
      PROVE  Moved(r, c) /\ req[r].pc = pc
  BY <1>1 DEF T!Move, Moved
<1>2. ASSUME NEW pc, T!Move(r, pc, T!Finished)
      PROVE  Moved(r, T!Finished) /\ T!Finished \in Call
  BY <1>2, Idle DEF T!Move, Moved
<1>3. ASSUME NEW p \in {"count", "flying"}
      PROVE  [req[r] EXCEPT !.pc = p] \in Call /\ Further(r, [req[r] EXCEPT !.pc = p], p)
  BY <1>0 DEF Call, Further
<1>4. CASE T!Dispatch(r)
  <2>1. CASE \E a \in T!Asks : T!Move(r, "free", T!Finished)
    BY <1>2, <2>1
  <2>2. ASSUME NEW a \in T!Asks, NEW t \in T!Targets(a),
               T!Move(r, "free", [pc |-> "call", kind |-> a.kind, ui |-> a.ui, srv |-> <<t.srv>>,
                                  gen |-> kid[t.srv].gen, name |-> t.name, early |-> FALSE, cut |-> FALSE])
        PROVE  \E c \in Call : Moved(r, c) /\ LookedUp(c)
    <3> DEFINE c == [pc |-> "call", kind |-> a.kind, ui |-> a.ui, srv |-> <<t.srv>>, gen |-> kid[t.srv].gen,
                     name |-> t.name, early |-> FALSE, cut |-> FALSE]
    <3>1. T!Move(r, "free", c)
      BY <2>2
    <3>2. /\ a.kind \in {"tool", "prompt", "resource"} /\ a.ui \in Callee
          /\ t.srv \in T!Servers /\ t.name \in T!Names
      BY AskFact, TargetFact
    <3>3. <<t.srv>> \in Callee /\ kid[t.srv].gen \in Nat
      BY <3>2 DEF Callee, ToolsTypes, Child
    <3>4. c \in Call
      BY <3>2, <3>3 DEF Call
    <3>5. LookedUp(c)
      BY DEF LookedUp
    <3> HIDE DEF c
    <3> QED  BY <1>1, <3>1, <3>4, <3>5
  <2> QED  BY <1>4, <2>1, <2>2 DEF T!Dispatch
<1>5. CASE T!CallChecks(r)
  <2>1. CASE T!Move(r, "call", T!Finished)
    BY <1>2, <2>1
  <2>2. CASE T!Known(r) /\ T!Move(r, "call", [req[r] EXCEPT !.pc = "count"])
    BY <1>1, <1>3, <2>2
  <2> QED  BY <1>5, <2>1, <2>2 DEF T!CallChecks
<1>6. CASE T!CallBegins(r)
  BY <1>1, <1>3, <1>6 DEF T!CallBegins
<1>7. CASE T!Breaks(r) \/ T!Answers(r) \/ T!Leaves(r)
  BY <1>2, <1>7 DEF T!Breaks, T!Answers, T!Leaves
<1> QED  BY <1>4, <1>5, <1>6, <1>7 DEF T!Steps

\* A step of a call keeps the invariant.
LEMMA MoveStep ==
    ASSUME ToolsInv, NEW r \in Reqs,
           T!Dispatch(r) \/ T!Steps(r) \/ T!Answers(r) \/ T!Leaves(r)
    PROVE  ToolsInv'
<1>0. ToolsTypes /\ DrainInv
  BY DEF ToolsInv
<1>1. PICK c \in Call :
         /\ Moved(r, c)
         /\ \/ c = T!Finished
            \/ LookedUp(c)
            \/ req[r].pc = "call" /\ T!Known(r) /\ Further(r, c, "count")
            \/ req[r].pc = "count" /\ Further(r, c, "flying")
  BY <1>0, Moves
<1>2. /\ ~c.early /\ ~c.cut
      /\ c.pc \in {"call", "count", "flying"} => c.srv # <<>>
  <2>1. CASE c = T!Finished
    BY <2>1, Idle
  <2>2. CASE LookedUp(c)
    BY <2>2 DEF LookedUp
  <2>3. CASE req[r].pc \in {"call", "count"} /\ Further(r, c, c.pc)
    BY <1>0, <2>3 DEF Further, DrainInv, ToolsTypes
  <2> QED  BY <1>1, <2>1, <2>2, <2>3 DEF Further
<1>3. /\ req' \in [Reqs -> Call] /\ req'[r] = c
      /\ \A q \in Reqs : q # r => req'[q] = req[q]
  BY <1>0, <1>1 DEF Moved, ToolsTypes
<1>4. UNCHANGED <<kid, index, sync, shown, drain, moves>>
  BY <1>1 DEF Moved
<1>5. ToolsTypes'
  <2>1. \A q \in Reqs : req'[q].pc \in {"call", "count", "flying"} => req'[q].srv # <<>>
    BY <1>0, <1>2, <1>3 DEF ToolsTypes
  <2> QED  BY <1>0, <1>3, <1>4, <2>1 DEF ToolsTypes
<1>6. DrainInv'
  BY <1>0, <1>2, <1>3, <1>4 DEF DrainInv, T!DrainSpares, Held
<1> QED  BY <1>5, <1>6 DEF ToolsInv

\* What a call reaches stays what it may reach.
LEMMA MoveCalls ==
    ASSUME T!AliasesApart, T!TemplatesApart, ToolsInv, CallInv, NEW r \in Reqs,
           T!Dispatch(r) \/ T!Steps(r) \/ T!Answers(r) \/ T!Leaves(r)
    PROVE  CallInv'
<1>0. ToolsTypes
  BY DEF ToolsInv
<1>1. PICK c \in Call :
         /\ Moved(r, c)
         /\ \/ c = T!Finished
            \/ LookedUp(c)
            \/ req[r].pc = "call" /\ T!Known(r) /\ Further(r, c, "count")
            \/ req[r].pc = "count" /\ Further(r, c, "flying")
  BY <1>0, Moves
<1>2. /\ c.ui # <<>> => c.srv = c.ui
      /\ c.pc \in {"count", "flying"} => ~T!Denied(c.srv[1], c.kind, c.name)
  <2>1. CASE c = T!Finished
    BY <2>1, Idle
  <2>2. CASE LookedUp(c)
    <3>1. PICK a \in T!Asks : \E t \in T!Targets(a) :
                  c = [pc |-> "call", kind |-> a.kind, ui |-> a.ui, srv |-> <<t.srv>>, gen |-> kid[t.srv].gen,
                       name |-> t.name, early |-> FALSE, cut |-> FALSE]
      BY <2>2 DEF LookedUp
    <3>2. PICK t \in T!Targets(a) : c.pc = "call" /\ c.ui = a.ui /\ c.srv = <<t.srv>>
      BY <3>1
    <3>3. a.ui # <<>> => <<t.srv>> = a.ui
      BY <1>0, AskFact, InterfaceTarget
    <3> QED  BY <3>2, <3>3
  <2>3. CASE req[r].pc = "call" /\ T!Known(r) /\ Further(r, c, "count")
    <3>1. req[r].srv # <<>>
      BY <1>0, <2>3 DEF ToolsTypes
    <3>2. ~T!Denied(req[r].srv[1], req[r].kind, req[r].name)
      BY <1>0, <2>3, <3>1, KnownFact
    <3> QED  BY <2>3, <3>2 DEF Further, CallInv
  <2>4. CASE req[r].pc = "count" /\ Further(r, c, "flying")
    BY <2>4 DEF Further, CallInv
  <2> QED  BY <1>1, <2>1, <2>2, <2>3, <2>4
<1>3. req'[r] = c /\ \A q \in Reqs : q # r => req'[q] = req[q]
  BY <1>0, <1>1 DEF Moved, ToolsTypes
<1> QED  BY <1>2, <1>3 DEF CallInv

-----------------------------------------------------------------------------
(* The bridge's calls: Shutdown *)

\* A mark on every call changes nothing but the mark.
LEMMA MarkStep ==
    ASSUME ToolsTypes, NEW b, \A r \in Reqs : b[r] \in BOOLEAN,
           \/ req' = [r \in Reqs |-> [req[r] EXCEPT !.early = b[r]]]
           \/ req' = [r \in Reqs |-> [req[r] EXCEPT !.cut = b[r]]]
    PROVE  /\ req' \in [Reqs -> Call]
           /\ \A r \in Reqs :
                 /\ req'[r].pc = req[r].pc /\ req'[r].srv = req[r].srv /\ req'[r].ui = req[r].ui
                 /\ req'[r].gen = req[r].gen /\ req'[r].kind = req[r].kind /\ req'[r].name = req[r].name
           /\ \/ \A r \in Reqs : req'[r].early = b[r] /\ req'[r].cut = req[r].cut
              \/ \A r \in Reqs : req'[r].cut = b[r] /\ req'[r].early = req[r].early
<1>0. \A r \in Reqs : req[r] \in Call
  BY DEF ToolsTypes
<1>1. CASE req' = [r \in Reqs |-> [req[r] EXCEPT !.early = b[r]]]
  BY <1>0, <1>1 DEF Call
<1>2. CASE req' = [r \in Reqs |-> [req[r] EXCEPT !.cut = b[r]]]
  BY <1>0, <1>2 DEF Call
<1> QED  BY <1>1, <1>2

\* The child a call holds, if it is still there.
LEMMA MineFact ==
    ASSUME ToolsTypes, NEW r \in Reqs, req[r].pc = "flying"
    PROVE  /\ req[r].srv[1] \in T!Servers /\ req[r].srv = <<req[r].srv[1]>>
           /\ T!Mine(r).gen # 0 => /\ req[r].gen # 0 /\ kid[req[r].srv[1]].gen = req[r].gen
           /\ Held(r) \in T!Servers \X Nat
<1>1. req[r].srv \in Callee /\ req[r].srv # <<>> /\ req[r].gen \in Nat
  BY DEF ToolsTypes, Call
<1>2. PICK s \in T!Servers : req[r].srv = <<s>>
  BY <1>1 DEF Callee
<1>3. req[r].srv[1] = s
  BY <1>2
<1>4. T!Mine(r).gen # 0 => req[r].gen # 0 /\ kid[s].gen = req[r].gen
  BY <1>3, GoneChild DEF T!Mine
<1> QED  BY <1>1, <1>2, <1>3, <1>4 DEF Held

\* Shutdown begins: what is in flight is on a child it waits for.
LEMMA BeginsStep ==
    ASSUME ToolsInv, T!ShutdownBegins
    PROVE  ToolsInv' /\ (CallInv => CallInv')
<1> DEFINE b == [r \in Reqs |-> T!Out(r) /\ T!Mine(r).gen # 0]
           left == {<<s, kid[s].gen>> : s \in {t \in T!Servers : kid[t].gen # 0}}
<1>0. /\ ToolsTypes /\ DrainInv /\ drain.pc = "up"
      /\ drain' = [pc |-> "drain", left |-> left, late |-> {}]
      /\ UNCHANGED <<kid, index, sync, shown, moves>>
  BY DEF ToolsInv, T!ShutdownBegins
<1>1. req' = [r \in Reqs |-> [req[r] EXCEPT !.early = b[r]]] /\ \A r \in Reqs : b[r] \in BOOLEAN
  BY DEF T!ShutdownBegins
<1>2. \A r \in Reqs : b[r] => req[r].pc = "flying" /\ T!Mine(r).gen # 0
  BY DEF T!Out
<1> HIDE DEF b
<1>3. /\ req' \in [Reqs -> Call]
      /\ \A r \in Reqs :
            /\ req'[r].pc = req[r].pc /\ req'[r].srv = req[r].srv /\ req'[r].ui = req[r].ui
            /\ req'[r].gen = req[r].gen /\ req'[r].kind = req[r].kind /\ req'[r].name = req[r].name
  BY <1>0, <1>1, MarkStep
<1>4. \A r \in Reqs : req'[r].early = b[r] /\ req'[r].cut = req[r].cut
  <2>1. \A r \in Reqs : req[r] \in Call
    BY <1>0 DEF ToolsTypes
  <2> QED  BY <1>1, <2>1 DEF Call
<1>5. drain' \in Drain
  <2>1. left \in SUBSET (T!Servers \X Nat)
    BY <1>0 DEF ToolsTypes, Child
  <2> QED  BY <1>0, <2>1 DEF Drain
<1>6. ToolsTypes'
  BY <1>0, <1>3, <1>5 DEF ToolsTypes
<1>7. DrainInv'
  <2>1. ASSUME NEW r \in Reqs, req'[r].early
        PROVE  req'[r].pc = "flying" /\ Held(r)' \in drain'.left
    <3>1. req[r].pc = "flying" /\ T!Mine(r).gen # 0
      BY <1>2, <1>4, <2>1
    <3>2. req[r].srv[1] \in T!Servers /\ req[r].gen # 0 /\ kid[req[r].srv[1]].gen = req[r].gen
      BY <1>0, <3>1, MineFact
    <3>3. <<req[r].srv[1], req[r].gen>> \in left
      BY <3>2
    <3> QED  BY <1>0, <1>3, <3>1, <3>3 DEF Held
  <2>2. \A r \in Reqs : ~req'[r].cut
    BY <1>0, <1>4 DEF DrainInv
  <2> QED  BY <1>0, <2>1, <2>2 DEF DrainInv, T!DrainSpares
<1>8. CallInv => CallInv'
  BY <1>3 DEF CallInv
<1> QED  BY <1>6, <1>7, <1>8 DEF ToolsInv

\* Shutdown waits, or gives up and reports.
LEMMA WaitStep ==
    ASSUME ToolsInv, T!WaitDrain \/ T!DrainTimeout
    PROVE  ToolsInv' /\ (CallInv => CallInv')
<1>0. /\ ToolsTypes /\ DrainInv /\ drain \in Drain /\ drain.pc = "drain"
      /\ UNCHANGED <<kid, index, sync, shown, req, moves>>
  BY DEF ToolsInv, ToolsTypes, T!WaitDrain, T!DrainTimeout
<1>1. ASSUME NEW r \in Reqs, req[r].pc = "flying", NEW c, c = Held(r)
      PROVE  T!InFlight(c[1], c[2]) # {}
  <2>1. c[1] = req[r].srv[1] /\ c[2] = req[r].gen
    BY <1>1 DEF Held
  <2>2. req[r].srv = <<c[1]>>
    BY <1>0, <1>1, <2>1, MineFact
  <2> QED  BY <1>1, <2>1, <2>2 DEF T!InFlight
<1>2. /\ drain' \in Drain /\ drain'.pc = "drain"
      /\ drain'.left # {} => drain'.late = {}
      /\ \A r \in Reqs : req[r].pc = "flying" /\ Held(r) \in drain.left \cup drain.late
                            => Held(r) \in drain'.left \cup drain'.late
  <2>1. CASE T!WaitDrain
    <3>1. PICK c \in drain.left : T!InFlight(c[1], c[2]) = {} /\ drain' = [drain EXCEPT !.left = @ \ {c}]
      BY <2>1 DEF T!WaitDrain
    <3>2. /\ drain' \in Drain /\ drain'.pc = drain.pc /\ drain'.late = drain.late
          /\ drain'.left = drain.left \ {c}
      BY <1>0, <3>1 DEF Drain
    <3>3. \A r \in Reqs : req[r].pc = "flying" => Held(r) # c
      BY <1>1, <3>1
    <3>4. drain.late = {}
      BY <1>0, <3>1 DEF DrainInv
    <3> QED  BY <1>0, <3>2, <3>3, <3>4
  <2>2. CASE T!DrainTimeout
    <3>1. /\ drain.left # {}
          /\ drain' = [drain EXCEPT !.left = {}, !.late = {c \in drain.left : T!InFlight(c[1], c[2]) # {}}]
      BY <2>2 DEF T!DrainTimeout
    <3> DEFINE late == {c \in drain.left : T!InFlight(c[1], c[2]) # {}}
    <3>2. late \subseteq drain.left
      OBVIOUS
    <3>3. \A r \in Reqs : req[r].pc = "flying" /\ Held(r) \in drain.left => Held(r) \in late
      BY <1>1
    <3>4. drain' = [drain EXCEPT !.left = {}, !.late = late]
      BY <3>1
    <3> HIDE DEF late
    <3>5. drain' \in Drain /\ drain'.pc = drain.pc /\ drain'.late = late /\ drain'.left = {}
      BY <1>0, <3>2, <3>4 DEF Drain
    <3>6. drain.late = {}
      BY <1>0, <3>1 DEF DrainInv
    <3> QED  BY <1>0, <3>3, <3>5, <3>6
  <2> QED  BY <2>1, <2>2
<1>3. ToolsTypes'
  BY <1>0, <1>2 DEF ToolsTypes
<1>4. DrainInv'
  <2>1. \A r \in Reqs : ~req[r].cut
    BY <1>0 DEF DrainInv
  <2>2. \A r \in Reqs : req[r].early => Held(r) \in drain'.left \cup drain'.late
    BY <1>0, <1>2 DEF DrainInv
  <2> QED  BY <1>0, <1>2, <2>1, <2>2 DEF DrainInv, T!DrainSpares, Held
<1>5. CallInv => CallInv'
  BY <1>0 DEF CallInv
<1> QED  BY <1>3, <1>4, <1>5 DEF ToolsInv

\* Shutdown stops the children: nobody it waits for is left.
LEMMA EndsStep ==
    ASSUME ToolsInv, T!ShutdownEnds
    PROVE  ToolsInv' /\ (CallInv => CallInv')
<1> DEFINE b == [r \in Reqs |-> T!Out(r) /\ T!Mine(r).ready]
<1>0. /\ ToolsTypes /\ DrainInv /\ drain \in Drain /\ drain.pc = "drain" /\ drain.left = {}
      /\ drain' = [drain EXCEPT !.pc = "down"]
      /\ kid' = [s \in T!Servers |-> T!Gone] /\ index' = {}
      /\ UNCHANGED <<sync, shown, moves>>
  BY DEF ToolsInv, ToolsTypes, T!ShutdownEnds
<1>1. req' = [r \in Reqs |-> [req[r] EXCEPT !.cut = b[r]]]
  BY DEF T!ShutdownEnds
<1>2. \A r \in Reqs : b[r] \in BOOLEAN /\ (b[r] => req[r].pc = "flying")
  <2>1. ASSUME NEW r \in Reqs, T!Out(r)
        PROVE  T!Mine(r).ready \in BOOLEAN
    <3>1. req[r].srv[1] \in T!Servers
      BY <1>0, <2>1, MineFact DEF T!Out
    <3> QED  BY <1>0, <3>1, GoneChild DEF T!Mine, ToolsTypes, Child
  <2> QED  BY <2>1 DEF T!Out
<1> HIDE DEF b
<1>3. /\ req' \in [Reqs -> Call]
      /\ \A r \in Reqs :
            /\ req'[r].pc = req[r].pc /\ req'[r].srv = req[r].srv /\ req'[r].ui = req[r].ui
            /\ req'[r].gen = req[r].gen /\ req'[r].kind = req[r].kind /\ req'[r].name = req[r].name
  BY <1>0, <1>1, <1>2, MarkStep
<1>4. \A r \in Reqs : req'[r].cut = b[r] /\ req'[r].early = req[r].early
  <2>1. \A r \in Reqs : req[r] \in Call
    BY <1>0 DEF ToolsTypes
  <2> QED  BY <1>1, <2>1 DEF Call
<1>5. drain' \in Drain /\ drain'.pc = "down" /\ drain'.late = drain.late
  BY <1>0 DEF Drain
<1>6. T!RebuildIndex(kid') = {}
  <2>1. T!Ready(kid') = {}
    BY <1>0, GoneChild DEF T!Ready
  <2> QED  BY <2>1, RowOf
<1>7. ToolsTypes'
  <2>1. /\ kid' \in [T!Servers -> Child]
        /\ \A s \in T!Servers : kid'[s].has \subseteq Kept(s) /\ ~kid'[s].ready
    BY <1>0, GoneChild
  <2>2. \A r \in Reqs : req'[r].pc \in {"call", "count", "flying"} => req'[r].srv # <<>>
    BY <1>0, <1>3 DEF ToolsTypes
  <2> QED  BY <1>0, <1>3, <1>5, <1>6, <2>1, <2>2 DEF ToolsTypes
<1>8. DrainInv'
  <2>1. ASSUME NEW r \in Reqs
        PROVE  /\ req'[r].early \/ req'[r].cut => req'[r].pc = "flying"
               /\ req'[r].early => Held(r)' \in drain'.late
    BY <1>0, <1>2, <1>3, <1>4, <1>5 DEF DrainInv, Held
  <2> QED  BY <1>5, <2>1 DEF DrainInv, T!DrainSpares, Held
<1>9. CallInv => CallInv'
  BY <1>3 DEF CallInv
<1> QED  BY <1>7, <1>8, <1>9 DEF ToolsInv

\* The invariant is inductive; the part about what is called asks for aliases
\* and templates apart.
LEMMA ToolsStep ==
    ASSUME ToolsInv, [Next]_vars
    PROVE  ToolsInv' /\ (T!AliasesApart /\ T!TemplatesApart /\ CallInv => CallInv')
<1>1. CASE UNCHANGED tvars
  <2>1. ToolsTypes' /\ DrainInv'
    BY <1>1 DEF ToolsInv, tvars, ToolsTypes, DrainInv, T!DrainSpares, Held
  <2>2. CallInv => CallInv'
    BY <1>1 DEF tvars, CallInv
  <2> QED  BY <2>1, <2>2 DEF ToolsInv
<1>2. CASE T!Next
  <2>1. CASE \E s \in T!Servers : T!Replace(s) \/ T!Disable(s)
    BY <2>1, KidStep
  <2>2. CASE T!Syncs
    BY <2>2, SyncStep DEF T!Syncs
  <2>3. CASE T!Drains
    BY <2>3, WaitStep, EndsStep DEF T!Drains
  <2>4. CASE T!ShutdownBegins
    BY <2>4, BeginsStep
  <2>5. CASE \E r \in Reqs : T!Dispatch(r) \/ T!Steps(r) \/ T!Answers(r) \/ T!Leaves(r)
    BY <2>5, MoveStep, MoveCalls
  <2> QED  BY <1>2, <2>1, <2>2, <2>3, <2>4, <2>5 DEF T!Next
<1> QED  BY <1>1, <1>2 DEF Next, vars, tvars

\* What the invariant says of the index, whatever the names are.
LEMMA IndexedFact == ASSUME ToolsInv  PROVE T!Indexed
<1>0. Kids(kid) /\ index = T!RebuildIndex(kid)
  BY DEF ToolsInv, ToolsTypes, Kids
<1> SUFFICES ASSUME NEW s \in T!Ready(kid), NEW th \in kid[s].has, th.kind # "template"
             PROVE  Cardinality({e \in index : e.kind = th.kind /\ e.srv = s /\ e.name = th.name}) = 1
  BY DEF T!Indexed, T!Cardinality, Cardinality
<1>1. {e \in index : e.kind = th.kind /\ e.srv = s /\ e.name = th.name} = {Row(kid, s, th)}
  BY <1>0, RowsOf
<1> QED  BY <1>1, FS_Singleton

\* What the invariant says of the calls, with names apart.
LEMMA RoutedFact ==
    ASSUME T!NamesApart, ToolsInv, CallInv
    PROVE  CallsRouted
<1>0. /\ T!AliasesApart /\ T!SuffixesApart /\ ToolsTypes /\ DrainInv
      /\ Kids(kid) /\ index = T!RebuildIndex(kid)
  BY DEF T!NamesApart, ToolsInv, ToolsTypes, Kids
<1>1. T!WayBack
  <2> SUFFICES ASSUME NEW s \in T!Ready(kid), NEW th \in kid[s].has, th.kind \in {"resource", "template"}
               PROVE  T!SplitQualifiedURI(T!Bridged(s, th)) = {[alias |-> AliasOf[s], uri |-> th.name]}
    BY DEF T!WayBack
  <2>1. s \in T!Servers
    BY DEF T!Ready
  <2>2. th \in T!Things
    BY <1>0, <2>1, KeptTypes
  <2>3. T!Bridged(s, th) = T!FullyQualifiedURI(AliasOf[s], th.name) /\ th.name \in T!Names
    BY <2>2 DEF T!Bridged, T!Things
  <2>4. /\ AliasOf[s] \in T!Names /\ AliasOf[s] # <<>>
        /\ \A j \in DOMAIN AliasOf[s] : AliasOf[s][j] # "/"
    BY <1>0, <2>1, ServerTypes DEF T!AliasesApart
  <2> QED  BY <2>3, <2>4, WayBackOf
<1>2. T!OneMeaning
  BY <1>0, OneRow DEF T!OneMeaning
<1>3. T!NothingDenied /\ T!InterfaceOwn
  BY DEF CallInv, T!NothingDenied, T!InterfaceOwn, T!Out
<1>4. T!DrainSpares
  BY <1>0 DEF DrainInv
<1> QED  BY <1>1, <1>2, <1>3, <1>4, IndexedFact DEF CallsRouted, T!Routed

\* Shutdown, whatever servers, names and calls there are: a call it found in
\* flight is cut only with its server among the reported (Child.WaitDrain).
\* Every tool, prompt and resource of a ready server is in the index once,
\* under a name of its own or one with a suffix (rebuildIndexLocked).
THEOREM ShutdownSpares == Spec => [](T!DrainSpares /\ T!Indexed)
<1>1. Init => ToolsInv
  BY ToolsInit DEF Init
<1>2. ToolsInv /\ [Next]_vars => ToolsInv'
  BY ToolsStep
<1>3. ToolsInv => T!DrainSpares /\ T!Indexed
  BY IndexedFact DEF ToolsInv, DrainInv
<1> QED  BY <1>1, <1>2, <1>3, PTL DEF Spec

\* A call to a bridged name reaches what the name stands for and nothing that a
\* denylist hides, through every replacement, disabling and overlapping sync
\* (DispatchResource, rebuildIndexLocked), when what configuration and servers
\* owe holds (NamesApart).
THEOREM RoutesCalls == ASSUME T!NamesApart PROVE Spec => []CallsRouted
<1>1. Init => ToolsInv /\ CallInv
  BY ToolsInit DEF Init
<1>2. ToolsInv /\ CallInv /\ [Next]_vars => (ToolsInv /\ CallInv)'
  BY ToolsStep DEF T!NamesApart
<1>3. ToolsInv /\ CallInv => CallsRouted
  BY RoutedFact
<1> QED  BY <1>1, <1>2, <1>3, PTL DEF Spec
=============================================================================
