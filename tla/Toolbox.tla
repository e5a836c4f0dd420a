------------------------------- MODULE Toolbox -------------------------------
(***************************************************************************)
(* The toolbox of a sandbox: its programs (Processes), its interpreters    *)
(* (Sessions) and its files (Files).  They share the HTTP server and       *)
(* nothing else: no lock, table or file of one is used by another, so a    *)
(* behaviour of the toolbox restricted to one part is a behaviour of that  *)
(* part, and the parts are looked at one at a time.                        *)
(***************************************************************************)
EXTENDS Integers, Sequences, FiniteSets

CONSTANTS Parts,      \* the parts to look at
          Doors, Subs, MaxOut,
          Kinds, Clients, MaxGens,
          Inside, Outside, MayWrite, MaxFaults,
          MaxCommands, \* bound on commands to interpreters
          MaxCalls    \* bound on requests to one of the other parts

ASSUME ToolboxAssumption ==
    /\ Parts \subseteq {"processes", "sessions", "files"}
    /\ Kinds \subseteq {"shell", "kernel"}
    /\ IsFiniteSet(Inside) /\ Inside # {} /\ Outside \notin Inside
    /\ MayWrite \subseteq Inside \cup {Outside}
    /\ IsFiniteSet(Clients) /\ "nobody" \notin Clients
    /\ {MaxOut, MaxGens, MaxFaults, MaxCommands, MaxCalls} \subseteq Nat

VARIABLES part, calls,
          door, pr, pipe, inp, buf, call, subs,          \* Processes
          kind, reg, gens, inst, cmd, scl, sres,         \* Sessions
          node, dir, data, fcl, fres, watch, faults, hist \* Files

P == INSTANCE Processes
S == INSTANCE Sessions WITH cl <- scl, res <- sres, MaxCalls <- MaxCommands
F == INSTANCE Files WITH cl <- fcl, res <- fres

pvars == <<door, pr, pipe, inp, buf, call, subs>>
svars == <<kind, reg, gens, inst, cmd, scl, sres>>
fvars == <<node, dir, data, fcl, fres, watch, faults, hist>>
vars  == <<part, calls, pvars, svars, fvars>>

Init ==
    /\ part \in Parts /\ calls = 0
    /\ P!Init /\ S!Init /\ F!Init
    /\ part # "sessions" => kind = CHOOSE k \in Kinds : TRUE

Next ==
    /\ UNCHANGED part
    /\ \/ part = "processes" /\ P!Next /\ UNCHANGED <<svars, fvars>>
       \/ part = "sessions" /\ S!Next /\ UNCHANGED <<pvars, fvars>>
       \/ part = "files" /\ F!Next /\ UNCHANGED <<pvars, svars>>

Spec ==
    /\ Init /\ [][Next]_vars
    /\ P!Fairness /\ S!Fairness /\ F!Fairness

-----------------------------------------------------------------------------
(* Properties *)

\* Whoever is told how a program ended has its whole output and is told the
\* truth, over every door that starts one.
ToldAll == P!ToldAll

\* A session's or a kernel's result is that of the command it was asked for.
ResultsTrue == S!ResultsTrue

\* Files hold one request's content, downloads return one, and a watcher
\* neither loses nor repeats a change.
FilesWhole == F!FilesWhole

\* Every request is answered and every stream ends, except for what waits on
\* a program the toolbox does not stop.
RequestsEnd == P!StreamsEnd /\ S!CallsAnswered /\ F!FilesAnswered
=============================================================================
