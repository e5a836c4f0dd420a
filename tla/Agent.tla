-------------------------------- MODULE Agent --------------------------------
(***************************************************************************)
(* What the agent does beside serving its toolbox: it shows the tools of   *)
(* its MCP servers and passes calls on to them (Tools; Bridge has how one  *)
(* server is kept running), and it records its decisions and uploads them  *)
(* (Audit).  A call waits for neither, and the audit trail is not read by  *)
(* the bridge, so the two are looked at one at a time; what is fair in a   *)
(* part is fair when it is looked at.                                      *)
(***************************************************************************)
EXTENDS Integers, Sequences, FiniteSets

CONSTANTS Parts,      \* the parts to look at
          Events, Bad, MaxLines, BatchSize, Apart, MaxFaults,
          Words, Order, AliasOf, Offers, Hidden, Reqs, MaxMoves

ASSUME AgentAssumption ==
    /\ Parts \subseteq {"audit", "tools"}
    /\ IsFiniteSet(Events) /\ Bad \notin Events
    /\ MaxLines \in Nat \ {0} /\ BatchSize \in Nat \ {0}
    /\ Apart \in BOOLEAN /\ {MaxFaults, MaxMoves} \subseteq Nat

VARIABLES part,
          active, rotated, stamp, writer, cursor, saved, up, delivered, faults, \* Audit
          kid, index, sync, shown, req, drain, moves, overlap                   \* Tools

A == INSTANCE Audit
T == INSTANCE Tools

\* Aliases are not empty; the lists are of tools, prompts and resources.
ASSUME ToolsAssumption ==
    /\ {"sandrpod", "://", "/", "{}", "x", "from"} \subseteq Words
    /\ Order \in Seq(Words) /\ \A i, j \in DOMAIN Order : Order[i] = Order[j] => i = j
    /\ \A s \in T!Servers :
        /\ AliasOf[s] \in T!Names \ {<<>>}
        /\ Offers[s] # {} /\ \A offer \in Offers[s] : offer \subseteq T!Things
        /\ Hidden[s] \subseteq {th \in T!Things : th.kind # "template"}

avars == <<active, rotated, stamp, writer, cursor, saved, up, delivered, faults>>
tvars == <<kid, index, sync, shown, req, drain, moves, overlap>>
vars  == <<part, avars, tvars>>

Init ==
    /\ part \in Parts
    /\ A!Init /\ T!Init
    /\ part # "tools" => shown = {}

Next ==
    /\ UNCHANGED part
    /\ \/ part = "audit" /\ A!Next /\ UNCHANGED tvars
       \/ part = "tools" /\ T!Next /\ UNCHANGED avars

\* The uploader has a step to take from the start.
Spec ==
    /\ Init /\ [][Next]_vars
    /\ WF_avars(part = "audit" /\ A!Pick) /\ A!Fairness
    /\ T!Fairness

-----------------------------------------------------------------------------
(* Properties *)

\* A call to a bridged name reaches what that name stands for and nothing that
\* a denylist hides, and Shutdown cuts a call it found in flight only if it
\* reports the server.
CallsRouted == T!Routed /\ T!DrainSpares

\* At-least-once delivery of audit events, the promise of AuditLog.
ImplementsLog == A!ImplementsLog

\* Events that were written are uploaded unless a fault left the uploader
\* before a file it cannot get past; calls end once the bridge shuts down, and
\* what is shown becomes what the servers offer.
AllSettles == A!Uploads /\ T!ToolsSettle
=============================================================================
