-------------------------------- MODULE Idle ---------------------------------
(***************************************************************************)
(* A sandbox's last activity and the reaper of idle sandboxes              *)
(* (pkg/server/reclaim.go, sandboxPoderTunnel in main.go): every server    *)
(* writes the activity down at most once in a while, and every server      *)
(* reaps what looks idle in the table they share.                          *)
(*                                                                         *)
(* Time passes in ticks; a handler writes within its tick.  Ages are       *)
(* counted from now and stop where nothing tells them apart.               *)
(*                                                                         *)
(* State: the record (its lifetime, the age of its last activity, whether  *)
(* the sandbox is in a state that may be reaped), whether there is a       *)
(* container; per server when it last wrote the activity down and what its *)
(* reaper has picked; where the tunnel is.                                 *)
(* History: the age of the last use through the native API or of the last  *)
(* E2B timeout; how old it was when a reaper picked the sandbox.           *)
(***************************************************************************)
EXTENDS Integers

CONSTANTS Nodes,
          Every,      \* the interval between writes (activityPersistEvery)
          Default,    \* the lifetime of sandboxes without one of their own
          Own,        \* lifetimes a sandbox may have; 0 for none
          MaxTime     \* bound on ticks

VARIABLES rec, ctr, tun, seen, picked, used, time

vars == <<rec, ctr, tun, seen, picked, used, time>>

Lives == {Default} \cup Own
Long  == 1 + (CHOOSE l \in Lives : \A k \in Lives : k <= l)   \* an age beyond all lifetimes
Older(a) == IF a < Long THEN a + 1 ELSE a

\* The first request of an interval is the one that writes.
ShouldPersistActivity(n) == seen[n] >= Every

\* Mutant of Touch: every request starts the interval again.
TouchSliding(n) ==
    /\ rec.there
    /\ used' = 0
    /\ seen' = [seen EXCEPT ![n] = 0]
    /\ rec' = IF ShouldPersistActivity(n) THEN [rec EXCEPT !.last = 0] ELSE rec
    /\ UNCHANGED <<ctr, tun, picked, time>>

\* A request through the native API.
Touch(n) ==
    /\ rec.there
    /\ used' = 0
    /\ IF ShouldPersistActivity(n)
       THEN seen' = [seen EXCEPT ![n] = 0] /\ rec' = [rec EXCEPT !.last = 0]
       ELSE UNCHANGED <<seen, rec>>
    /\ UNCHANGED <<ctr, tun, picked, time>>

\* E2B: a new lifetime, from now.
SetTimeout ==
    /\ rec.there
    /\ \E l \in Own : rec' = [rec EXCEPT !.life = l, !.last = 0]
    /\ used' = 0
    /\ UNCHANGED <<ctr, tun, seen, picked, time>>

\* Started and stopped: on its way it is not reaped.
StateChanges ==
    /\ rec.there
    /\ rec' = [rec EXCEPT !.settled = ~@]
    /\ UNCHANGED <<ctr, tun, seen, picked, used, time>>

Tick ==
    /\ time < MaxTime
    /\ time' = time + 1
    /\ rec' = [rec EXCEPT !.last = Older(@)]
    /\ seen' = [n \in Nodes |-> IF seen[n] < Every THEN seen[n] + 1 ELSE seen[n]]
    /\ used' = Older(used)
    /\ UNCHANGED <<ctr, tun, picked>>

EffectiveSandboxTTL == IF rec.life > 0 THEN rec.life ELSE Default

ShouldReapSandbox ==
    /\ rec.there /\ rec.settled
    /\ EffectiveSandboxTTL > 0 /\ rec.last > EffectiveSandboxTTL

\* The table is read; what is picked is taken down later, as it was read.
ReapIdleSandboxes(n) ==
    /\ ~picked[n].on /\ ShouldReapSandbox
    /\ picked' = [picked EXCEPT ![n] = [on |-> TRUE, used |-> used, life |-> EffectiveSandboxTTL]]
    /\ UNCHANGED <<rec, ctr, tun, seen, used, time>>

\* The record wherever the tunnel is, the container where the tunnel is.
TeardownSandbox(n) ==
    /\ picked[n].on
    /\ picked' = [picked EXCEPT ![n].on = FALSE]
    /\ rec' = [rec EXCEPT !.there = FALSE]
    /\ ctr' = (ctr /\ tun # n)
    /\ UNCHANGED <<tun, seen, used, time>>

\* The name is free again, and may be given to a new sandbox.
Create ==
    /\ ~rec.there /\ ~ctr
    /\ rec' = [there |-> TRUE, settled |-> TRUE, life |-> 0, last |-> 0]
    /\ ctr' = TRUE /\ used' = 0
    /\ UNCHANGED <<tun, seen, picked, time>>

Init ==
    /\ rec = [there |-> TRUE, settled |-> TRUE, life |-> 0, last |-> 0]
    /\ ctr = TRUE /\ tun \in Nodes
    /\ seen = [n \in Nodes |-> Every]
    /\ picked = [n \in Nodes |-> [on |-> FALSE, used |-> Long, life |-> 0]]
    /\ used = 0 /\ time = 0

Next ==
    \/ \E n \in Nodes : Touch(n) \/ ReapIdleSandboxes(n) \/ TeardownSandbox(n)
    \/ SetTimeout \/ StateChanges \/ Tick \/ Create

Spec == Init /\ [][Next]_vars

-----------------------------------------------------------------------------
(* Properties *)

\* A reaper picks a sandbox only when nobody has used it for its lifetime,
\* less the one interval an unwritten use may be young.
ReapedWhenIdle ==
    \A n \in Nodes : picked[n].on => picked[n].used > picked[n].life - Every
=============================================================================
