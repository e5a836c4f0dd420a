------------------------------- MODULE Service -------------------------------
(***************************************************************************)
(* What keeps the service going beside the requests themselves: the egress *)
(* proxy (Egress) and the network a worker builds around it (Sidecar), the *)
(* keys that open the API (Access), the sandboxes nobody uses (Idle), the  *)
(* machines of a cloud provider (Cloud) and the machines that join as      *)
(* sandboxes themselves (Direct).  No row, lock or file of one is used by  *)
(* another, so that a behaviour of the service restricted to one part is a *)
(* behaviour of that part, and the parts are looked at one at a time; what *)
(* is fair in a part is fair when it is looked at.                         *)
(***************************************************************************)
EXTENDS Integers, Sequences, FiniteSets

CONSTANTS Parts,      \* the parts to look at
          Nodes, Nowhere,
          Conns, Policies,
          Pods, MaxErrors,
          Keys, NoKeys, MaxEdits, MaxLookups,
          Every, Default, Own, MaxTime,
          Providers, KeyDir, MaxCalls, MaxFaults,
          Window, Retry, Stubborn, Links, MaxMess

VARIABLES part,
          cfg, central, names, addrs, sync, cache, leaf, conn, pool, up,       \* Egress
          inside, net, joined, side, box, noted, op, used, sweep, todo,        \* Sidecar
          errors, cut, bare,
          table, index, news, reload, admin, find, lookups,                    \* Access
          file, edits, watch, early,
          rec, ctr, tun, seen, picked, idle, time,                             \* Idle
          prov, cloud, key, cop, known, out, remote, calls, faults, hist,      \* Cloud
          tomb, direct, owner, row, link, agent, del, mess, since, again,      \* Direct
          crossed

E == INSTANCE Egress
S == INSTANCE Sidecar
A == INSTANCE Access
I == INSTANCE Idle WITH used <- idle
C == INSTANCE Cloud WITH op <- cop
D == INSTANCE Direct

ASSUME ServiceAssumption ==
    /\ Parts \subseteq {"egress", "sidecar", "keys", "file", "idle", "cloud", "direct"}
    /\ \A i \in DOMAIN Policies : /\ Policies[i].allow \cup Policies[i].deny \subseteq E!Hosts
                                  /\ Policies[i].cidr \subseteq E!Addrs
    /\ Pods \cap {"list", "look", "done"} = {}
    /\ \A ks \in SUBSET Keys : NoKeys # ks
    /\ {Every, Default, MaxTime} \subseteq Nat /\ Own \subseteq Nat
    /\ \E l \in {Default} \cup Own : \A k \in {Default} \cup Own : k <= l
    /\ Providers \subseteq C!Names /\ KeyDir \in BOOLEAN
    /\ Nowhere \notin Nodes /\ Stubborn \in BOOLEAN /\ Links \subseteq Nat \ {0}
    /\ {Window, Retry, MaxMess} \subseteq Nat /\ Retry > 0
    /\ MaxMess * Retry < Window  \* the agent is not cut off for a whole window
    /\ {MaxErrors, MaxEdits, MaxLookups, MaxCalls, MaxFaults} \subseteq Nat

evars == <<cfg, central, names, addrs, sync, cache, leaf, conn, pool, up>>
svars == <<inside, net, joined, side, box, noted, op, used, sweep, todo, errors, cut, bare>>
avars == <<table, index, news, reload, admin, find, lookups, file, edits, watch, early>>
ivars == <<rec, ctr, tun, seen, picked, idle, time>>
cvars == <<prov, cloud, key, cop, known, out, remote, calls, faults, hist>>
dvars == <<tomb, direct, owner, row, link, agent, del, mess, since, again, crossed>>
vars  == <<part, evars, svars, avars, ivars, cvars, dvars>>

\* A part that is not looked at rests in one of its initial states.
Init ==
    /\ part \in Parts
    /\ E!Init /\ S!Init /\ A!Init /\ I!Init /\ C!Init /\ D!Init
    /\ part # "egress" => cfg = CHOOSE c \in E!StartOptions : TRUE
    /\ part # "sidecar" => ~inside
    /\ part # "idle" => tun = CHOOSE n \in Nodes : TRUE
    /\ part # "cloud" => prov = CHOOSE p \in Providers : TRUE

Next ==
    /\ UNCHANGED part
    /\ \/ part = "egress" /\ E!Next /\ UNCHANGED <<svars, avars, ivars, cvars, dvars>>
       \/ part = "sidecar" /\ S!Next /\ UNCHANGED <<evars, avars, ivars, cvars, dvars>>
       \/ part = "keys" /\ A!KeysNext /\ UNCHANGED <<evars, svars, ivars, cvars, dvars>>
       \/ part = "file" /\ A!FileNext /\ UNCHANGED <<evars, svars, ivars, cvars, dvars>>
       \/ part = "idle" /\ I!Next /\ UNCHANGED <<evars, svars, avars, cvars, dvars>>
       \/ part = "cloud" /\ C!Next /\ UNCHANGED <<evars, svars, avars, ivars, dvars>>
       \/ part = "direct" /\ D!Next /\ UNCHANGED <<evars, svars, avars, ivars, cvars>>

\* Only the key store, the token file's watcher and the agent have steps to
\* take from the start.
Fairness ==
    /\ E!Fairness /\ C!Fairness /\ D!Fairness
    /\ \A k \in Keys : WF_avars(part = "keys" /\ A!IssueIndexes(k))
    /\ \A n \in Nodes : /\ WF_avars(part = "keys" /\ A!ResolveKeeps(n))
                        /\ WF_avars(part = "keys" /\ A!Reloads(n))
    /\ WF_avars(part = "file" /\ A!Watch)
    /\ WF_dvars(part = "direct" /\ D!Dials)

Spec == Init /\ [][Next]_vars /\ Fairness

-----------------------------------------------------------------------------
(* Properties *)

\* A connection through the proxy reaches only what a current policy permits.
OnlyPermitted == E!OnlyPermitted

\* A real credential leaves the proxy only recorded and over verified TLS, or
\* where the operator asked for it.
CredentialsStayMasked == E!CredentialsStayMasked

\* A running sandbox with an egress policy has its sidecar; a deleted one has
\* left nothing.
EgressObjects == S!EgressObjects

\* A reaper picks a sandbox only when nobody has used it for its lifetime,
\* less one interval of unwritten activity.
ReapedWhenIdle == I!ReapedWhenIdle

\* A command on a machine reads as a success only if it was one.
NoFalseSuccess == C!NoFalseSuccess

\* A machine whose id the caller has stays reachable, its key is not lost; and
\* a delete that succeeds leaves nothing in the cloud and no key.
MachinesAccounted == C!StillReachable /\ C!NothingLeft

\* A server that deleted a machine's sandbox does not let it in again by itself.
NotLetBackIn == D!NotLetBackIn

\* Every request through the proxy and every call to a provider ends, and
\* every server's keys become those of the table and of the file, and servers
\* and agents agree on where a machine is.
AllEnds == E!Answered /\ C!CallsReturn /\ A!KeysConverge /\ D!DirectSettles
=============================================================================
