------------------------------- MODULE Direct -------------------------------
(***************************************************************************)
(* One machine whose agent serves it as a sandbox of its own               *)
(* (cmd/agent connectLoop, /ws/sandbox/connect and the direct branch of    *)
(* the sandbox delete in pkg/server/main.go): it dials any of the servers, *)
(* which check that the sandbox was not deleted, keep the tunnel and write *)
(* the record; the handler tidies up when its tunnel is closed.            *)
(*                                                                         *)
(*   tomb    per server, how long the name is still tombstoned (0: not)    *)
(*   direct  per server, directStore's tunnel for the name, or 0           *)
(*   owner   the row of tunnel_owners: a server, or Nowhere                *)
(*   row     the state of the sandbox record, or "none"                    *)
(*   link    the connect handlers: the server, the step, the tunnel open   *)
(*   agent   dialling after `left`, serving link c, or stopped             *)
(*   del     the delete request being handled                              *)
(*   mess    faults, deletes and restarts so far, kept under the bound     *)
(* History:                                                                *)
(*   since   the server that deleted the name last, with the agent's      *)
(*           tunnel if there was one, while the agent is not started anew  *)
(*           and its attempts reach that server; or Nowhere                *)
(*   again   a server let the agent back in that had deleted the name      *)
(*   crossed a clean-up took away the tunnel of a later connection, or a   *)
(*           delete that of one not yet registered                         *)
(***************************************************************************)
EXTENDS Integers

CONSTANTS Nodes, Nowhere,
          Window,     \* the tombstones' lifetime
          Retry,      \* the agent's -reconnect
          Stubborn,   \* the agent may be of a release that does not know 410
          Links,      \* bound on connect handlers at a time
          MaxMess     \* bound on faults, deletes and restarts

VARIABLES tomb, direct, owner, row, link, agent, del, mess, since, again, crossed

vars == <<tomb, direct, owner, row, link, agent, del, mess, since, again, crossed>>

NoLink == [pc |-> "free", at |-> Nowhere, open |-> FALSE, seen |-> FALSE]
Idle   == [pc |-> "idle", at |-> Nowhere, c |-> 0]

Init ==
    /\ tomb = [n \in Nodes |-> 0]
    /\ direct = [n \in Nodes |-> 0]
    /\ owner = Nowhere /\ row = "none"
    /\ link = [c \in Links |-> NoLink]
    /\ agent = [pc |-> "dial", left |-> 0, c |-> 0]
    /\ del = Idle /\ mess = 0
    /\ since = Nowhere
    /\ again = FALSE /\ crossed = FALSE

-----------------------------------------------------------------------------
(* The agent *)

Waiting == [pc |-> "dial", left |-> Retry, c |-> 0]
Stopped == [pc |-> "stopped", left |-> 0, c |-> 0]

\* Mutant of Gone: the window is not refreshed.
GoneOnce(n) == tomb

\* Tombstones.Add on every attempt that is turned away.
Gone(n) == [tomb EXCEPT ![n] = Window]

\* The server turns away a name it remembers to have deleted; the agent stops
\* on 410, unless its release is too old to know it.
TurnedAway ==
    /\ agent.pc = "dial" /\ agent.left = 0
    /\ \E n \in Nodes : /\ tomb[n] > 0 /\ tomb' = Gone(n)
                        /\ since' = IF since = n THEN since ELSE Nowhere
    /\ agent' \in {Stopped} \cup (IF Stubborn THEN {Waiting} ELSE {})
    /\ UNCHANGED <<direct, owner, row, link, del, mess, again, crossed>>

\* The server lets the connection in: the checks of the connect handler.
Accepted ==
    /\ agent.pc = "dial" /\ agent.left = 0
    /\ \E n \in Nodes, c \in Links :
          /\ tomb[n] = 0 /\ link[c].pc = "free"
          /\ \A d \in Links : d < c => link[d].pc # "free"
          /\ link' = [link EXCEPT ![c] = [pc |-> "upgrade", at |-> n, open |-> TRUE, seen |-> FALSE]]
          /\ agent' = [pc |-> "up", left |-> 0, c |-> c]
          /\ again' = (again \/ since = n)
    /\ since' = Nowhere
    /\ UNCHANGED <<tomb, direct, owner, row, del, mess, crossed>>

\* The dial fails.
DialFails ==
    /\ agent.pc = "dial" /\ agent.left = 0 /\ mess < MaxMess
    /\ mess' = mess + 1
    /\ agent' = Waiting
    /\ UNCHANGED <<tomb, direct, owner, row, link, del, since, again, crossed>>

\* The agent's session ends because the server closed the tunnel.
Disconnected ==
    /\ agent.pc = "up" /\ ~link[agent.c].open
    /\ agent' = Waiting
    /\ UNCHANGED <<tomb, direct, owner, row, link, del, mess, since, again, crossed>>

\* ... or because the network failed, which the server may find out much later.
Drops ==
    /\ agent.pc = "up" /\ link[agent.c].open /\ mess < MaxMess
    /\ mess' = mess + 1
    /\ agent' = Waiting
    /\ UNCHANGED <<tomb, direct, owner, row, link, del, since, again, crossed>>

\* Somebody starts the agent again.
Restart ==
    /\ agent.pc = "stopped" /\ mess < MaxMess
    /\ mess' = mess + 1
    /\ agent' = [Waiting EXCEPT !.left = 0]
    /\ since' = Nowhere
    /\ UNCHANGED <<tomb, direct, owner, row, link, del, again, crossed>>

\* Time passes, but not beyond the agent's next attempt; a request is handled,
\* and a closed session noticed, in less than a tick.
Tick ==
    /\ del.pc = "idle" /\ \A c \in Links : link[c].pc \in {"free", "serve"}
    /\ CASE agent.pc = "dial" -> agent.left > 0
         [] agent.pc = "up" -> link[agent.c].open
         [] OTHER -> TRUE
    /\ \/ agent.pc = "dial"
       \/ \E n \in Nodes : tomb[n] > 0
    /\ agent' = [agent EXCEPT !.left = IF @ > 0 THEN @ - 1 ELSE 0]
    /\ tomb' = [n \in Nodes |-> IF tomb[n] > 0 THEN tomb[n] - 1 ELSE 0]
    /\ UNCHANGED <<direct, owner, row, link, del, mess, since, again, crossed>>

-----------------------------------------------------------------------------
(* The connect handler: one step per store *)

At(c, from, to) == link[c].pc = from /\ link' = [link EXCEPT ![c].pc = to]

\* directStore.Set.
StoreTunnel(c) ==
    /\ At(c, "upgrade", "claim")
    /\ direct' = [direct EXCEPT ![link[c].at] = c]
    /\ UNCHANGED <<tomb, owner, row, agent, del, mess, since, again, crossed>>

\* TunnelOwners.Claim.
Claim(c) ==
    /\ At(c, "claim", "lookup")
    /\ owner' = link[c].at
    /\ UNCHANGED <<tomb, direct, row, agent, del, mess, since, again, crossed>>

\* sandboxStore.Get, to tell a reconnect from a first connection.
LookUp(c) ==
    /\ link[c].pc = "lookup"
    /\ link' = [link EXCEPT ![c].pc = "write", ![c].seen = (row # "none")]
    /\ UNCHANGED <<tomb, direct, owner, row, agent, del, mess, since, again, crossed>>

\* Update of a record that is still there, or Add where there is still none.
WriteRecord(c) ==
    /\ At(c, "write", "serve")
    /\ row' = IF link[c].seen = (row # "none") THEN "RUNNING" ELSE row
    /\ UNCHANGED <<tomb, direct, owner, agent, del, mess, since, again, crossed>>

\* The session of a tunnel the agent has left times out.
Notice(c) ==
    /\ link[c].open /\ agent.c # c
    /\ link' = [link EXCEPT ![c].open = FALSE]
    /\ UNCHANGED <<tomb, direct, owner, row, agent, del, mess, since, again, crossed>>

Current(c) == direct[link[c].at] = c

\* The handler's loop finds its tunnel closed; it tidies up only if the tunnel
\* is still the current one.
LoopEnds(c) ==
    /\ ~link[c].open
    /\ At(c, "serve", IF Current(c) THEN "remove" ELSE "free")
    /\ UNCHANGED <<tomb, direct, owner, row, agent, del, mess, since, again, crossed>>

\* directStore.Remove, by name.
RemoveTunnel(c) ==
    /\ At(c, "remove", "release")
    /\ direct' = [direct EXCEPT ![link[c].at] = 0]
    /\ crossed' = (crossed \/ direct[link[c].at] \notin {0, c})
    /\ UNCHANGED <<tomb, owner, row, agent, del, mess, since, again>>

\* TunnelOwners.Release, of this server's claim only.
Release(c) ==
    /\ At(c, "release", "mark")
    /\ owner' = IF owner = link[c].at THEN Nowhere ELSE owner
    /\ UNCHANGED <<tomb, direct, row, agent, del, mess, since, again, crossed>>

\* The record, if it is still there, is marked as failed.
MarkError(c) ==
    /\ At(c, "mark", "free")
    /\ row' = IF row = "none" THEN "none" ELSE "ERROR"
    /\ UNCHANGED <<tomb, direct, owner, agent, del, mess, since, again, crossed>>

\* A server with a tunnel of the name renews its claim.
RefreshOwner(n) ==
    /\ direct[n] # 0 /\ owner # n
    /\ owner' = n
    /\ UNCHANGED <<tomb, direct, row, link, agent, del, mess, since, again, crossed>>

-----------------------------------------------------------------------------
(* The delete handler *)

\* The sandbox is looked up, and its name tombstoned in this server's memory.
DeleteBegins ==
    /\ del.pc = "idle" /\ row # "none" /\ mess < MaxMess
    /\ mess' = mess + 1
    /\ \E n \in Nodes : /\ del' = [pc |-> "close", at |-> n, c |-> 0]
                        /\ tomb' = [tomb EXCEPT ![n] = Window]
                        /\ since' = IF agent.pc = "up" => direct[n] = agent.c THEN n ELSE Nowhere
    /\ UNCHANGED <<direct, owner, row, link, agent, again, crossed>>

\* The tunnel is closed if it ends here, and the claim released.
DeleteCloses ==
    /\ del.pc = "close" /\ del' = [del EXCEPT !.pc = "record", !.c = direct[del.at]]
    /\ link' = [c \in Links |-> IF direct[del.at] = c THEN [link[c] EXCEPT !.open = FALSE]
                                ELSE link[c]]
    /\ owner' = IF owner = del.at THEN Nowhere ELSE owner
    /\ crossed' = (crossed \/ \E c \in Links : direct[del.at] = c /\ link[c].pc # "serve")
    /\ UNCHANGED <<tomb, direct, row, agent, mess, since, again>>

\* The record goes.
DeleteRecord ==
    /\ del.pc = "record" /\ del' = [del EXCEPT !.pc = "remove"]
    /\ row' = "none"
    /\ UNCHANGED <<tomb, direct, owner, link, agent, mess, since, again, crossed>>

\* The tunnel goes from the store, by name, and the request is answered.
DeleteEnds ==
    /\ del.pc = "remove" /\ del' = Idle
    /\ direct' = [direct EXCEPT ![del.at] = 0]
    /\ crossed' = (crossed \/ direct[del.at] \notin {0, del.c})
    /\ UNCHANGED <<tomb, owner, row, link, agent, mess, since, again>>

-----------------------------------------------------------------------------

Handler(c) ==
    \/ StoreTunnel(c) \/ Claim(c) \/ LookUp(c) \/ WriteRecord(c)
    \/ LoopEnds(c) \/ RemoveTunnel(c) \/ Release(c) \/ MarkError(c)

Dials == TurnedAway \/ Accepted

Next ==
    \/ Dials \/ DialFails \/ Disconnected \/ Drops \/ Restart \/ Tick
    \/ \E c \in Links : Handler(c) \/ Notice(c)
    \/ \E n \in Nodes : RefreshOwner(n)
    \/ DeleteBegins \/ DeleteCloses \/ DeleteRecord \/ DeleteEnds

\* Handlers and the refresher go on, dead sessions are noticed by their
\* keep-alives and clocks run; besides, the agent keeps dialling.
Fairness ==
    /\ \A c \in Links : WF_vars(Handler(c)) /\ WF_vars(Notice(c))
    /\ \A n \in Nodes : WF_vars(RefreshOwner(n))
    /\ WF_vars(DeleteCloses \/ DeleteRecord \/ DeleteEnds)
    /\ WF_vars(Tick) /\ WF_vars(Disconnected)

Spec == Init /\ [][Next]_vars /\ Fairness /\ WF_vars(Dials)

-----------------------------------------------------------------------------
(* Properties *)

\* A server that deleted the sandbox, and closed its tunnel, does not let the
\* agent in again, however long the agent keeps trying there, until somebody
\* starts the agent anew; unless a connection was crossed.
NotLetBackIn == again => crossed

\* Once connections are left alone, the servers' stores, the owner table and
\* the agent agree on where the sandbox is, and a record that says RUNNING has
\* an agent behind it; unless a connection was crossed.
DirectSettles ==
    <>[](\/ crossed
         \/ /\ agent.pc = "up" => /\ direct[link[agent.c].at] = agent.c
                                  /\ owner = link[agent.c].at
            /\ row = "RUNNING" => agent.pc = "up")
=============================================================================
