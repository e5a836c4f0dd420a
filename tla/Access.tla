------------------------------- MODULE Access --------------------------------
(***************************************************************************)
(* The keys that open the API (pkg/server/auth.go, tokens_api.go, main.go):*)
(* issued and revoked in a table the servers share, and looked up in each  *)
(* server's own index; and the tokens file of one server, read again when  *)
(* it changes.                                                             *)
(*                                                                         *)
(* State: the table; each server's index, the notifications it has not     *)
(* seen and the reload it is in the middle of; the administrator's calls   *)
(* and the lookups on their way; the file (its content and its time), what *)
(* the watcher knows of it and the tokens it made of it.                   *)
(* History: the file changed between the start's reading and the watcher's *)
(* first look.                                                             *)
(***************************************************************************)
EXTENDS Integers, FiniteSets

CONSTANTS Nodes, Keys, NoKeys,
          MaxEdits,   \* bound on edits of the file
          MaxLookups  \* bound on requests that miss the index

VARIABLES table, index, news, reload, admin, find, lookups,
          file, edits, watch, early

vars == <<table, index, news, reload, admin, find, lookups, file, edits, watch, early>>

store == <<table, index, news, reload, admin, find, lookups>>
disk  == <<file, edits, watch, early>>

-----------------------------------------------------------------------------
(* The table and the indexes *)

\* Everybody is told; who is not listening just then never hears of it.
NotifyTokenChange == \E heard \in SUBSET Nodes : news' = news \cup heard

Put(n, k)    == index' = [index EXCEPT ![n] = @ \cup {k}]
Remove(n, k) == index' = [index EXCEPT ![n] = @ \ {k}]

\* A key is issued once; it can be revoked as soon as it is in the table.
\* The row first, then this server's index, then the others.
HandleTokens(k, n) ==
    /\ admin[k] = "new"
    /\ table' = table \cup {k}
    /\ admin' = [admin EXCEPT ![k] = n]
    /\ UNCHANGED <<index, news, reload, find, lookups, disk>>

IssueIndexes(k) ==
    /\ admin[k] \in Nodes
    /\ Put(admin[k], k) /\ NotifyTokenChange
    /\ admin' = [admin EXCEPT ![k] = "issued"]
    /\ UNCHANGED <<table, reload, find, lookups, disk>>

HandleTokenDelete(k, n) ==
    /\ k \in table
    /\ table' = table \ {k}
    /\ Remove(n, k) /\ NotifyTokenChange
    /\ UNCHANGED <<reload, admin, find, lookups, disk>>

\* A key the index does not have is looked for in the table, and kept.
ResolveToken(k, n) ==
    /\ lookups < MaxLookups /\ k \notin index[n] /\ find[n] = NoKeys
    /\ lookups' = lookups + 1
    /\ find' = IF k \in table THEN [find EXCEPT ![n] = {k}] ELSE find
    /\ UNCHANGED <<table, index, news, reload, admin, disk>>

ResolveKeeps(n) ==
    /\ find[n] # NoKeys
    /\ index' = [index EXCEPT ![n] = @ \cup find[n]]
    /\ find' = [find EXCEPT ![n] = NoKeys]
    /\ UNCHANGED <<table, news, reload, admin, lookups, disk>>

\* The table is read, and then put in place of the index.
ListTokens(n) ==
    /\ reload[n] = NoKeys
    /\ reload' = [reload EXCEPT ![n] = table]
    /\ UNCHANGED <<table, index, admin, find, lookups, disk>>

OnTokensChanged(n) == n \in news /\ news' = news \ {n} /\ ListTokens(n)

\* Mutant of PeriodicReload: none, the notifications have to do.
PeriodicReloadNever(n) == n \in Nodes /\ FALSE

PeriodicReload(n) == ListTokens(n) /\ UNCHANGED news

Replace(n) ==
    /\ reload[n] # NoKeys
    /\ index' = [index EXCEPT ![n] = reload[n]]
    /\ reload' = [reload EXCEPT ![n] = NoKeys]
    /\ UNCHANGED <<table, news, admin, find, lookups, disk>>

-----------------------------------------------------------------------------
(* The tokens file: its version, its time, and whether it parses *)

Edit ==
    /\ edits < MaxEdits
    /\ edits' = edits + 1
    /\ \E parses \in BOOLEAN : file' = [v |-> edits + 1, parses |-> parses]
    /\ early' = (early \/ watch.pc = "start")
    /\ UNCHANGED <<watch, store>>

\* The server has read the file; the watcher starts later and takes the
\* file's time then.
WatchStarts ==
    /\ watch.pc = "start"
    /\ watch' = [watch EXCEPT !.pc = "idle", !.mod = file.v]
    /\ UNCHANGED <<file, edits, early, store>>

WatchStat ==
    /\ watch.pc = "idle" /\ file.v > watch.mod
    /\ watch' = [watch EXCEPT !.pc = "load", !.mod = file.v]
    /\ UNCHANGED <<file, edits, early, store>>

\* A file that does not parse changes nothing.
LoadTokensFile ==
    /\ watch.pc = "load"
    /\ watch' = [watch EXCEPT !.pc = "idle", !.set = IF file.parses THEN file.v ELSE @]
    /\ UNCHANGED <<file, edits, early, store>>

-----------------------------------------------------------------------------

Init ==
    /\ table = {} /\ index = [n \in Nodes |-> {}] /\ news = {}
    /\ reload = [n \in Nodes |-> NoKeys] /\ find = [n \in Nodes |-> NoKeys]
    /\ admin = [k \in Keys |-> "new"] /\ lookups = 0
    /\ file = [v |-> 0, parses |-> TRUE] /\ edits = 0 /\ early = FALSE
    /\ watch = [pc |-> "start", mod |-> 0, set |-> 0]

Reloads(n) == OnTokensChanged(n) \/ PeriodicReload(n) \/ Replace(n)

Watch == WatchStarts \/ WatchStat \/ LoadTokensFile

KeysNext ==
    \/ \E k \in Keys, n \in Nodes : HandleTokens(k, n) \/ HandleTokenDelete(k, n) \/ ResolveToken(k, n)
    \/ \E k \in Keys : IssueIndexes(k)
    \/ \E n \in Nodes : ResolveKeeps(n) \/ Reloads(n)

FileNext == Edit \/ Watch

Next == KeysNext \/ FileNext

\* Handlers go on, and both timers tick.
Fairness ==
    /\ \A k \in Keys : WF_vars(IssueIndexes(k))
    /\ \A n \in Nodes : WF_vars(ResolveKeeps(n)) /\ WF_vars(Reloads(n))
    /\ WF_vars(Watch)

Spec == Init /\ [][Next]_vars /\ Fairness

-----------------------------------------------------------------------------
(* Properties *)

\* Issued and revoked keys reach every server, whatever notifications were
\* lost and whatever lookup or reload was under way: in the end each index is
\* the table.  And the last edit of the tokens file that parses is in force,
\* if it did not come while the server was starting.
KeysConverge ==
    <>[](/\ \A n \in Nodes : index[n] = table
         /\ file.parses => (early \/ watch.set = file.v))
=============================================================================
