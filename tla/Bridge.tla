------------------------------- MODULE Bridge -------------------------------
(***************************************************************************)
(* The MCP bridge of the agent: the life of one MCP server named in        *)
(* mcp.json (pkg/mcpbridge, cmd/agent/mcp_bridge.go).                      *)
(*                                                                         *)
(* ChildManager keeps one Child per server.  Five parties work on it: the  *)
(* file watcher and the admin socket reload the file, the admin socket     *)
(* restarts or disables the server, the supervisor pings it and restarts   *)
(* it, the OAuth broker's callback fails or restarts it, and Shutdown      *)
(* stops it.  What a party does under m.mu is one step, the child's whole  *)
(* handshake included; reading the file, pinging, waiting for the back-off *)
(* and exchanging a code happen outside the lock.                          *)
(*                                                                         *)
(* Nothing in this code relates two servers but the names of their tools,  *)
(* so there is one.  A Child that nobody refers to and whose process does  *)
(* not run is garbage, and its slot is used again.                         *)
(*                                                                         *)
(*   file    mcp.json: Absent, Broken (no JSON) or the server's entry      *)
(*   dirty   the watcher's debounce timer is armed                         *)
(*   rl      what each reloader read of the file, before it has the lock   *)
(*   child   the Child instances, by slot                                  *)
(*   cur     m.children: the registered slot, or 0                         *)
(*   sw      the supervisor's sweep and the child it works on              *)
(*   pend    the broker's pending authorization of the server; "spent" when *)
(*           its answer came after pendingAuthTTL and was turned away      *)
(*   cb      the callback being handled                                    *)
(*   down    Shutdown: not begun, draining, done                           *)
(* History:                                                                *)
(*   auto    the attempts of the last minute that led to a restart, since  *)
(*           a party other than the supervisor last started the server     *)
(*   off     the admin disabled the server, and no reload came since       *)
(*   raced   the races that leave the children wrong, as they happen       *)
(*   acts    edits and admin requests so far, kept under the bound         *)
(***************************************************************************)
EXTENDS Integers, FiniteSets

CONSTANTS Configs,     \* the server's possible entries in mcp.json
          OffConfigs,  \* ... with sandrpod.enabled = false
          AuthConfigs, \* ... with auth = oauth
          NeverConfigs,\* ... with restart_policy = never
          Absent, Broken, None,
          Limit,       \* max_restart_per_min
          Slots,       \* bound on the Child instances around at one time
          Attempts,    \* numbers of restart attempts: bounds how many are young
          MaxActs      \* bound on edits of the file and admin requests

ASSUME BridgeAssumption ==
    /\ OffConfigs \subseteq Configs
    /\ AuthConfigs \subseteq Configs
    /\ NeverConfigs \subseteq Configs
    /\ {Absent, Broken, None} \cap Configs = {}
    /\ Absent # Broken /\ Absent # None /\ Broken # None
    /\ Limit \in Nat \ {0}
    /\ Slots \subseteq Nat \ {0} /\ Slots # {}
    /\ Attempts \subseteq Nat /\ IsFiniteSet(Attempts)
    /\ MaxActs \in Nat

VARIABLES file, dirty, rl, child, cur, sw, pend, cb, down,
          auto, off, raced, acts

vars == <<file, dirty, rl, child, cur, sw, pend, cb, down,
          auto, off, raced, acts>>

Files     == Configs \cup {Absent, Broken}
Reloaders == {"watch", "admin"}
States    == {"starting", "ready", "failed", "stopped", "waiting_auth"}

-----------------------------------------------------------------------------
(* Children *)

\* type Child: the entry it was made from, its state, whether its process or
\* connection is there, whether the manager gave it a config hash, and its
\* window of restart attempts.
Child == [cfg : Configs, state : States, proc : {"none", "up"},
          hashed : BOOLEAN, times : SUBSET Attempts]

NoChild == [cfg |-> None, state |-> "stopped", proc |-> "none",
            hashed |-> FALSE, times |-> {}]

\* The slots a new Child may take: not registered, referred to by no party,
\* and without a running process.
FreeSlots == {i \in Slots : /\ i # cur /\ i # sw.c /\ i # cb.c
                            /\ child[i].proc # "up"}

\* The slot of the next Child; one is as good as another.
FreeSlot == CHOOSE i \in FreeSlots : TRUE

\* What spawnLocked can make of an enabled entry.  The permission gate may
\* refuse, which leaves a failed placeholder without a config hash; the
\* transport, the handshake or tools/list may fail; the server may want an
\* authorization; it may come up.  With a cancelled context nothing comes up.
Outcomes(f, cancelled) ==
    {[state |-> "failed", proc |-> "none", hashed |-> FALSE],
     [state |-> "failed", proc |-> "none", hashed |-> TRUE]}
    \cup (IF cancelled THEN {}
          ELSE {[state |-> "ready", proc |-> "up", hashed |-> TRUE]})
    \cup (IF cancelled \/ f \notin AuthConfigs THEN {}
          ELSE {[state |-> "waiting_auth", proc |-> "none", hashed |-> TRUE]})

\* Child.Stop: closes the transport of the child in slot i, if it has one.
Stopped(i) == [child[i] EXCEPT !.state = "stopped", !.proc = "none"]

\* A Child that none of `holders` refers to is garbage once its process is gone.
Collect(kids, i, holders) ==
    IF i \in holders \cup {0} \/ kids[i].proc = "up" THEN kids
    ELSE [kids EXCEPT ![i] = NoChild]

\* The children once the registered one, if there is one, is stopped and
\* deleted from m.children.
StopRegistered ==
    IF cur = 0 THEN child
    ELSE Collect([child EXCEPT ![cur] = Stopped(cur)], cur, {sw.c, cb.c})

\* oauthBroker.begin, for a child that starts in `state`: a child that waits
\* for its authorization replaces the server's pending flow.
Begin(state) == IF state = "waiting_auth" THEN "live" ELSE pend

\* spawnLocked(f), for a manager whose children are now `kids`: a disabled
\* entry registers nothing.  `times` is the restart window
\* the supervisor hands on to the new child.
Spawn(kids, f, cancelled, times) ==
    IF f \in OffConfigs
    THEN cur' = 0 /\ child' = kids /\ UNCHANGED pend
    ELSE /\ FreeSlots # {}
         /\ \E o \in Outcomes(f, cancelled) :
               /\ child' = [kids EXCEPT ![FreeSlot] =
                              [cfg |-> f, state |-> o.state, proc |-> o.proc,
                               hashed |-> o.hashed, times |-> times]]
               /\ pend' = Begin(o.state)
         /\ cur' = FreeSlot

-----------------------------------------------------------------------------
(* The file, the watcher and Reload *)

\* The user saves, replaces or deletes mcp.json; fsnotify tells the watcher,
\* which arms its debounce timer.
EditFile ==
    /\ acts < MaxActs
    /\ \E f \in Files \ {file} : file' = f
    /\ dirty' = (down = "up")
    /\ acts' = acts + 1
    /\ UNCHANGED <<rl, child, cur, sw, pend, cb, down,
                   auto, off, raced>>

\* LoadConfig in Reload, before the lock: a file that does not parse ends the
\* reload there.
ReadFile(p) ==
    /\ rl[p] = None
    /\ rl' = [rl EXCEPT ![p] = IF file = Broken THEN None ELSE file]
    /\ UNCHANGED <<file, child, cur, sw, pend, cb, down,
                   auto, off, raced>>

\* watchLoop: the debounce timer fires.
WatchRead ==
    /\ dirty /\ down = "up"
    /\ dirty' = FALSE
    /\ ReadFile("watch")
    /\ UNCHANGED acts

\* POST /admin/reload.
AdminReload ==
    /\ down = "up" /\ acts < MaxActs
    /\ acts' = acts + 1
    /\ ReadFile("admin")
    /\ UNCHANGED dirty

\* The two races of a reload: it applies what it read although the file has
\* changed and nobody is left to read it again, or it is an admin's that
\* outlives the shutdown of its socket.
ReloadRaces(p) ==
    (IF rl[p] # file /\ file # Broken /\ ~dirty /\ \A q \in Reloaders \ {p} : rl[q] = None
     THEN {"reload"} ELSE {})
    \cup (IF p = "admin" /\ down = "down" THEN {"exit"} ELSE {})

\* Mutant of Unchanged: the hash leaves out what the user changed.
UnchangedIfHashed(f) == cur # 0 /\ f # Absent /\ child[cur].hashed

\* The registered child has the hash of entry f.  A child the gate refused has
\* no hash and never matches.
Unchanged(f) == cur # 0 /\ child[cur].hashed /\ child[cur].cfg = f

\* Reload under the lock: a removed entry's child is stopped, an entry whose
\* hash differs is restarted, an unchanged one keeps its child.  The watcher's
\* context is the supervisor's, which Shutdown cancels.
ReloadApply(p) ==
    LET f == rl[p]
    IN  /\ f # None
        /\ rl' = [rl EXCEPT ![p] = None]
        /\ IF Unchanged(f)
           THEN UNCHANGED <<child, cur, pend, auto>>
           ELSE /\ IF f = Absent
                   THEN cur' = 0 /\ child' = StopRegistered /\ UNCHANGED pend
                   ELSE Spawn(StopRegistered, f, p = "watch" /\ down # "up", {})
                /\ auto' = {}
        /\ off' = FALSE
        /\ raced' = raced \cup ReloadRaces(p)
        /\ UNCHANGED <<file, dirty, sw, cb, down, acts>>

-----------------------------------------------------------------------------
(* The admin socket *)

\* Mutant of RestartServer: the running child is not stopped.
RestartServerNoStop ==
    /\ cur # 0
    /\ Spawn(child, child[cur].cfg, FALSE, {})
    /\ auto' = {}

\* RestartServer: stop and spawn the registered child's own entry again.
RestartServer ==
    /\ cur # 0
    /\ Spawn(StopRegistered, child[cur].cfg, FALSE, {})
    /\ auto' = {}

\* POST /admin/servers/{name}/restart
AdminRestart ==
    /\ down = "up" /\ acts < MaxActs
    /\ acts' = acts + 1
    /\ RestartServer
    /\ UNCHANGED <<file, dirty, rl, sw, cb, down, off, raced>>

\* DisableServer: stop the child and forget it, without touching the file.
DisableServer ==
    /\ down = "up" /\ acts < MaxActs
    /\ acts' = acts + 1
    /\ cur # 0
    /\ child' = StopRegistered
    /\ cur' = 0
    /\ off' = TRUE
    /\ UNCHANGED <<file, dirty, rl, sw, pend, cb, down, auto, raced>>

-----------------------------------------------------------------------------
(* The supervisor *)

\* The child's process exits, or its connection breaks.
ChildDies(i) ==
    /\ child[i].proc = "up"
    /\ child' = Collect([child EXCEPT ![i].proc = "none"], i, {cur, sw.c, cb.c})
    /\ UNCHANGED <<file, dirty, rl, cur, sw, pend, cb, down,
                   auto, off, raced, acts>>

\* healthSweep takes its lists under the read lock: ready children to ping,
\* failed ones to start again; the others are left alone.
SweepBegins ==
    /\ sw.pc = "idle" /\ down = "up" /\ cur # 0
    /\ child[cur].state \in {"ready", "failed"}
    /\ sw' = [pc |-> IF child[cur].state = "ready" THEN "ping" ELSE "recover",
              c  |-> cur]
    /\ UNCHANGED <<file, dirty, rl, child, cur, pend, cb, down,
                   auto, off, raced, acts>>

SweepEnds == sw' = [pc |-> "idle", c |-> 0]

\* Ping answers.
PingAnswers ==
    /\ sw.pc = "ping"
    /\ child[sw.c].state = "ready" /\ child[sw.c].proc = "up" /\ down = "up"
    /\ SweepEnds
    /\ UNCHANGED <<file, dirty, rl, child, cur, pend, cb, down,
                   auto, off, raced, acts>>

\* recordRestartAttempt: under the per-minute limit the attempt is noted in
\* the child's window.  Forgetting old attempts is AttemptAges.
MayRestart(i) == Cardinality(child[i].times) < Limit

\* The attempts of the last minute that a window still holds.
Young == auto \cup UNION {child[i].times : i \in Slots}

\* A number for the next attempt.
NewAttempt == {a \in Attempts \ Young : \A b \in Attempts \ Young : a <= b}

\* handleChildDeath up to its back-off.  The ping failed or timed out, was
\* cancelled by Shutdown, or found the child not ready: the child is stopped
\* and marked failed; restart_policy = never and the rate limit end it here.
PingFails ==
    /\ sw.pc = "ping"
    /\ LET i == sw.c
           again == child[i].cfg \notin NeverConfigs /\ MayRestart(i)
       IN  IF again
              THEN \E a \in NewAttempt :
                      /\ child' = [child EXCEPT ![i] = [Stopped(i) EXCEPT
                                     !.state = "failed", !.times = @ \cup {a}]]
                      /\ sw' = [sw EXCEPT !.pc = "backoff"]
              ELSE /\ child' = Collect([child EXCEPT ![i] =
                                  [Stopped(i) EXCEPT !.state = "failed"]], i, {cur, cb.c})
                   /\ SweepEnds
    /\ UNCHANGED <<file, dirty, rl, cur, pend, cb, down, auto, off, raced, acts>>

\* Mutant of RestartDead: the new child starts with an empty window.
RestartDeadAfresh ==
    /\ sw.pc = "backoff" /\ down = "up"
    /\ Spawn(Collect(child, sw.c, {cb.c}), child[sw.c].cfg, FALSE, {})
    /\ auto' = auto \cup child[sw.c].times
    /\ raced' = IF cur = sw.c THEN raced ELSE raced \cup {"sweep"}
    /\ SweepEnds
    /\ UNCHANGED <<file, dirty, rl, cb, down, off, acts>>

\* handleChildDeath after its back-off: whatever is registered by now is
\* forgotten, and the entry the dead child had is spawned.  A child registered
\* meanwhile loses its registration and keeps its process.  Shutdown ends the
\* wait, unless it has just passed.
RestartDead ==
    /\ sw.pc = "backoff"
    /\ \/ /\ Spawn(Collect(child, sw.c, {cb.c}), child[sw.c].cfg, down # "up", child[sw.c].times)
          /\ auto' = (auto \cup child[sw.c].times)
          /\ raced' = IF cur = sw.c THEN raced ELSE raced \cup {"sweep"}
       \/ /\ down # "up"
          /\ child' = Collect(child, sw.c, {cur, cb.c})
          /\ UNCHANGED <<cur, pend, auto, raced>>
    /\ SweepEnds
    /\ UNCHANGED <<file, dirty, rl, cb, down, off, acts>>

\* recoverFailedChild notes its attempt before it has the lock ...
RecoverBegins ==
    /\ sw.pc = "recover"
    /\ IF child[sw.c].cfg \notin NeverConfigs /\ MayRestart(sw.c)
       THEN \E a \in NewAttempt :
               /\ child' = [child EXCEPT ![sw.c].times = @ \cup {a}]
               /\ sw' = [sw EXCEPT !.pc = "retry"]
       ELSE /\ child' = Collect(child, sw.c, {cur, cb.c})
            /\ SweepEnds
    /\ UNCHANGED <<file, dirty, rl, cur, pend, cb, down, auto, off, raced, acts>>

\* ... and respawns only the child that is still registered.  It does not stop
\* it: a child the broker failed while it ran keeps its process.
RecoverFailed ==
    /\ sw.pc = "retry"
    /\ IF cur = sw.c
       THEN /\ Spawn(Collect(child, cur, {cb.c}), child[cur].cfg, down # "up", child[cur].times)
            /\ auto' = (auto \cup child[cur].times)
            /\ raced' = IF child[cur].proc = "up" THEN raced \cup {"callback"} ELSE raced
       ELSE /\ child' = Collect(child, sw.c, {cb.c})
            /\ UNCHANGED <<cur, pend, auto, raced>>
    /\ SweepEnds
    /\ UNCHANGED <<file, dirty, rl, cb, down, off, acts>>

\* A minute after it, an attempt counts no more.
AttemptAges(a) ==
    /\ a \in Young
    /\ auto' = auto \ {a}
    /\ child' = [i \in Slots |-> [child[i] EXCEPT !.times = @ \ {a}]]
    /\ UNCHANGED <<file, dirty, rl, cur, sw, pend, cb, down, off, raced, acts>>

-----------------------------------------------------------------------------
(* The OAuth broker *)

\* The browser comes back with the pending state: handleCallback takes the
\* flow.  An expired one is turned away, a refusal fails the server, anything
\* else goes on to the code exchange.
CallbackArrives ==
    /\ cb.pc = "idle" /\ pend \in {"live", "expired"}
    /\ IF pend = "expired"
       THEN pend' = "spent" /\ UNCHANGED cb
       ELSE /\ pend' = "none"
            /\ \/ cb' = [pc |-> "exchange", c |-> 0]
               \/ cb' = [pc |-> "fail", c |-> cur]
    /\ UNCHANGED <<file, dirty, rl, child, cur, sw, down, auto, off, raced, acts>>

\* Mutant of ExchangeEnds: a failed exchange is only logged.
ExchangeEndsQuiet ==
    /\ cb.pc = "exchange"
    /\ \/ cb' = [pc |-> "restart", c |-> 0]
       \/ cb' = [pc |-> "idle", c |-> 0]
    /\ UNCHANGED <<file, dirty, rl, child, cur, sw, pend, down, auto, off, raced, acts>>

\* ProcessAuthorizationResponse returns: a token, or an error that fails
\* whatever child is registered now.
ExchangeEnds ==
    /\ cb.pc = "exchange"
    /\ \/ cb' = [pc |-> "restart", c |-> 0]
       \/ cb' = [pc |-> "fail", c |-> cur]
    /\ UNCHANGED <<file, dirty, rl, child, cur, sw, pend, down,
                   auto, off, raced, acts>>

\* failChild marks the child it looked up, registered or not by now.
CallbackFails ==
    /\ cb.pc = "fail"
    /\ child' = IF cb.c = 0 THEN child
                ELSE Collect([child EXCEPT ![cb.c].state = "failed"], cb.c, {cur, sw.c})
    /\ cb' = [pc |-> "idle", c |-> 0]
    /\ UNCHANGED <<file, dirty, rl, cur, sw, pend, down,
                   auto, off, raced, acts>>

\* restartChild: RestartServer with a context of its own.  Shutdown leaves the
\* broker's listener open, so this may come after it and start a child that a
\* late reload registered.
CallbackRestarts ==
    /\ cb.pc = "restart"
    /\ cb' = [pc |-> "idle", c |-> 0]
    /\ \/ RestartServer
       \/ cur = 0 /\ UNCHANGED <<child, cur, pend, auto>>
    /\ raced' = IF down = "down" /\ cur # 0 THEN raced \cup {"exit"} ELSE raced
    /\ UNCHANGED <<file, dirty, rl, sw, down, off, acts>>

\* pendingAuthTTL passes.
FlowExpires ==
    /\ pend = "live" /\ pend' = "expired"
    /\ UNCHANGED <<file, dirty, rl, child, cur, sw, cb, down,
                   auto, off, raced, acts>>

-----------------------------------------------------------------------------
(* Shutdown *)

\* Shutdown cancels the supervisor's context and closes the watcher ...
ShutdownBegins ==
    /\ down = "up"
    /\ down' = "drain"
    /\ dirty' = FALSE
    /\ UNCHANGED <<file, rl, child, cur, sw, pend, cb,
                   auto, off, raced, acts>>

\* ... waits for the calls in flight, or for its timeout, and stops the child.
ShutdownEnds ==
    /\ down = "drain"
    /\ down' = "down"
    /\ child' = StopRegistered
    /\ cur' = 0
    /\ UNCHANGED <<file, dirty, rl, sw, pend, cb, auto, off, raced, acts>>

-----------------------------------------------------------------------------
\* ChildManager.Start: the entry found in the file is spawned, then the
\* supervisor and the watcher start.  A file that does not parse is fatal.
Init ==
    /\ file \in Files \ {Broken}
    /\ dirty = FALSE
    /\ rl = [p \in Reloaders |-> None]
    /\ \E first \in Slots : \A i \in Slots : first <= i /\
          IF file = Absent \/ file \in OffConfigs
          THEN child = [j \in Slots |-> NoChild] /\ cur = 0 /\ pend = "none"
          ELSE \E o \in Outcomes(file, FALSE) :
                  /\ child = [j \in Slots |-> IF j = first
                        THEN [cfg |-> file, state |-> o.state, proc |-> o.proc,
                              hashed |-> o.hashed, times |-> {}]
                        ELSE NoChild]
                  /\ cur = first
                  /\ pend = IF o.state = "waiting_auth" THEN "live" ELSE "none"
    /\ sw = [pc |-> "idle", c |-> 0]
    /\ cb = [pc |-> "idle", c |-> 0]
    /\ down = "up"
    /\ auto = {}
    /\ off = FALSE /\ raced = {} /\ acts = 0

Next ==
    \/ EditFile \/ WatchRead \/ AdminReload
    \/ \E p \in Reloaders : ReloadApply(p)
    \/ AdminRestart \/ DisableServer
    \/ \E i \in Slots : ChildDies(i)
    \/ SweepBegins \/ PingAnswers \/ PingFails \/ RestartDead
    \/ RecoverBegins \/ RecoverFailed
    \/ \E a \in Attempts : AttemptAges(a)
    \/ CallbackArrives \/ ExchangeEnds \/ CallbackFails \/ CallbackRestarts
    \/ FlowExpires
    \/ ShutdownBegins \/ ShutdownEnds

\* The watcher's timer fires, and a reload that has read the file gets the
\* lock: every holder of m.mu works under a timeout.
Spec ==
    /\ Init /\ [][Next]_vars
    /\ WF_vars(WatchRead)
    /\ \A p \in Reloaders : WF_vars(ReloadApply(p))

-----------------------------------------------------------------------------
(* Properties *)

\* Only the registered child has a process: no reload, restart, disabling,
\* ping or callback leaves one running that nobody can stop any more, except
\* by the races of handleChildDeath and failChild named in `raced`.  And after
\* Shutdown nothing runs, although a reload or a sweep that was under way may
\* still register a child; only a reload of the admin socket that outlives the
\* socket's own shutdown, or a callback of the broker, which Shutdown does not
\* close, can start one.
NoStrayProcess ==
    \A i \in Slots : child[i].proc = "up" =>
        /\ raced \cap {"sweep", "callback"} = {} => i = cur
        /\ raced = {} => down # "down"

\* max_restart_per_min holds over the instances the supervisor makes, not only
\* within one: the restarts of the last minute are at most the limit.
RestartBudget == Cardinality(auto) <= Limit

\* A server that waits for its authorization can still get it: its flow is
\* pending, or an answer is being handled, unless an answer came too late.
AuthorizationReachable ==
    cur # 0 /\ child[cur].state = "waiting_auth" =>
        pend # "none" \/ cb.pc # "idle"

\* The registered child comes from the entry the file holds now.
MatchesFile ==
    \/ file = Broken
    \/ off
    \/ IF file = Absent \/ file \in OffConfigs THEN cur = 0
       ELSE cur # 0 /\ child[cur].cfg = file

\* Once the file is left alone, the children come to match it and stay so,
\* whatever the supervisor, the admin and the broker do, unless a race spoilt
\* it or the bridge shuts down.
Converges == <>[](MatchesFile \/ raced # {} \/ down # "up")
=============================================================================
