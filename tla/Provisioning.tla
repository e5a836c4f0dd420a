---------------------------- MODULE Provisioning ----------------------------
(***************************************************************************)
(* Where a create gets its worker (pkg/sandpod/scheduler.go,               *)
(* provision_lock.go, SelectBestFor, Register), and how the virtual machine *)
(* behind a worker is given back (terminateOrphanVM, reapEmptyPodersOnce).  *)
(*                                                                         *)
(* One cloud provider and region, that is one reservation key, next to the *)
(* local workers.  Every create makes at most one VM, so a VM and its worker *)
(* are named after the create that made it.                                *)
(*                                                                         *)
(* In each instance's memory:                                              *)
(*   cr      creates: where ScheduleSandboxCreation and the steps after it *)
(*           stand, the worker chosen, and what it met: the attempts under  *)
(*           way when it began to wait, or the workers already seen empty   *)
(*           when it was placed                                            *)
(*   book    the reservation: absent, fresh, or older than provisioningTTL *)
(*   tenant  pendingVMTenant                                               *)
(*   since   emptySince: workers the idle reaper has seen empty            *)
(*   rp      the worker whose VM the idle reaper is terminating            *)
(* In the database:                                                        *)
(*   rec     worker records: state, workspace, containers in use           *)
(*   sbrec   sandbox records, by worker                                    *)
(* Outside:                                                                *)
(*   vm      the cloud's machines                                          *)
(*   con     the instance each worker is connected to                      *)
(*   host    the sandboxes that really run on a worker                     *)
(* History:                                                                *)
(*   told    VMs a caller was told to clean up by hand                     *)
(*   gaveUp  creates that stopped waiting for somebody else's VM           *)
(*   crashes, drops  how many there were so far, kept under the bounds     *)
(***************************************************************************)
EXTENDS Integers, FiniteSets

CONSTANTS Creates,     \* create requests, and the VMs and workers they make
          Locals,      \* workers somebody else starts (provider "local")
          Nodes,       \* control-plane instances
          Tenants,     \* workspaces
          None,
          Local,       \* creates that ask for provider "local"
          Walled,      \* creates with an egress policy
          Egress,      \* workers that advertise the egress capability
          TenantOf,    \* the workspace of each create, None if unscoped
          Cap,         \* max_containers of every worker
          Reaper,      \* TRUE: -poder-idle-ttl is set
          Prompt,      \* TRUE: an attempt to provision ends within
                       \* provisioningTTL, its worker registers within
                       \* vmTenantTTL, and a create is not suspended for the
                       \* reaper's TTL before it records its sandbox
          MaxCrashes,  \* bound on crashes
          MaxDrops     \* bound on tunnels that break

Workers == Creates \cup Locals

ASSUME ProvisioningAssumption ==
    /\ None \notin Workers \cup Nodes \cup Tenants
    /\ IsFiniteSet(Creates) /\ Creates \cap Locals = {}
    /\ Local \subseteq Creates /\ Walled \subseteq Creates
    /\ Egress \subseteq Workers
    /\ TenantOf \in [Creates -> Tenants \cup {None}]
    /\ Cap \in Nat \ {0} /\ MaxCrashes \in Nat /\ MaxDrops \in Nat
    /\ Prompt \in BOOLEAN /\ Reaper \in BOOLEAN

VARIABLES cr, book, tenant, since, rp, rec, sbrec, vm, con, host,
          told, gaveUp, crashes, drops

procVars == <<book, tenant, since, rp>>
dbVars   == <<rec, sbrec>>
outVars  == <<vm, con, host>>
histVars == <<told, gaveUp, crashes, drops>>
vars == <<cr, book, tenant, since, rp, rec, sbrec, vm, con, host, told,
          gaveUp, crashes, drops>>

-----------------------------------------------------------------------------
(* Types *)

\* The phases between taking the reservation and releasing it.
Holding == {"create", "boot", "setup", "register", "giveback"}
\* The phases that poll waitForPoderRegistration.
Polling == {"grace", "wait", "register"}
Phase == {"idle", "reserve", "placed", "recorded", "running", "errored",
          "failed", "deleted", "dead"} \cup Holding \cup Polling

Create == [ph : Phase, node : Nodes \cup {None}, worker : Workers \cup {None},
           met : SUBSET Creates]
Record == [state : {"ABSENT", "ONLINE", "OFFLINE"}, ws : Tenants \cup {None},
           used : Nat]
NoCreate == [ph |-> "idle", node |-> None, worker |-> None, met |-> {}]
NoRecord == [state |-> "ABSENT", ws |-> None, used |-> 0]

\* The type invariant.  A VM is "broken" when its worker container was started
\* and will never register.
TypeOK ==
    /\ cr \in [Creates -> Create]
    /\ book \in [Nodes -> {"free", "fresh", "expired"}]
    /\ tenant \in [Nodes -> [Creates -> Tenants \cup {None}]]
    /\ since \in [Nodes -> SUBSET Creates]
    /\ rp \in [Nodes -> Creates \cup {None}]
    /\ rec \in [Workers -> Record]
    /\ sbrec \in [Workers -> SUBSET Creates]
    /\ vm \in [Creates -> {"none", "booting", "ready", "worker", "broken", "gone"}]
    /\ con \in [Workers -> Nodes \cup {None}]
    /\ host \in [Workers -> SUBSET Creates]
    /\ told \subseteq Creates
    /\ gaveUp \subseteq Creates
    /\ crashes \in Nat /\ drops \in Nat

Init ==
    /\ cr = [c \in Creates |-> NoCreate]
    /\ book = [n \in Nodes |-> "free"]
    /\ tenant = [n \in Nodes |-> [c \in Creates |-> None]]
    /\ since = [n \in Nodes |-> {}]
    /\ rp = [n \in Nodes |-> None]
    /\ rec = [w \in Workers |-> NoRecord]
    /\ sbrec = [w \in Workers |-> {}]
    /\ vm = [c \in Creates |-> "none"]
    /\ con = [w \in Workers |-> None]
    /\ host = [w \in Workers |-> {}]
    /\ told = {}
    /\ gaveUp = {}
    /\ crashes = 0 /\ drops = 0

-----------------------------------------------------------------------------
(* Placement *)

\* The filters of SelectBestFor other than capacity, tenant and capability.
Matches(w, c) == rec[w].state = "ONLINE" /\ (w \in Locals <=> c \in Local)

\* SelectBestFor may return w.  CPU and memory load, which decide among the
\* eligible, are left open.
Eligible(w, c) ==
    /\ Matches(w, c)
    /\ rec[w].used < Cap
    /\ TenantOf[c] # None /\ rec[w].ws # None => rec[w].ws = TenantOf[c]
    /\ c \in Walled => w \in Egress

NoneEligible(c) == \A w \in Workers : ~Eligible(w, c)

\* Create c goes on to phase ph; for the first time, at instance n; and
\* remembering what it met.
Goto(c, ph) == cr' = [cr EXCEPT ![c].ph = ph]
TakeUp(c, n, ph) == cr' = [cr EXCEPT ![c].ph = ph, ![c].node = n]
Meet(c, ph, m) == cr' = [cr EXCEPT ![c].ph = ph, ![c].met = m]

\* createJobForPoder: the create goes on with worker w.
PlaceOn(c, n, w) ==
    cr' = [cr EXCEPT ![c] = [ph |-> "placed", node |-> n, worker |-> w,
                             met |-> UNION {since[m] : m \in Nodes}]]

Release(n) == book' = [book EXCEPT ![n] = "free"]
HeldAt(n) == {c \in Creates : cr[c].node = n /\ cr[c].ph \in Holding}

\* The first SelectBestFor finds a worker.
Select(c, n, w) ==
    /\ cr[c].ph = "idle" /\ Eligible(w, c)
    /\ PlaceOn(c, n, w)
    /\ UNCHANGED <<procVars, dbVars, outVars, histVars>>

\* Local workers cannot be made.  A worker that is there and cannot take the
\* sandbox is an error at once; none at all is worth the grace period.
SelectNoneLocal(c, n) ==
    /\ cr[c].ph = "idle" /\ c \in Local /\ NoneEligible(c)
    /\ IF \E w \in Workers : /\ Matches(w, c)
                             /\ rec[w].used >= Cap \/ (c \in Walled /\ w \notin Egress)
         THEN TakeUp(c, n, "failed") ELSE TakeUp(c, n, "grace")
    /\ UNCHANGED <<procVars, dbVars, outVars, histVars>>

\* A cloud create goes for the reservation.
SelectNone(c, n) ==
    /\ cr[c].ph = "idle" /\ c \notin Local /\ NoneEligible(c)
    /\ TakeUp(c, n, "reserve")
    /\ UNCHANGED <<procVars, dbVars, outVars, histVars>>

\* Bug: a reservation does not make anybody wait.
ReserveAlways(c) ==
    LET n == cr[c].node IN
    /\ cr[c].ph = "reserve"
    /\ Goto(c, "create")
    /\ book' = [book EXCEPT ![n] = "fresh"]
    /\ UNCHANGED <<tenant, since, rp, dbVars, outVars, histVars>>

\* reserve: true for the create that should provision, false for one that
\* should wait.
Reserve(c) ==
    LET n == cr[c].node IN
    /\ cr[c].ph = "reserve"
    /\ IF book[n] = "fresh"
         THEN Meet(c, "wait", HeldAt(n)) /\ UNCHANGED book
         ELSE Goto(c, "create") /\ book' = [book EXCEPT ![n] = "fresh"]
    /\ UNCHANGED <<tenant, since, rp, dbVars, outVars, histVars>>

\* Bug: the attempt ends in success without releasing its reservation.
PollPlacedKeeps(c, w) ==
    /\ cr[c].ph \in Polling /\ Eligible(w, c)
    /\ PlaceOn(c, cr[c].node, w)
    /\ UNCHANGED <<procVars, dbVars, outVars, histVars>>

\* waitForPoderRegistration finds a worker, any worker that will do; an attempt
\* that was provisioning returns and releases.
PollPlaced(c, w) ==
    /\ cr[c].ph \in Polling /\ Eligible(w, c)
    /\ PlaceOn(c, cr[c].node, w)
    /\ IF cr[c].ph = "register" THEN Release(cr[c].node) ELSE UNCHANGED book
    /\ UNCHANGED <<tenant, since, rp, dbVars, outVars, histVars>>

\* The grace period ends and its last poll found nobody.
GraceTimeout(c) ==
    /\ cr[c].ph = "grace" /\ NoneEligible(c)
    /\ Goto(c, "failed")
    /\ UNCHANGED <<procVars, dbVars, outVars, histVars>>

\* Eight minutes of waiting end with a last poll that finds nobody: the create
\* provisions for itself, whatever its second reserve answers.
GiveUpWaiting(c) ==
    LET n == cr[c].node IN
    /\ cr[c].ph = "wait" /\ NoneEligible(c)
    /\ Prompt => cr[c].met \cap HeldAt(n) = {}
    /\ Meet(c, "create", {})
    /\ book' = [book EXCEPT ![n] = "fresh"]
    /\ gaveUp' = gaveUp \cup {c}
    /\ UNCHANGED <<tenant, since, rp, dbVars, outVars, told, crashes, drops>>

-----------------------------------------------------------------------------
(* Provisioning a VM *)

\* Every early return of the attempt runs the deferred release.
Fail(c) == Goto(c, "failed") /\ Release(cr[c].node)

\* The cloud refuses: no VM.
CreateVMFails(c) ==
    /\ cr[c].ph = "create"
    /\ Fail(c)
    /\ UNCHANGED <<tenant, since, rp, dbVars, outVars, histVars>>

\* CreateVM succeeds; RecordVMTenant remembers who asked.  A VM without the
\* public address that was asked for is an error that names it to the caller.
CreateVM(c) ==
    LET n == cr[c].node IN
    /\ cr[c].ph = "create"
    /\ vm' = [vm EXCEPT ![c] = "booting"]
    /\ tenant' = [tenant EXCEPT ![n][c] = TenantOf[c]]
    /\ \/ Goto(c, "boot") /\ UNCHANGED <<book, told>>
       \/ Fail(c) /\ told' = told \cup {c}
    /\ UNCHANGED <<since, rp, dbVars, con, host, gaveUp, crashes, drops>>

\* The machine comes up (the provider's doing).
VMBoots(c) ==
    /\ vm[c] = "booting"
    /\ vm' = [vm EXCEPT ![c] = "ready"]
    /\ UNCHANGED <<cr, procVars, dbVars, con, host, histVars>>

\* waitForVMReady.
VMReady(c) ==
    /\ cr[c].ph = "boot" /\ vm[c] = "ready"
    /\ Goto(c, "setup")
    /\ UNCHANGED <<procVars, dbVars, outVars, histVars>>

\* setupPoderOnVM starts the worker's container, which may never register (a
\* wrong token, no route to the control plane, a crash loop).
SetupPoder(c) ==
    /\ cr[c].ph = "setup"
    /\ \E x \in {"worker", "broken"} : vm' = [vm EXCEPT ![c] = x]
    /\ Goto(c, "register")
    /\ UNCHANGED <<procVars, dbVars, con, host, histVars>>

\* Bug: the failed attempt returns without giving its VM back.
AttemptFailsKeepsVM(c) ==
    /\ \/ cr[c].ph = "boot" /\ UNCHANGED vm
       \/ cr[c].ph = "setup" /\ (UNCHANGED vm \/ vm' = [vm EXCEPT ![c] = "worker"])
       \/ cr[c].ph = "register" /\ NoneEligible(c) /\ UNCHANGED vm
    /\ Fail(c)
    /\ UNCHANGED <<tenant, since, rp, dbVars, con, host, histVars>>

\* Bug: waiting for the registration has no deadline.
AttemptFailsNoDeadline(c) ==
    /\ \/ cr[c].ph = "boot" /\ UNCHANGED vm
       \/ cr[c].ph = "setup" /\ (UNCHANGED vm \/ vm' = [vm EXCEPT ![c] = "worker"])
    /\ Goto(c, "giveback")
    /\ UNCHANGED <<procVars, dbVars, con, host, histVars>>

\* Not ready in time, a set-up command that fails (the container may have been
\* started all the same), or nobody registered in time: on to
\* terminateOrphanVM.
AttemptFails(c) ==
    /\ \/ cr[c].ph = "boot" /\ UNCHANGED vm
       \/ cr[c].ph = "setup" /\ (UNCHANGED vm \/ vm' = [vm EXCEPT ![c] = "worker"])
       \/ cr[c].ph = "register" /\ NoneEligible(c) /\ UNCHANGED vm
    /\ Goto(c, "giveback")
    /\ UNCHANGED <<procVars, dbVars, con, host, histVars>>

\* The machine stops, with everything on it.
Terminate(c) ==
    /\ vm' = [vm EXCEPT ![c] = "gone"]
    /\ host' = [host EXCEPT ![c] = {}]

\* terminateOrphanVM: the VM goes, or the caller is told that it did not.
TerminateOrphanVM(c) ==
    /\ cr[c].ph = "giveback"
    /\ \/ Terminate(c) /\ UNCHANGED told
       \/ told' = told \cup {c} /\ UNCHANGED <<vm, host>>
    /\ Fail(c)
    /\ UNCHANGED <<tenant, since, rp, dbVars, con, gaveUp, crashes, drops>>

-----------------------------------------------------------------------------
(* Workers *)

\* Bug: a registration without a tenant clears the record's.
RegisterClears(w, n) ==
    LET ws == IF w \in Creates THEN tenant[n][w] ELSE None IN
    /\ con[w] = None /\ (w \in Creates => vm[w] = "worker")
    /\ con' = [con EXCEPT ![w] = n]
    /\ rec' = [rec EXCEPT ![w] =
                 [state |-> "ONLINE", ws |-> ws, used |-> rec[w].used]]
    /\ UNCHANGED <<cr, procVars, sbrec, vm, host, histVars>>

\* /ws/poder/connect: the worker inherits the workspace its instance remembers
\* for the VM; Register never clears one that is recorded.
Register(w, n) ==
    LET ws == IF w \in Creates THEN tenant[n][w] ELSE None IN
    /\ con[w] = None /\ (w \in Creates => vm[w] = "worker")
    /\ con' = [con EXCEPT ![w] = n]
    /\ rec' = [rec EXCEPT ![w] =
                 [state |-> "ONLINE", ws |-> IF ws = None THEN rec[w].ws ELSE ws,
                  used |-> rec[w].used]]
    /\ UNCHANGED <<cr, procVars, sbrec, vm, host, histVars>>

\* A tunnel breaks, or ends with its machine: SetOffline.
Disconnect(w) ==
    /\ con[w] # None
    /\ \/ w \in Creates /\ vm[w] = "gone" /\ UNCHANGED drops
       \/ drops < MaxDrops /\ drops' = drops + 1
    /\ con' = [con EXCEPT ![w] = None]
    /\ rec' = [rec EXCEPT ![w].state = IF @ = "ABSENT" THEN @ ELSE "OFFLINE"]
    /\ UNCHANGED <<cr, procVars, sbrec, vm, host, told, gaveUp, crashes>>

\* Heartbeat: the record learns how many containers there are.
Heartbeat(w) ==
    /\ con[w] # None /\ rec[w].state # "ABSENT" /\ (w \in Creates => vm[w] = "worker")
    /\ rec' = [rec EXCEPT ![w].used = Cardinality(host[w])]
    /\ rec' # rec
    /\ UNCHANGED <<cr, procVars, sbrec, outVars, histVars>>

\* vmTenantTTL after its last use a remembered workspace is not believed.
ForgetTenant(n, c) ==
    /\ tenant[n][c] # None
    /\ Prompt => rec[c].state # "ABSENT" \/ vm[c] \in {"broken", "gone"}
    /\ tenant' = [tenant EXCEPT ![n][c] = None]
    /\ UNCHANGED <<cr, book, since, rp, dbVars, outVars, histVars>>

\* provisioningTTL after it was written a reservation is not believed.
Expire(n) ==
    /\ book[n] = "fresh"
    /\ Prompt => HeldAt(n) = {}
    /\ book' = [book EXCEPT ![n] = "expired"]
    /\ UNCHANGED <<cr, tenant, since, rp, dbVars, outVars, histVars>>

-----------------------------------------------------------------------------
(* The sandbox on its worker, as far as it matters here *)

\* runSandboxCreate writes the sandbox record ...
AddRecord(c) ==
    /\ cr[c].ph = "placed"
    /\ sbrec' = [sbrec EXCEPT ![cr[c].worker] = @ \cup {c}]
    /\ Meet(c, "recorded", {})
    /\ UNCHANGED <<procVars, rec, outVars, histVars>>

\* ... and the worker makes the container, or cannot.
Deliver(c) ==
    LET w == cr[c].worker IN
    /\ cr[c].ph = "recorded"
    /\ \/ /\ con[w] # None /\ (w \in Creates => vm[w] = "worker")
          /\ host' = [host EXCEPT ![w] = @ \cup {c}]
          /\ Goto(c, "running")
       \/ Goto(c, "errored") /\ UNCHANGED host
    /\ UNCHANGED <<procVars, dbVars, vm, con, histVars>>

\* Bug: the count is decremented without looking.
DeleteSandboxBlind(c) ==
    LET w == cr[c].worker IN
    /\ cr[c].ph \in {"running", "errored"}
    /\ Goto(c, "deleted")
    /\ sbrec' = [sbrec EXCEPT ![w] = @ \ {c}]
    /\ \/ con[w] # None /\ host' = [host EXCEPT ![w] = @ \ {c}]
       \/ UNCHANGED host
    /\ rec' = [rec EXCEPT ![w].used = @ - 1]
    /\ UNCHANGED <<procVars, vm, con, histVars>>

\* The sandbox is deleted, by its owner or for being idle; the container goes
\* only if the worker can be told.
DeleteSandbox(c) ==
    LET w == cr[c].worker IN
    /\ cr[c].ph \in {"running", "errored"}
    /\ Goto(c, "deleted")
    /\ sbrec' = [sbrec EXCEPT ![w] = @ \ {c}]
    /\ \/ con[w] # None /\ host' = [host EXCEPT ![w] = @ \ {c}]
       \/ UNCHANGED host
    /\ rec' = [rec EXCEPT ![w].used = IF @ > 0 THEN @ - 1 ELSE 0]
    /\ UNCHANGED <<procVars, vm, con, histVars>>

-----------------------------------------------------------------------------
(* The idle reaper of instance n *)

Empty(c) == rec[c].state = "ONLINE" /\ sbrec[c] = {}

\* One look at worker c: empty for the first time, or not empty.
ReapWatch(n, c) ==
    /\ Reaper /\ rp[n] = None
    /\ since' = [since EXCEPT ![n] = IF Empty(c) THEN @ \cup {c} ELSE @ \ {c}]
    /\ since' # since
    /\ UNCHANGED <<cr, book, tenant, rp, dbVars, outVars, histVars>>

\* A later look, more than the TTL after: the termination starts.
ReapStart(n, c) ==
    /\ rp[n] = None /\ c \in since[n] /\ Empty(c)
    /\ Prompt => \A d \in Creates :
                   cr[d].ph = "placed" /\ cr[d].worker = c => c \in cr[d].met
    /\ rp' = [rp EXCEPT ![n] = c]
    /\ UNCHANGED <<cr, book, tenant, since, dbVars, outVars, histVars>>

\* It ends, minutes later, and the record goes; or it failed and the next tick
\* retries.
ReapEnd(n) ==
    LET c == rp[n] IN
    /\ c # None
    /\ rp' = [rp EXCEPT ![n] = None]
    /\ \/ /\ Terminate(c)
          /\ rec' = [rec EXCEPT ![c] = NoRecord]
          /\ since' = [since EXCEPT ![n] = @ \ {c}]
       \/ UNCHANGED <<vm, host, rec, since>>
    /\ UNCHANGED <<cr, book, tenant, sbrec, con, histVars>>

-----------------------------------------------------------------------------
\* An instance dies and is started again: its creates, its reservation, what it
\* remembered and the tunnels it held are lost.
Crash(n) ==
    /\ crashes < MaxCrashes
    /\ crashes' = crashes + 1
    /\ cr' = [c \in Creates |->
                IF cr[c].node = n /\ cr[c].ph \in Holding \cup Polling \cup
                                         {"reserve", "placed", "recorded"}
                  THEN [NoCreate EXCEPT !.ph = "dead"] ELSE cr[c]]
    /\ book' = [book EXCEPT ![n] = "free"]
    /\ tenant' = [tenant EXCEPT ![n] = [c \in Creates |-> None]]
    /\ since' = [since EXCEPT ![n] = {}]
    /\ rp' = [rp EXCEPT ![n] = None]
    /\ con' = [w \in Workers |-> IF con[w] = n THEN None ELSE con[w]]
    /\ UNCHANGED <<dbVars, vm, host, told, gaveUp, drops>>

\* sweepBody at instance n: no heartbeat for too long and no tunnel here; or a
\* tunnel here, and the record says OFFLINE.
Sweep(w, n) ==
    /\ \/ /\ rec[w].state = "ONLINE" /\ con[w] # n
          /\ rec' = [rec EXCEPT ![w].state = "OFFLINE"]
       \/ /\ rec[w].state = "OFFLINE" /\ con[w] = n
          /\ rec' = [rec EXCEPT ![w].state = "ONLINE"]
    /\ UNCHANGED <<cr, procVars, sbrec, outVars, histVars>>

ScheduleStep(c) ==
    \/ \E n \in Nodes : SelectNone(c, n) \/ SelectNoneLocal(c, n)
                        \/ \E w \in Workers : Select(c, n, w)
    \/ Reserve(c) \/ (\E w \in Workers : PollPlaced(c, w))
    \/ GraceTimeout(c) \/ GiveUpWaiting(c)
    \/ CreateVMFails(c) \/ CreateVM(c) \/ VMReady(c) \/ SetupPoder(c)
    \/ AttemptFails(c) \/ TerminateOrphanVM(c) \/ AddRecord(c) \/ Deliver(c)

Next ==
    \/ \E c \in Creates : ScheduleStep(c) \/ VMBoots(c) \/ DeleteSandbox(c)
    \/ \E w \in Workers : Disconnect(w) \/ Heartbeat(w)
                          \/ \E n \in Nodes : Register(w, n) \/ Sweep(w, n)
    \/ \E n \in Nodes : Expire(n) \/ ReapEnd(n) \/ Crash(n)
                        \/ \E c \in Creates : ForgetTenant(n, c) \/ ReapWatch(n, c)
                                              \/ ReapStart(n, c)

Spec == Init /\ [][Next]_vars

\* The goroutine of a create is scheduled, and all its waits have deadlines.
FairSpec == Spec /\ \A c \in Creates : WF_vars(ScheduleStep(c))

-----------------------------------------------------------------------------
(* Properties *)

\* provision_lock.go: while no create has given up waiting, an instance brings
\* up one VM at a time for a provider and region, provided that attempts end
\* within provisioningTTL: the others share its worker.
OneAttempt ==
    Prompt /\ gaveUp = {} =>
        \A n \in Nodes : \A c, d \in HeldAt(n) : c = d

\* scheduler.go's deferred release: a reservation that makes others wait always
\* belongs to an attempt that is still under way, however attempts ended and
\* overlapped.
WaitsForSomebody ==
    \A n \in Nodes : book[n] = "fresh" => HeldAt(n) # {}

\* "Every failure below has to give it back": a create that failed leaves no VM
\* behind that its caller was not told about.
FailuresGiveBack ==
    \A c \in Creates : cr[c].ph = "failed" /\ vm[c] \notin {"none", "gone"} => c \in told

\* poderWorkspaceOrProvisioner "keeps it out of every other workspace's
\* placement": no sandbox of one workspace is on the VM another paid for.
TenantsApart ==
    \A v \in Creates : \A c \in sbrec[v] \cup host[v] :
        TenantOf[c] # None /\ TenantOf[v] # None => TenantOf[c] = TenantOf[v]

\* Every create the scheduler accepts ends: on a worker, or in an error.
CreatesEnd ==
    \A c \in Creates : cr[c].ph # "idle" ~>
        cr[c].ph \in {"running", "errored", "failed", "deleted", "dead"}
=============================================================================
