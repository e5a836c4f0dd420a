----------------------------- MODULE Permission -----------------------------
(***************************************************************************)
(* The consent gate of the agent on an employee's machine: pkg/permission, *)
(* its prompts, and the other two programs that edit permissions.json, the *)
(* tray's settings page and the tray's command line (cmd/sandrpod-tray).   *)
(*                                                                         *)
(* The agent and the tray each load the file once, when they start, and    *)
(* from then on decide by their copy; whoever changes a rule writes his    *)
(* whole copy over the file (tmp and rename).  A command of the CLI loads  *)
(* the file, changes it and writes it back, one step here.                 *)
(*                                                                         *)
(*   disk     permissions.json                                             *)
(*   mem      the copy of the agent and of the tray; Down if not running   *)
(*   rq       the checks under way in the agent, by thread                 *)
(*   holder   the thread that holds Manager.promptMu, or None              *)
(* History:                                                                *)
(*   consent  what a person has granted and has not expired                *)
(*   checks   checks begun so far, kept under the bound                    *)
(*   events   edits, restarts and failed writes so far, likewise           *)
(***************************************************************************)
EXTENDS Integers, FiniteSets

CONSTANTS Paths, Within,  \* paths, and the pairs <<p, q>> with p inside q
          WorkDir,        \* the paths inside the agent's work_dir
          Mandatory,      \* the paths IsMandatoryDenied protects
          Seeds,          \* DefaultHardlockSeeds
          Pty,            \* the pseudo-path of a terminal
          Sessions,       \* session ids
          Commands,       \* commands on the default deny list
          Threads, None, Down,
          MaxChecks,      \* bound on the checks
          MaxEvents       \* bound on edits, restarts and failed writes

ASSUME PermissionAssumption ==
    /\ Within \subseteq Paths \X Paths
    /\ WorkDir \subseteq Paths /\ Mandatory \subseteq Paths /\ Seeds \subseteq Paths
    /\ Pty \notin Paths \cup Commands /\ Paths \cap Commands = {}
    /\ None \notin Sessions \cup Threads
    /\ MaxChecks \in Nat /\ MaxEvents \in Nat

VARIABLES disk, mem, rq, holder, consent, checks, events

vars == <<disk, mem, rq, holder, consent, checks, events>>

Owners  == {"agent", "tray"}
Targets == Paths \cup {Pty}

\* type Rule: at most one rule per path, a hardlock or a standing grant; at
\* most one session grant per path; the denied commands.
Store == [rules : [Paths -> {"none", "lock", "r", "w", "rw"}],
          sess  : [Targets -> {None} \cup [sid : Sessions, mode : {"r", "w", "x"}]],
          deny  : SUBSET Commands]

ASSUME DownAssumption == Down \notin Store

Requests == [path : Paths, mode : {"r", "w"}, sid : Sessions \cup {None}]
            \cup [path : {Pty}, mode : {"x"}, sid : Sessions \cup {None}]
            \cup [path : Commands, mode : {"x"}, sid : {None}]

NoRequest == [path |-> None, mode |-> "r", sid |-> None]

-----------------------------------------------------------------------------
(* The store *)

\* Mode.Allows
Allows(granted, mode) == (granted = "rw" /\ mode \in {"r", "w"}) \/ granted = mode

\* pathInside, on canonical paths.
Inside(p, q) == p = q \/ <<p, q>> \in Within

\* unionMode: granting the other mode of a path widens its rule.
UnionMode(a, b) == IF a = b THEN b ELSE "rw"

\* Mutant of AddPermanentRule: a grant replaces whatever rule the path has.
AddPermanentRuleOver(s, p, mode) == [s EXCEPT !.rules[p] = mode]

\* AddPermanentRule: upsertRule never replaces a hardlock by a grant.
AddPermanentRule(s, p, mode) ==
    [s EXCEPT !.rules[p] = CASE @ = "lock" -> "lock"
                             [] @ = "none" -> mode
                             [] OTHER      -> UnionMode(@, mode)]

\* AddSessionRule: upsertRule goes by the path alone, so the grant of another
\* session, or of another mode, is replaced.
AddSessionRule(s, p, mode, sid) ==
    [s EXCEPT !.sess[p] = [sid |-> sid, mode |-> mode]]

\* AddHardlock
AddHardlock(s, p) == [s EXCEPT !.rules[p] = "lock"]

\* RemoveRule
RemoveRule(s, p, removeHardlock) ==
    [s EXCEPT !.rules[p] = IF @ = "lock" /\ ~removeHardlock THEN "lock" ELSE "none"]

\* SeedHardlocksIfEmpty and SeedCommandPolicyIfEmpty, each only if its part of
\* the store has nothing in it.
Seeded(s) ==
    [s EXCEPT
       !.rules = IF \E p \in Paths : @[p] # "none" THEN @
                 ELSE [p \in Paths |-> IF p \in Seeds THEN "lock" ELSE "none"],
       !.deny  = IF @ # {} THEN @ ELSE Commands]

\* matchHardlock
Locked(s, p) == \E q \in Paths : s.rules[q] = "lock" /\ Inside(p, q)

\* matchAllow
Standing(s, r) ==
    \E q \in Paths : /\ s.rules[q] \in {"r", "w", "rw"}
                     /\ Allows(s.rules[q], r.mode) /\ Inside(r.path, q)

\* Mutant of InSession: any session's grant counts.
InSessionAny(s, r) ==
    \E q \in Targets : /\ s.sess[q] # None
                       /\ Allows(s.sess[q].mode, r.mode) /\ Inside(r.path, q)

\* matchSessionAllow, for grants whose time is not over (GrantExpires).
InSession(s, r) ==
    \E q \in Targets : /\ s.sess[q] # None /\ s.sess[q].sid = r.sid
                       /\ Allows(s.sess[q].mode, r.mode) /\ Inside(r.path, q)

\* A copy is changed and written over the file; the write may fail, which the
\* callers in the agent ignore.
Commit(o, s) ==
    /\ mem' = [mem EXCEPT ![o] = s]
    /\ \/ disk' = s /\ UNCHANGED events
       \/ events < MaxEvents /\ events' = events + 1 /\ UNCHANGED disk

-----------------------------------------------------------------------------
(* Checks in the agent *)

\* Mutant of CheckBody: the work_dir comes before the hardlocks.
CheckBodyWorkDirFirst(s, r) ==
    IF r.path \in WorkDir THEN "allow"
    ELSE IF Locked(s, r.path) THEN "deny"
    ELSE IF r.mode # "r" /\ r.path \in Mandatory THEN "deny"
    ELSE IF Standing(s, r) \/ InSession(s, r) THEN "allow"
    ELSE "wait"

\* checkBody up to the prompt: hardlock, mandatory deny, work_dir, standing
\* grant, session grant, in this order.
CheckBody(s, r) ==
    IF Locked(s, r.path) THEN "deny"
    ELSE IF r.mode # "r" /\ r.path \in Mandatory THEN "deny"
    ELSE IF r.path \in WorkDir \/ Standing(s, r) \/ InSession(s, r) THEN "allow"
    ELSE "wait"

\* CheckPTY up to the prompt: only a session grant opens a terminal silently.
CheckPTY(s, r) == IF InSession(s, r) THEN "allow" ELSE "wait"

\* CheckExec: the deny list alone decides over a command.
CheckExec(s, r) == IF r.path \in s.deny THEN "deny" ELSE "allow"

\* A request reaches the gate and is decided by the copy, or waits for its
\* turn to prompt.
Check(t) ==
    /\ mem["agent"] # Down /\ rq[t].pc = "idle"
    /\ checks < MaxChecks /\ checks' = checks + 1
    /\ \E r \in Requests :
          rq' = [rq EXCEPT ![t] =
                   [pc |-> CASE r.path = Pty         -> CheckPTY(mem["agent"], r)
                             [] r.path \in Commands -> CheckExec(mem["agent"], r)
                             [] OTHER               -> CheckBody(mem["agent"], r),
                    req |-> r, asked |-> FALSE]]
    /\ UNCHANGED <<disk, mem, holder, consent, events>>

\* The second look under promptMu, for a grant given while this check waited.
Recheck(s, r) == InSession(s, r) \/ (r.path # Pty /\ Standing(s, r))

\* promptMu is taken; the prompt goes out unless a grant came meanwhile.
TakePrompt(t) ==
    /\ rq[t].pc = "wait" /\ holder = None
    /\ IF Recheck(mem["agent"], rq[t].req)
       THEN rq' = [rq EXCEPT ![t].pc = "allow"] /\ UNCHANGED holder
       ELSE rq' = [rq EXCEPT ![t].pc = "ask"] /\ holder' = t
    /\ UNCHANGED <<disk, mem, consent, checks, events>>

Decide(t, pc) ==
    rq' = [rq EXCEPT ![t] = [pc |-> pc, req |-> @.req, asked |-> (pc = "allow")]]

\* allow_session, or for a terminal also allow_permanent: without a session id
\* the answer counts once.
AnswerSession(t) ==
    LET r == rq[t].req IN
    IF r.sid = None THEN UNCHANGED <<disk, mem, consent, events>>
    ELSE /\ Commit("agent", AddSessionRule(mem["agent"], r.path, r.mode, r.sid))
         /\ consent' = consent \cup {r}

\* allow_permanent for a path.
AnswerPermanent(t) ==
    LET r == rq[t].req IN
    /\ Commit("agent", AddPermanentRule(mem["agent"], r.path, r.mode))
    /\ consent' = consent \cup {[r EXCEPT !.sid = None]}

\* The person answers through the tray, or through the agent's own dialog when
\* the tray cannot be reached.  A tray that is paused denies.
Answer(t) ==
    /\ rq[t].pc = "ask"
    /\ holder' = None
    /\ \/ /\ Decide(t, "allow")
          /\ \/ UNCHANGED <<disk, mem, consent, events>>
             \/ AnswerSession(t)
             \/ rq[t].req.path # Pty /\ AnswerPermanent(t)
       \/ Decide(t, "deny") /\ UNCHANGED <<disk, mem, consent, events>>
    /\ UNCHANGED checks

\* Mutant of PromptFails: the prompt lock is not given back.
PromptFailsHolding(t) ==
    /\ rq[t].pc = "ask"
    /\ Decide(t, "deny")
    /\ UNCHANGED <<disk, mem, holder, consent, checks, events>>

\* The prompt's deadline passes, the connection to the tray breaks, or the
\* answer cannot be used: the check fails closed.
PromptFails(t) ==
    /\ rq[t].pc = "ask"
    /\ Decide(t, "deny")
    /\ holder' = None
    /\ UNCHANGED <<disk, mem, consent, checks, events>>

\* The decision is recorded and returned.
Return(t) ==
    /\ rq[t].pc \in {"allow", "deny"}
    /\ rq' = [rq EXCEPT ![t] = [pc |-> "idle", req |-> NoRequest, asked |-> FALSE]]
    /\ UNCHANGED <<disk, mem, holder, consent, checks, events>>

\* The eight hours of a session grant are over, in every copy.
GrantExpires(r) ==
    LET without(s) == [s EXCEPT !.sess = [q \in Targets |->
            IF @[q] # None /\ @[q].sid = r.sid /\ q = r.path THEN None ELSE @[q]]]
    IN  /\ r \in consent /\ r.sid # None
        /\ \A t \in Threads : rq[t].pc # "allow"
        /\ disk' = without(disk)
        /\ mem' = [o \in Owners |-> IF mem[o] = Down THEN Down ELSE without(mem[o])]
        /\ consent' = {c \in consent : c.sid # r.sid \/ c.path # r.path}
        /\ UNCHANGED <<rq, holder, checks, events>>

-----------------------------------------------------------------------------
(* The settings page and the command line *)

\* installPermissionGate in the agent, runServe in the tray: the file is
\* loaded, and seeded if nothing is in it.
Start(o) ==
    /\ mem[o] = Down
    /\ Commit(o, Seeded(disk))
    /\ UNCHANGED <<rq, holder, consent, checks>>

\* The program ends, and its checks with it.
Stop(o) ==
    /\ mem[o] # Down /\ events < MaxEvents
    /\ mem' = [mem EXCEPT ![o] = Down]
    /\ events' = events + 1
    /\ IF o = "agent"
       THEN /\ rq' = [t \in Threads |-> [pc |-> "idle", req |-> NoRequest, asked |-> FALSE]]
            /\ holder' = None
       ELSE UNCHANGED <<rq, holder>>
    /\ UNCHANGED <<disk, consent, checks>>

\* What a standing grant allows, as requests.
Granted(p, mode) ==
    {[path |-> p, mode |-> m, sid |-> None] : m \in {k \in {"r", "w"} : Allows(mode, k)}}

\* httpRuleAdd, httpRuleRemove, httpPolicyUpsert and httpPolicyRemove, on the
\* tray's copy; the removal of a hardlock is refused.
TrayEdit ==
    /\ mem["tray"] # Down /\ events < MaxEvents
    /\ events' = events + 1
    /\ \/ \E p \in Paths :
          \/ \E mode \in {"r", "w", "rw"} :
                /\ mem' = [mem EXCEPT !["tray"] = AddPermanentRule(@, p, mode)]
                /\ consent' = consent \cup Granted(p, mode)
          \/ /\ mem["tray"].rules[p] # "lock"
             /\ mem' = [mem EXCEPT !["tray"] = RemoveRule(@, p, FALSE)]
             /\ UNCHANGED consent
       \/ \E c \in Commands :
             /\ \E d \in {mem["tray"].deny \cup {c}, mem["tray"].deny \ {c}} :
                   mem' = [mem EXCEPT !["tray"].deny = d]
             /\ UNCHANGED consent
    /\ disk' = mem'["tray"] \/ UNCHANGED disk
    /\ UNCHANGED <<rq, holder, checks>>

\* `rules add`, `rules rm`, `lock`, `seed`, `policy deny` and `policy rm`: load,
\* change, write.
CliEdit ==
    /\ events < MaxEvents
    /\ events' = events + 1
    /\ \/ \E p \in Paths :
          \/ \E mode \in {"r", "w", "rw"} :
                /\ disk' = AddPermanentRule(disk, p, mode)
                /\ consent' = consent \cup Granted(p, mode)
          \/ disk' = RemoveRule(disk, p, FALSE) /\ UNCHANGED consent
          \/ disk' = AddHardlock(disk, p) /\ UNCHANGED consent
       \/ disk' = Seeded(disk) /\ UNCHANGED consent
       \/ \E c \in Commands :
             /\ \E d \in {disk.deny \cup {c}, disk.deny \ {c}} : disk' = [disk EXCEPT !.deny = d]
             /\ UNCHANGED consent
    /\ UNCHANGED <<mem, rq, holder, checks>>

\* `unlock --i-understand-the-risk`, the only way to lift a hardlock.
CliUnlock ==
    /\ events < MaxEvents
    /\ events' = events + 1
    /\ \E p \in Paths : disk' = RemoveRule(disk, p, TRUE)
    /\ UNCHANGED <<mem, rq, holder, consent, checks>>

-----------------------------------------------------------------------------
\* A machine without permissions.json, where nothing has started yet.
Init ==
    /\ disk = [rules |-> [p \in Paths |-> "none"], sess |-> [q \in Targets |-> None],
               deny |-> {}]
    /\ mem = [o \in Owners |-> Down]
    /\ rq = [t \in Threads |-> [pc |-> "idle", req |-> NoRequest, asked |-> FALSE]]
    /\ holder = None
    /\ consent = {} /\ checks = 0 /\ events = 0

Next ==
    \/ \E t \in Threads : \/ Check(t) \/ TakePrompt(t) \/ Answer(t)
                          \/ PromptFails(t) \/ Return(t)
    \/ \E r \in consent : GrantExpires(r)
    \/ \E o \in Owners : Start(o) \/ Stop(o)
    \/ TrayEdit \/ CliEdit \/ CliUnlock

\* A prompt ends by its deadline, and a Go mutex is handed to the goroutine
\* that has waited longest.
Spec ==
    /\ Init /\ [][Next]_vars
    /\ \A t \in Threads : WF_vars(PromptFails(t)) /\ SF_vars(TakePrompt(t))

-----------------------------------------------------------------------------
(* Properties *)

\* A path under a hardlock of the agent's copy is never allowed, nor a write
\* to a protected file or a command of the deny list, however broad the
\* work_dir and the grants are and whatever the person answers while the check
\* waits.
ProtectedNeverAllowed ==
    \A t \in Threads : rq[t].pc = "allow" /\ rq[t].req.path # Pty =>
        /\ rq[t].req.path \notin mem["agent"].deny
        /\ ~Locked(mem["agent"], rq[t].req.path)
        /\ rq[t].req.mode = "r" \/ rq[t].req.path \notin Mandatory

\* Whatever is opened outside the work_dir, a path or a terminal, was granted by
\* a person: for this request, for its session and not yet over, or for good.
\* (Commands need no grant: what the deny list does not hold may run.)
ConsentBehindAllow ==
    \A t \in Threads : rq[t].pc = "allow" /\ rq[t].req.path \notin Commands =>
        \/ rq[t].asked
        \/ rq[t].req.path \in WorkDir
        \/ \E c \in consent : /\ c.sid \in {None, rq[t].req.sid}
                              /\ c.mode = rq[t].req.mode
                              /\ Inside(rq[t].req.path, c.path)

\* No grant and no removal in a running program lifts a hardlock of its copy.
LocksHeldInMemory ==
    [][\A o \in Owners, p \in Paths :
          mem[o] # Down /\ mem'[o] # Down /\ mem[o].rules[p] = "lock"
              => mem'[o].rules[p] = "lock"]_vars

\* Every check returns: prompts are serialised, and each ends by its deadline.
ChecksReturn ==
    \A t \in Threads : rq[t].pc \in {"wait", "ask"} ~> rq[t].pc \notin {"wait", "ask"}
=============================================================================
