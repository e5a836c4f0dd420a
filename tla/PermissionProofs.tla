-------------------------- MODULE PermissionProofs --------------------------
(***************************************************************************)
(* Theorems about Permission, for any set of paths, sessions and commands, *)
(* any number of concurrent checks, and any number of edits, restarts and  *)
(* failed writes.                                                          *)
(*                                                                         *)
(* Neither invariant of the runs is inductive.  What a copy allows must be *)
(* traced to the person who granted it, in every copy and in the file,     *)
(* since each of them may overwrite the others (Traced); and a check that  *)
(* waits must not be one the copy refuses, since its prompt does not look  *)
(* at the locks again (Admitted).                                          *)
(***************************************************************************)
EXTENDS Permission, TLAPS

Grants == {"r", "w", "rw"}

Phases == {"idle", "wait", "ask", "allow", "deny"}

Modes == {"r", "w", "x"}

\* Every variable has its type, and checks run only in a running agent.
TypeOK ==
    /\ disk \in Store
    /\ mem \in [Owners -> Store \cup {Down}]
    /\ rq \in [Threads -> [pc : Phases, req : Requests \cup {NoRequest}, asked : BOOLEAN]]
    /\ consent \subseteq Requests
    /\ \A t \in Threads : rq[t].pc # "idle" => rq[t].req \in Requests /\ mem["agent"] \in Store

\* Behind every standing grant and every session grant of store s there is one
\* that a person gave, among those in g.
Backed(s, g) ==
    /\ \A p \in Paths, m \in {"r", "w"} :
          s.rules[p] \in Grants /\ Allows(s.rules[p], m)
              => [path |-> p, mode |-> m, sid |-> None] \in g
    /\ \A q \in Targets :
          s.sess[q] # None
              => [path |-> q, mode |-> s.sess[q].mode, sid |-> s.sess[q].sid] \in g

\* The file and every copy of it are backed.
Traced ==
    /\ Backed(disk, consent)
    /\ \A o \in Owners : mem[o] # Down => Backed(mem[o], consent)

\* The copy s refuses request r, whatever is granted.
Refuses(s, r) ==
    \/ r.path \in s.deny
    \/ Locked(s, r.path)
    \/ r.mode # "r" /\ r.path \in Mandatory

\* No check that waits, prompts or is allowed is one the agent's copy refuses.
\* Commands never prompt.
Admitted ==
    \A t \in Threads :
        /\ rq[t].pc \in {"wait", "ask", "allow"} /\ rq[t].req.path # Pty
              => ~Refuses(mem["agent"], rq[t].req)
        /\ rq[t].pc \in {"wait", "ask"} => rq[t].req.path \notin Commands

\* The inductive invariant.
PermissionInv == TypeOK /\ Traced /\ Admitted /\ ConsentBehindAllow

USE PermissionAssumption, DownAssumption

-----------------------------------------------------------------------------
(* The store's operations *)

\* The fields of a store.
LEMMA StoreFacts ==
    ASSUME NEW s \in Store
    PROVE  /\ s = [rules |-> s.rules, sess |-> s.sess, deny |-> s.deny]
           /\ s.rules \in [Paths -> {"none", "lock", "r", "w", "rw"}]
           /\ s.sess \in [Targets -> {None} \cup [sid : Sessions, mode : {"r", "w", "x"}]]
           /\ s.deny \subseteq Commands
BY DEF Store

\* The fields of a request.
LEMMA RequestFacts ==
    ASSUME NEW r \in Requests
    PROVE  /\ r = [path |-> r.path, mode |-> r.mode, sid |-> r.sid]
           /\ r.sid \in Sessions \cup {None}
           /\ \/ r.path \in Paths /\ r.mode \in {"r", "w"}
              \/ r.path = Pty /\ r.mode = "x"
              \/ r.path \in Commands /\ r.mode = "x" /\ r.sid = None
BY DEF Requests

\* upsertRule keeps hardlocks, and makes none of a grant.
LEMMA AddPermanentFacts ==
    ASSUME NEW s \in Store, NEW p \in Paths, NEW mode \in Grants,
           NEW t, t = AddPermanentRule(s, p, mode)
    PROVE  /\ t \in Store
           /\ t.sess = s.sess /\ t.deny = s.deny
           /\ \A q \in Paths : t.rules[q] = "lock" <=> s.rules[q] = "lock"
           /\ \A q \in Paths : q # p => t.rules[q] = s.rules[q]
           /\ t.rules[p] \in Grants => \/ t.rules[p] = mode
                                       \/ /\ t.rules[p] = "rw"
                                          /\ s.rules[p] \in Grants
                                          /\ s.rules[p] # mode
BY StoreFacts DEF AddPermanentRule, UnionMode, Grants, Store

\* A session grant changes only the session grant of its path.
LEMMA AddSessionFacts ==
    ASSUME NEW s \in Store, NEW p \in Targets, NEW mode \in Modes, NEW sid \in Sessions,
           NEW t, t = AddSessionRule(s, p, mode, sid)
    PROVE  /\ t \in Store
           /\ t.rules = s.rules /\ t.deny = s.deny
           /\ \A q \in Targets : q # p => t.sess[q] = s.sess[q]
           /\ t.sess[p].sid = sid /\ t.sess[p].mode = mode
BY StoreFacts DEF AddSessionRule, Modes, Store

\* A removal takes nothing but the rule of its path.
LEMMA RemoveFacts ==
    ASSUME NEW s \in Store, NEW p \in Paths, NEW hard \in BOOLEAN,
           NEW t, t = RemoveRule(s, p, hard)
    PROVE  /\ t \in Store
           /\ t.sess = s.sess
           /\ \A q \in Paths : t.rules[q] = s.rules[q] \/ (q = p /\ t.rules[q] \in {"none", "lock"})
BY StoreFacts DEF RemoveRule, Store

\* Locking a path replaces its rule.
LEMMA HardlockFacts ==
    ASSUME NEW s \in Store, NEW p \in Paths, NEW t, t = AddHardlock(s, p)
    PROVE  /\ t \in Store
           /\ t.sess = s.sess /\ t.deny = s.deny
           /\ \A q \in Paths : t.rules[q] = s.rules[q] \/ t.rules[q] = "lock"
BY StoreFacts DEF AddHardlock, Store

\* Seeding grants nothing.
LEMMA SeededFacts ==
    ASSUME NEW s \in Store, NEW t, t = Seeded(s)
    PROVE  /\ t \in Store
           /\ t.sess = s.sess
           /\ \A q \in Paths : t.rules[q] = s.rules[q] \/ t.rules[q] \in {"none", "lock"}
BY StoreFacts DEF Seeded, Store

\* A copy that grants no more than another is backed as that one is, also when
\* a person has granted more meanwhile.
LEMMA BackedSub ==
    ASSUME NEW s, NEW t, NEW g, NEW h, Backed(s, g), g \subseteq h,
           t.sess = s.sess,
           \A q \in Paths : t.rules[q] = s.rules[q] \/ t.rules[q] \in {"none", "lock"}
    PROVE  Backed(t, h)
BY DEF Backed, Grants

\* A standing grant is backed by the person who gave it, also where it widens
\* an earlier one.
LEMMA BackedPermanent ==
    ASSUME NEW s \in Store, NEW g, NEW h, Backed(s, g), g \subseteq h,
           NEW p \in Paths, NEW mode \in Grants, Granted(p, mode) \subseteq h,
           NEW t, t = AddPermanentRule(s, p, mode)
    PROVE  Backed(t, h)
<1>1. ASSUME NEW q \in Paths, NEW m \in {"r", "w"}, t.rules[q] \in Grants, Allows(t.rules[q], m)
      PROVE  [path |-> q, mode |-> m, sid |-> None] \in h
  <2>1. CASE q # p
    <3>1. t.rules[q] = s.rules[q]
      BY <2>1, AddPermanentFacts
    <3> QED
      BY <3>1, <1>1 DEF Backed
  <2>2. CASE q = p /\ Allows(mode, m)
    BY <2>2 DEF Granted
  <2>3. CASE q = p /\ ~Allows(mode, m)
    <3>1. s.rules[p] \in Grants /\ s.rules[p] # mode
      BY <2>3, <1>1, AddPermanentFacts
    <3>2. Allows(s.rules[p], m)
      BY <3>1, <2>3 DEF Allows, Grants
    <3> QED
      BY <3>1, <3>2, <2>3 DEF Backed
  <2> QED
    BY <2>1, <2>2, <2>3
<1>2. t.sess = s.sess
  BY AddPermanentFacts
<1> QED
  BY <1>1, <1>2 DEF Backed

\* A session grant is backed by the person who gave it.
LEMMA BackedSession ==
    ASSUME NEW s \in Store, NEW g, NEW h, Backed(s, g), g \subseteq h,
           NEW p \in Targets, NEW mode \in Modes, NEW sid \in Sessions,
           [path |-> p, mode |-> mode, sid |-> sid] \in h,
           NEW t, t = AddSessionRule(s, p, mode, sid)
    PROVE  Backed(t, h)
<1>1. /\ t.rules = s.rules
      /\ \A q \in Targets : q # p => t.sess[q] = s.sess[q]
      /\ t.sess[p].sid = sid /\ t.sess[p].mode = mode
  BY AddSessionFacts
<1> QED
  BY <1>1 DEF Backed

\* A person's grant is behind request r, among those in g.
Granting(g, r) ==
    \E c \in g : c.sid \in {None, r.sid} /\ c.mode = r.mode /\ Inside(r.path, c.path)

\* What a backed copy allows for good, or within a session, a person granted.
LEMMA BackedAllows ==
    ASSUME NEW s \in Store, NEW g, Backed(s, g), NEW r \in Requests,
           \/ Standing(s, r) /\ r.path \in Paths
           \/ InSession(s, r)
    PROVE  Granting(g, r)
<1>1. CASE Standing(s, r) /\ r.path \in Paths
  <2>1. PICK q \in Paths : /\ s.rules[q] \in Grants
                           /\ Allows(s.rules[q], r.mode) /\ Inside(r.path, q)
    BY <1>1 DEF Standing, Grants
  <2>2. r.mode \in {"r", "w"}
    BY <1>1, RequestFacts
  <2>3. [path |-> q, mode |-> r.mode, sid |-> None] \in g
    BY <2>1, <2>2 DEF Backed
  <2> QED
    BY <2>1, <2>3 DEF Granting
<1>2. CASE InSession(s, r)
  <2>1. PICK q \in Targets : /\ s.sess[q] # None /\ s.sess[q].sid = r.sid
                             /\ Allows(s.sess[q].mode, r.mode) /\ Inside(r.path, q)
    BY <1>2 DEF InSession
  <2>2. s.sess[q] \in [sid : Sessions, mode : {"r", "w", "x"}]
    BY <2>1, StoreFacts
  <2>3. s.sess[q].mode = r.mode
    BY <2>1, <2>2 DEF Allows
  <2>4. [path |-> q, mode |-> r.mode, sid |-> r.sid] \in g
    BY <2>1, <2>3 DEF Backed
  <2> QED
    BY <2>1, <2>4 DEF Granting
<1> QED
  BY <1>1, <1>2

\* What the gate decides at once, for a request of any kind.
Verdict(s, r) ==
    CASE r.path = Pty         -> CheckPTY(s, r)
      [] r.path \in Commands -> CheckExec(s, r)
      [] OTHER               -> CheckBody(s, r)

\* The gate denies what the copy refuses; of paths and terminals it allows only
\* the work_dir and what is granted.
LEMMA VerdictFacts ==
    ASSUME NEW s \in Store, NEW r \in Requests, NEW v, v = Verdict(s, r)
    PROVE  /\ v \in {"allow", "deny", "wait"}
           /\ v # "deny" /\ r.path # Pty => ~Refuses(s, r)
           /\ v = "wait" => r.path \notin Commands
           /\ v = "allow" /\ r.path \notin Commands =>
                 \/ r.path \in WorkDir
                 \/ Standing(s, r) /\ r.path \in Paths
                 \/ InSession(s, r)
<1>1. CASE r.path = Pty
  BY <1>1 DEF Verdict, CheckPTY
<1>2. CASE r.path \in Commands
  <2>1. r.path \notin Paths /\ r.path # Pty
    BY <1>2
  <2>2. ~Locked(s, r.path)
    BY <2>1 DEF Locked, Inside
  <2> QED
    BY <1>2, <2>1, <2>2 DEF Verdict, CheckExec, Refuses
<1>3. CASE r.path \in Paths
  <2>1. r.path \notin Commands /\ r.path # Pty /\ r.path \notin s.deny
    BY <1>3, StoreFacts
  <2> QED
    BY <1>3, <2>1 DEF Verdict, CheckBody, Refuses
<1> QED
  BY <1>1, <1>2, <1>3, RequestFacts

-----------------------------------------------------------------------------
(* The steps *)

\* The fields of a check.
LEMMA CheckFacts ==
    ASSUME TypeOK, NEW t \in Threads
    PROVE  /\ rq[t] = [pc |-> rq[t].pc, req |-> rq[t].req, asked |-> rq[t].asked]
           /\ rq[t].pc \in Phases /\ rq[t].asked \in BOOLEAN
           /\ rq[t].req \in Requests \cup {NoRequest}
           /\ rq[t].pc # "idle" => rq[t].req \in Requests /\ mem["agent"] \in Store
BY DEF TypeOK

\* A step of others, which leaves the agent's copy and its checks alone and
\* takes no grant back, keeps what is said of the checks.
LEMMA ElsewhereStep ==
    ASSUME Admitted, ConsentBehindAllow,
           rq' = rq, mem'["agent"] = mem["agent"], consent \subseteq consent'
    PROVE  Admitted' /\ ConsentBehindAllow'
BY DEF Admitted, ConsentBehindAllow, Refuses, Locked

\* A step that gives the check of thread t the record e, which the agent's copy
\* then admits, takes no grant back and makes the copy refuse no more than
\* before, keeps what is said of all checks.
LEMMA ThreadStep ==
    ASSUME PermissionInv, NEW t \in Threads,
           NEW e \in [pc : Phases, req : Requests \cup {NoRequest}, asked : BOOLEAN],
           rq' = [rq EXCEPT ![t] = e],
           mem["agent"] \in Store => mem'["agent"] \in Store,
           consent \subseteq consent',
           \A r \in Requests : Refuses(mem'["agent"], r) => Refuses(mem["agent"], r),
           e.pc # "idle" => e.req \in Requests /\ mem["agent"] \in Store,
           e.pc \in {"wait", "ask", "allow"} /\ e.req.path # Pty => ~Refuses(mem["agent"], e.req),
           e.pc \in {"wait", "ask"} => e.req.path \notin Commands,
           e.pc = "allow" /\ e.req.path \notin Commands =>
               e.asked \/ e.req.path \in WorkDir \/ Granting(consent', e.req)
    PROVE  /\ rq' \in [Threads -> [pc : Phases, req : Requests \cup {NoRequest}, asked : BOOLEAN]]
           /\ \A u \in Threads : rq'[u].pc # "idle" => rq'[u].req \in Requests /\ mem'["agent"] \in Store
           /\ Admitted' /\ ConsentBehindAllow'
<1>0. TypeOK /\ Admitted /\ ConsentBehindAllow
  BY DEF PermissionInv
<1>1. rq'[t] = e /\ \A u \in Threads : u # t => rq'[u] = rq[u]
  BY <1>0 DEF TypeOK
<1>2. rq' \in [Threads -> [pc : Phases, req : Requests \cup {NoRequest}, asked : BOOLEAN]]
  BY <1>0 DEF TypeOK
<1>3. \A u \in Threads : rq'[u].pc # "idle" => rq'[u].req \in Requests /\ mem'["agent"] \in Store
  BY <1>0, <1>1 DEF TypeOK
<1>4. ASSUME NEW u \in Threads
      PROVE  /\ rq'[u].pc \in {"wait", "ask", "allow"} /\ rq'[u].req.path # Pty
                   => ~Refuses(mem'["agent"], rq'[u].req)
             /\ rq'[u].pc \in {"wait", "ask"} => rq'[u].req.path \notin Commands
  <2>1. CASE u = t
    BY <2>1, <1>1
  <2>2. CASE u # t
    <3>1. rq[u].pc # "idle" => rq[u].req \in Requests
      BY <1>0 DEF TypeOK
    <3>2. /\ rq[u].pc \in {"wait", "ask", "allow"} /\ rq[u].req.path # Pty
                => ~Refuses(mem["agent"], rq[u].req)
          /\ rq[u].pc \in {"wait", "ask"} => rq[u].req.path \notin Commands
      BY <1>0 DEF Admitted
    <3> QED
      BY <2>2, <3>1, <3>2, <1>1
  <2> QED
    BY <2>1, <2>2
<1>5. Admitted'
  BY <1>4 DEF Admitted, Refuses, Locked
<1>6. ConsentBehindAllow'
  BY <1>0, <1>1 DEF ConsentBehindAllow, Granting
<1> QED
  BY <1>2, <1>3, <1>5, <1>6

\* A request reaches the gate.
LEMMA CheckStep ==
    ASSUME PermissionInv, NEW t \in Threads, Check(t)
    PROVE  PermissionInv'
<1> DEFINE s == mem["agent"]
<1>0. TypeOK /\ Traced /\ mem["agent"] \in Store /\ Backed(s, consent)
  BY DEF PermissionInv, Check, TypeOK, Traced, Owners
<1>1. PICK r \in Requests :
         rq' = [rq EXCEPT ![t] = [pc |-> Verdict(s, r), req |-> r, asked |-> FALSE]]
  BY DEF Check, Verdict
<1>2. UNCHANGED <<disk, mem, consent>>
  BY DEF Check
<1> DEFINE v == Verdict(s, r)
           e == [pc |-> v, req |-> r, asked |-> FALSE]
<1>3. /\ v \in {"allow", "deny", "wait"}
      /\ v # "deny" /\ r.path # Pty => ~Refuses(s, r)
      /\ v = "wait" => r.path \notin Commands
      /\ v = "allow" /\ r.path \notin Commands => r.path \in WorkDir \/ Granting(consent, r)
  BY <1>0, VerdictFacts, BackedAllows
<1> HIDE DEF v
<1>4. e \in [pc : Phases, req : Requests \cup {NoRequest}, asked : BOOLEAN]
  BY <1>3 DEF Phases
<1>5. rq' = [rq EXCEPT ![t] = e]
  BY <1>1 DEF v
<1>6. \A q \in Requests : Refuses(mem'["agent"], q) => Refuses(mem["agent"], q)
  BY <1>2
<1>7. /\ rq' \in [Threads -> [pc : Phases, req : Requests \cup {NoRequest}, asked : BOOLEAN]]
      /\ \A u \in Threads : rq'[u].pc # "idle" => rq'[u].req \in Requests /\ mem'["agent"] \in Store
      /\ Admitted' /\ ConsentBehindAllow'
  BY <1>0, <1>2, <1>3, <1>4, <1>5, <1>6, ThreadStep
<1> QED
  BY <1>0, <1>2, <1>7 DEF PermissionInv, TypeOK, Traced

\* A check takes the prompt lock, and looks again at the grants.
LEMMA TakePromptStep ==
    ASSUME PermissionInv, NEW t \in Threads, TakePrompt(t)
    PROVE  PermissionInv'
<1> DEFINE s == mem["agent"]
           r == rq[t].req
<1>0. TypeOK /\ Traced /\ s \in Store /\ Backed(s, consent) /\ r \in Requests
  BY DEF PermissionInv, TakePrompt, TypeOK, Traced, Owners
<1>1. UNCHANGED <<disk, mem, consent>> /\ rq[t].pc = "wait"
  BY DEF TakePrompt
<1>2. (r.path # Pty => ~Refuses(s, r)) /\ r.path \notin Commands
  BY <1>1 DEF PermissionInv, Admitted
<1>3. PICK pc \in {"allow", "ask"} :
         /\ rq' = [rq EXCEPT ![t].pc = pc]
         /\ pc = "allow" => Recheck(s, r)
  BY DEF TakePrompt
<1> DEFINE e == [pc |-> pc, req |-> r, asked |-> rq[t].asked]
<1>4. rq[t] = [pc |-> "wait", req |-> r, asked |-> rq[t].asked] /\ rq[t].asked \in BOOLEAN
  BY <1>0, <1>1, CheckFacts
<1>5. e \in [pc : Phases, req : Requests \cup {NoRequest}, asked : BOOLEAN]
  BY <1>0, <1>4 DEF Phases
<1>6. rq' = [rq EXCEPT ![t] = e]
  <2>1. [rq[t] EXCEPT !.pc = pc] = e
    BY <1>4
  <2> QED
    BY <1>3, <2>1
<1>7. pc = "allow" => Granting(consent, r)
  <2>1. r.path # Pty => r.path \in Paths
    BY <1>0, <1>2, RequestFacts
  <2> QED
    BY <2>1, <1>0, <1>3, BackedAllows DEF Recheck
<1>8. \A q \in Requests : Refuses(mem'["agent"], q) => Refuses(mem["agent"], q)
  BY <1>1
<1> HIDE DEF s, r
<1>9. /\ rq' \in [Threads -> [pc : Phases, req : Requests \cup {NoRequest}, asked : BOOLEAN]]
      /\ \A u \in Threads : rq'[u].pc # "idle" => rq'[u].req \in Requests /\ mem'["agent"] \in Store
      /\ Admitted' /\ ConsentBehindAllow'
  BY <1>0, <1>1, <1>2, <1>5, <1>6, <1>7, <1>8, ThreadStep DEF s
<1> QED
  BY <1>0, <1>1, <1>9 DEF PermissionInv, TypeOK, Traced

\* Copies with the same locks and the same deny list refuse the same.
LEMMA RefusesSame ==
    ASSUME NEW s, NEW t, t.deny = s.deny,
           \A q \in Paths : t.rules[q] = "lock" <=> s.rules[q] = "lock"
    PROVE  \A r \in Requests : Refuses(t, r) => Refuses(s, r)
BY DEF Refuses, Locked

\* Writing a backed store to a copy, and perhaps to the file, keeps the stores
\* typed and traced.
LEMMA CommitStep ==
    ASSUME TypeOK, Traced, NEW o \in Owners, NEW s \in Store, Backed(s, consent'),
           consent \subseteq consent',
           mem' = [mem EXCEPT ![o] = s], disk' = s \/ disk' = disk
    PROVE  /\ disk' \in Store /\ mem' \in [Owners -> Store \cup {Down}]
           /\ mem'[o] = s /\ \A u \in Owners : u # o => mem'[u] = mem[u]
           /\ Traced'
<1>1. mem'[o] = s /\ \A u \in Owners : u # o => mem'[u] = mem[u]
  BY DEF TypeOK
<1>2. Backed(disk, consent') /\ \A u \in Owners : mem[u] # Down => Backed(mem[u], consent')
  BY BackedSub DEF Traced
<1>3. Backed(disk', consent') /\ \A u \in Owners : mem'[u] # Down => Backed(mem'[u], consent')
  BY <1>1, <1>2
<1> QED
  BY <1>1, <1>3 DEF TypeOK, Traced, Backed

\* The person answers.
LEMMA AnswerStep ==
    ASSUME PermissionInv, NEW t \in Threads, Answer(t)
    PROVE  PermissionInv'
<1> DEFINE s == mem["agent"]
           r == rq[t].req
<1>0. TypeOK /\ Traced /\ s \in Store /\ Backed(s, consent) /\ r \in Requests /\ "agent" \in Owners
  BY DEF PermissionInv, Answer, TypeOK, Traced, Owners
<1>1. (r.path # Pty => ~Refuses(s, r)) /\ r.path \notin Commands
  BY DEF PermissionInv, Admitted, Answer
<1>2. /\ r = [path |-> r.path, mode |-> r.mode, sid |-> r.sid]
      /\ r.sid \in Sessions \cup {None}
      /\ \/ r.path \in Paths /\ r.mode \in {"r", "w"}
         \/ r.path = Pty /\ r.mode = "x"
  BY <1>0, <1>1, RequestFacts
<1>3. PICK pc \in {"allow", "deny"} :
         rq' = [rq EXCEPT ![t] = [pc |-> pc, req |-> r, asked |-> (pc = "allow")]]
  BY DEF Answer, Decide
<1> DEFINE e == [pc |-> pc, req |-> r, asked |-> (pc = "allow")]
<1>4. e \in [pc : Phases, req : Requests \cup {NoRequest}, asked : BOOLEAN]
  BY <1>0 DEF Phases
<1>5. /\ disk' \in Store /\ mem' \in [Owners -> Store \cup {Down}] /\ mem'["agent"] \in Store
      /\ consent \subseteq consent' /\ consent' \subseteq Requests
      /\ Traced'
      /\ \A q \in Requests : Refuses(mem'["agent"], q) => Refuses(mem["agent"], q)
  <2>1. CASE UNCHANGED <<disk, mem, consent, events>>
    BY <2>1, <1>0 DEF TypeOK, Traced
  <2>2. CASE r.sid # None /\ AnswerSession(t)
    <3> DEFINE n == AddSessionRule(s, r.path, r.mode, r.sid)
    <3>1. r.path \in Targets /\ r.mode \in Modes /\ r.sid \in Sessions
      BY <1>2, <2>2 DEF Targets, Modes
    <3>2. /\ mem' = [mem EXCEPT !["agent"] = n] /\ (disk' = n \/ disk' = disk)
          /\ consent' = consent \cup {r}
      BY <2>2 DEF AnswerSession, Commit
    <3>3. n \in Store /\ n.rules = s.rules /\ n.deny = s.deny
      <4> HIDE DEF r, s
      <4> QED
        BY <1>0, <3>1, AddSessionFacts
    <3>4. Backed(n, consent')
      <4>1. [path |-> r.path, mode |-> r.mode, sid |-> r.sid] \in consent'
        BY <1>2, <3>2
      <4> HIDE DEF r, s
      <4> QED
        BY <1>0, <3>1, <3>2, <4>1, BackedSession
    <3> HIDE DEF n
    <3>5. consent \subseteq consent' /\ consent' \subseteq Requests
      BY <1>0, <3>2 DEF TypeOK
    <3>6. /\ disk' \in Store /\ mem' \in [Owners -> Store \cup {Down}]
          /\ mem'["agent"] = n /\ Traced'
      BY <1>0, <3>2, <3>3, <3>4, <3>5, CommitStep
    <3>7. \A q \in Requests : Refuses(n, q) => Refuses(s, q)
      BY <3>3, RefusesSame
    <3> QED
      BY <3>3, <3>5, <3>6, <3>7
  <2>3. CASE r.path # Pty /\ AnswerPermanent(t)
    <3> DEFINE n == AddPermanentRule(s, r.path, r.mode)
    <3>1. r.path \in Paths /\ r.mode \in {"r", "w"} /\ r.mode \in Grants
      BY <1>2, <2>3 DEF Grants
    <3>2. /\ mem' = [mem EXCEPT !["agent"] = n] /\ (disk' = n \/ disk' = disk)
          /\ consent' = consent \cup {[r EXCEPT !.sid = None]}
      BY <2>3 DEF AnswerPermanent, Commit
    <3>3. /\ n \in Store /\ n.deny = s.deny
          /\ \A q \in Paths : n.rules[q] = "lock" <=> s.rules[q] = "lock"
      BY <1>0, <3>1, AddPermanentFacts
    <3>4. [r EXCEPT !.sid = None] = [path |-> r.path, mode |-> r.mode, sid |-> None]
      BY <1>2
    <3>5. consent \subseteq consent' /\ consent' \subseteq Requests
      <4>1. [path |-> r.path, mode |-> r.mode, sid |-> None] \in Requests
        BY <3>1 DEF Requests
      <4> QED
        BY <1>0, <3>2, <3>4, <4>1 DEF TypeOK
    <3>6. Granted(r.path, r.mode) \subseteq consent'
      BY <3>1, <3>2, <3>4 DEF Granted, Allows
    <3>7. Backed(n, consent')
      <4> HIDE DEF r, s
      <4> QED
        BY <1>0, <3>1, <3>5, <3>6, BackedPermanent
    <3> HIDE DEF n
    <3>8. /\ disk' \in Store /\ mem' \in [Owners -> Store \cup {Down}]
          /\ mem'["agent"] = n /\ Traced'
      BY <1>0, <3>2, <3>3, <3>5, <3>7, CommitStep
    <3>9. \A q \in Requests : Refuses(n, q) => Refuses(s, q)
      BY <3>3, RefusesSame
    <3> QED
      BY <3>3, <3>5, <3>8, <3>9
  <2> QED
    BY <2>1, <2>2, <2>3 DEF Answer, AnswerSession
<1> HIDE DEF r, s
<1>6. rq[t].pc = "ask"
  BY DEF Answer
<1>7. e.pc = pc /\ e.req = r /\ e.asked = (pc = "allow")
  OBVIOUS
<1> HIDE DEF e
<1>8. /\ rq' \in [Threads -> [pc : Phases, req : Requests \cup {NoRequest}, asked : BOOLEAN]]
      /\ \A u \in Threads : rq'[u].pc # "idle" => rq'[u].req \in Requests /\ mem'["agent"] \in Store
      /\ Admitted' /\ ConsentBehindAllow'
  <2>1. rq' = [rq EXCEPT ![t] = e]
    BY <1>3 DEF e
  <2> QED
    BY <1>0, <1>1, <1>4, <1>5, <1>7, <2>1, ThreadStep DEF s
<1> QED
  BY <1>5, <1>8 DEF PermissionInv, TypeOK

\* A check ends: it fails closed at the prompt, or its decision is returned.
LEMMA CheckEndsStep ==
    ASSUME PermissionInv, NEW t \in Threads, PromptFails(t) \/ Return(t)
    PROVE  PermissionInv'
<1>0. TypeOK /\ Traced
  BY DEF PermissionInv
<1>1. UNCHANGED <<disk, mem, consent>>
  BY DEF PromptFails, Return
<1>2. PICK e \in [pc : {"idle", "deny"}, req : Requests \cup {NoRequest}, asked : BOOLEAN] :
         /\ rq' = [rq EXCEPT ![t] = e]
         /\ e.pc = "deny" => e.req \in Requests /\ mem["agent"] \in Store
  <2>1. CASE PromptFails(t)
    <3>1. rq' = [rq EXCEPT ![t] = [pc |-> "deny", req |-> rq[t].req, asked |-> ("deny" = "allow")]]
      BY <2>1 DEF PromptFails, Decide
    <3>2. rq[t].req \in Requests /\ mem["agent"] \in Store
      BY <1>0, <2>1, CheckFacts DEF PromptFails
    <3> DEFINE e == [pc |-> "deny", req |-> rq[t].req, asked |-> FALSE]
    <3>3. e \in [pc : {"idle", "deny"}, req : Requests \cup {NoRequest}, asked : BOOLEAN]
      BY <3>2
    <3>4. rq' = [rq EXCEPT ![t] = e] /\ e.req \in Requests
      BY <3>1, <3>2
    <3> QED
      BY <3>2, <3>3, <3>4
  <2>2. CASE Return(t)
    <3> DEFINE e == [pc |-> "idle", req |-> NoRequest, asked |-> FALSE]
    <3>1. e \in [pc : {"idle", "deny"}, req : Requests \cup {NoRequest}, asked : BOOLEAN]
      OBVIOUS
    <3>2. rq' = [rq EXCEPT ![t] = e] /\ e.pc = "idle"
      BY <2>2 DEF Return
    <3> QED
      BY <3>1, <3>2
  <2> QED
    BY <2>1, <2>2
<1>3. e \in [pc : Phases, req : Requests \cup {NoRequest}, asked : BOOLEAN] /\ e.pc \in {"idle", "deny"}
  BY DEF Phases
<1>4. /\ rq' \in [Threads -> [pc : Phases, req : Requests \cup {NoRequest}, asked : BOOLEAN]]
      /\ \A u \in Threads : rq'[u].pc # "idle" => rq'[u].req \in Requests /\ mem'["agent"] \in Store
      /\ Admitted' /\ ConsentBehindAllow'
  BY <1>1, <1>2, <1>3, ThreadStep
<1> QED
  BY <1>0, <1>1, <1>4 DEF PermissionInv, TypeOK, Traced

\* Store s without the session grant that is over with r.
Without(s, r) ==
    [s EXCEPT !.sess = [q \in Targets |->
        IF s.sess[q] # None /\ s.sess[q].sid = r.sid /\ q = r.path THEN None ELSE s.sess[q]]]

\* Expiry takes that grant and nothing else.
LEMMA WithoutFacts ==
    ASSUME NEW s \in Store, NEW r \in Requests, NEW t, t = Without(s, r)
    PROVE  /\ t \in Store
           /\ t.rules = s.rules /\ t.deny = s.deny
           /\ \A q \in Targets : t.sess[q] # None =>
                 t.sess[q] = s.sess[q] /\ ~(s.sess[q].sid = r.sid /\ q = r.path)
BY StoreFacts DEF Without, Store

\* A session grant is over.
LEMMA GrantExpiresStep ==
    ASSUME PermissionInv, NEW r \in consent, GrantExpires(r)
    PROVE  PermissionInv'
<1>0. TypeOK /\ Traced /\ Admitted /\ r \in Requests
  BY DEF PermissionInv, TypeOK
<1>1. /\ r.sid # None
      /\ \A t \in Threads : rq[t].pc # "allow"
      /\ disk' = Without(disk, r)
      /\ mem' = [o \in Owners |-> IF mem[o] = Down THEN Down ELSE Without(mem[o], r)]
      /\ consent' = {c \in consent : c.sid # r.sid \/ c.path # r.path}
      /\ rq' = rq
  BY DEF GrantExpires, Without
<1>2. ASSUME NEW s \in Store, Backed(s, consent), NEW t, t = Without(s, r)
      PROVE  t \in Store /\ Backed(t, consent')
  <2>1. /\ t \in Store
        /\ t.rules = s.rules
        /\ \A q \in Targets : t.sess[q] # None =>
              t.sess[q] = s.sess[q] /\ ~(s.sess[q].sid = r.sid /\ q = r.path)
    BY <1>0, <1>2, WithoutFacts
  <2>2. \A p \in Paths, m \in {"r", "w"} :
           t.rules[p] \in Grants /\ Allows(t.rules[p], m)
               => [path |-> p, mode |-> m, sid |-> None] \in consent'
    BY <1>1, <1>2, <2>1 DEF Backed
  <2>3. \A q \in Targets : t.sess[q] # None
            => [path |-> q, mode |-> t.sess[q].mode, sid |-> t.sess[q].sid] \in consent'
    BY <1>1, <1>2, <2>1 DEF Backed
  <2> QED
    BY <2>1, <2>2, <2>3 DEF Backed
<1>3. disk' \in Store /\ Backed(disk', consent')
  BY <1>0, <1>1, <1>2 DEF TypeOK, Traced
<1>4. ASSUME NEW o \in Owners
      PROVE  /\ mem'[o] \in Store \cup {Down}
             /\ mem[o] \in Store => mem'[o] \in Store
             /\ mem'[o] # Down => Backed(mem'[o], consent')
             /\ mem'[o] # Down => mem'[o] = Without(mem[o], r) /\ mem[o] \in Store
  BY <1>0, <1>1, <1>2 DEF TypeOK, Traced
<1>5. TypeOK'
  <2>1. mem' \in [Owners -> Store \cup {Down}] /\ consent' \subseteq Requests
    BY <1>0, <1>1, <1>4 DEF TypeOK
  <2>2. mem["agent"] \in Store => mem'["agent"] \in Store
    BY <1>4 DEF Owners
  <2> QED
    BY <1>0, <1>1, <1>3, <2>1, <2>2 DEF TypeOK
<1>6. Traced'
  BY <1>3, <1>4 DEF Traced, Backed
<1>7. Admitted'
  <2>1. mem["agent"] \in Store => \A q \in Requests : Refuses(mem'["agent"], q) => Refuses(mem["agent"], q)
    <3> SUFFICES ASSUME mem["agent"] \in Store
                 PROVE  \A q \in Requests : Refuses(mem'["agent"], q) => Refuses(mem["agent"], q)
      OBVIOUS
    <3>1. mem'["agent"].deny = mem["agent"].deny /\ mem'["agent"].rules = mem["agent"].rules
      BY <1>0, <1>1, <1>4, WithoutFacts DEF Owners
    <3> QED
      BY <3>1, RefusesSame
  <2>2. ASSUME NEW t \in Threads
        PROVE  /\ rq[t].pc \in {"wait", "ask", "allow"} /\ rq[t].req.path # Pty
                     => ~Refuses(mem'["agent"], rq[t].req)
               /\ rq[t].pc \in {"wait", "ask"} => rq[t].req.path \notin Commands
    <3>1. /\ rq[t].pc \in {"wait", "ask", "allow"} /\ rq[t].req.path # Pty
                => ~Refuses(mem["agent"], rq[t].req)
          /\ rq[t].pc \in {"wait", "ask"} => rq[t].req.path \notin Commands
      BY <1>0 DEF Admitted
    <3> QED
      BY <1>0, <2>1, <3>1, CheckFacts
  <2> QED
    BY <1>1, <2>2 DEF Admitted, Refuses, Locked
<1>8. ConsentBehindAllow'
  BY <1>1 DEF ConsentBehindAllow
<1> QED
  BY <1>5, <1>6, <1>7, <1>8 DEF PermissionInv

\* A program loads the file.
LEMMA StartStep ==
    ASSUME PermissionInv, NEW o \in Owners, Start(o)
    PROVE  PermissionInv'
<1> DEFINE s == Seeded(disk)
<1>0. TypeOK /\ Traced /\ Admitted /\ ConsentBehindAllow /\ disk \in Store
  BY DEF PermissionInv, TypeOK
<1>1. /\ mem[o] = Down /\ mem' = [mem EXCEPT ![o] = s] /\ (disk' = s \/ disk' = disk)
      /\ rq' = rq /\ consent' = consent
  BY DEF Start, Commit
<1>2. s \in Store /\ Backed(s, consent')
  <2>1. /\ s \in Store /\ s.sess = disk.sess
        /\ \A q \in Paths : s.rules[q] = disk.rules[q] \/ s.rules[q] \in {"none", "lock"}
    BY <1>0, SeededFacts
  <2> HIDE DEF s
  <2> QED
    BY <1>0, <1>1, <2>1, BackedSub DEF Traced
<1> HIDE DEF s
<1>3. /\ disk' \in Store /\ mem' \in [Owners -> Store \cup {Down}]
      /\ mem'[o] = s /\ \A u \in Owners : u # o => mem'[u] = mem[u]
      /\ Traced'
  BY <1>0, <1>1, <1>2, CommitStep
<1>4. CASE o = "agent"
  <2>1. \A t \in Threads : rq[t].pc = "idle"
    BY <1>0, <1>1, <1>4 DEF TypeOK
  <2>2. TypeOK' /\ Admitted' /\ ConsentBehindAllow'
    BY <1>0, <1>1, <1>3, <2>1 DEF TypeOK, Admitted, ConsentBehindAllow
  <2> QED
    BY <1>3, <2>2 DEF PermissionInv
<1>5. CASE o # "agent"
  <2>1. mem'["agent"] = mem["agent"]
    BY <1>3, <1>5 DEF Owners
  <2>2. TypeOK'
    BY <1>0, <1>1, <1>3, <2>1 DEF TypeOK
  <2> QED
    BY <1>0, <1>1, <1>3, <2>1, <2>2, ElsewhereStep DEF PermissionInv
<1> QED
  BY <1>4, <1>5

\* A program ends, and the agent's checks with it.
LEMMA StopStep ==
    ASSUME PermissionInv, NEW o \in Owners, Stop(o)
    PROVE  PermissionInv'
<1>0. TypeOK /\ Traced /\ Admitted /\ ConsentBehindAllow
  BY DEF PermissionInv
<1>1. /\ mem' = [mem EXCEPT ![o] = Down] /\ UNCHANGED <<disk, consent>>
      /\ mem' \in [Owners -> Store \cup {Down}]
      /\ mem'[o] = Down /\ \A u \in Owners : u # o => mem'[u] = mem[u]
  BY <1>0 DEF Stop, TypeOK
<1>2. Traced'
  BY <1>0, <1>1 DEF Traced
<1>3. CASE o = "agent"
  <2>1. rq' = [t \in Threads |-> [pc |-> "idle", req |-> NoRequest, asked |-> FALSE]]
    BY <1>3 DEF Stop
  <2>2. \A t \in Threads : rq'[t].pc = "idle"
    BY <2>1
  <2>3. TypeOK'
    BY <1>0, <1>1, <2>1, <2>2 DEF TypeOK, Phases
  <2>4. Admitted' /\ ConsentBehindAllow'
    BY <2>2 DEF Admitted, ConsentBehindAllow
  <2> QED
    BY <1>2, <2>3, <2>4 DEF PermissionInv
<1>4. CASE o # "agent"
  <2>1. mem'["agent"] = mem["agent"] /\ rq' = rq
    BY <1>1, <1>4 DEF Stop, Owners
  <2>2. TypeOK'
    BY <1>0, <1>1, <2>1 DEF TypeOK
  <2> QED
    BY <1>0, <1>1, <1>2, <2>1, <2>2, ElsewhereStep DEF PermissionInv
<1> QED
  BY <1>3, <1>4

\* What the settings page and the command line can make of store s and of the
\* grants g: t and h.
Edit(s, g, t, h) ==
    \/ \E p \in Paths, mode \in Grants :
          t = AddPermanentRule(s, p, mode) /\ h = g \cup Granted(p, mode)
    \/ h = g /\ \E p \in Paths, hard \in BOOLEAN : t = RemoveRule(s, p, hard)
    \/ h = g /\ \E p \in Paths : t = AddHardlock(s, p)
    \/ h = g /\ t = Seeded(s)
    \/ h = g /\ \E d \in SUBSET Commands : t = [s EXCEPT !.deny = d]

\* An edit leaves a store that is backed.
LEMMA EditBacked ==
    ASSUME NEW s \in Store, NEW g \in SUBSET Requests, Backed(s, g),
           NEW t, NEW h, Edit(s, g, t, h)
    PROVE  t \in Store /\ Backed(t, h) /\ g \subseteq h /\ h \subseteq Requests
<1>1. ASSUME NEW p \in Paths, NEW mode \in Grants,
             t = AddPermanentRule(s, p, mode), h = g \cup Granted(p, mode)
      PROVE  t \in Store /\ Backed(t, h) /\ g \subseteq h /\ h \subseteq Requests
  <2>1. Granted(p, mode) \subseteq Requests
    BY DEF Granted, Requests
  <2>2. Granted(p, mode) \subseteq h /\ g \subseteq h /\ h \subseteq Requests
    BY <1>1, <2>1
  <2> QED
    BY <1>1, <2>2, AddPermanentFacts, BackedPermanent
<1>2. ASSUME NEW p \in Paths, NEW hard \in BOOLEAN, h = g, t = RemoveRule(s, p, hard)
      PROVE  t \in Store /\ Backed(t, h)
  <2>1. /\ t \in Store /\ t.sess = s.sess
        /\ \A q \in Paths : t.rules[q] = s.rules[q] \/ t.rules[q] \in {"none", "lock"}
    BY <1>2, RemoveFacts
  <2> QED
    BY <1>2, <2>1, BackedSub
<1>3. ASSUME NEW p \in Paths, h = g, t = AddHardlock(s, p)
      PROVE  t \in Store /\ Backed(t, h)
  <2>1. /\ t \in Store /\ t.sess = s.sess
        /\ \A q \in Paths : t.rules[q] = s.rules[q] \/ t.rules[q] \in {"none", "lock"}
    BY <1>3, HardlockFacts
  <2> QED
    BY <1>3, <2>1, BackedSub
<1>4. ASSUME h = g, t = Seeded(s)
      PROVE  t \in Store /\ Backed(t, h)
  <2>1. /\ t \in Store /\ t.sess = s.sess
        /\ \A q \in Paths : t.rules[q] = s.rules[q] \/ t.rules[q] \in {"none", "lock"}
    BY <1>4, SeededFacts
  <2> QED
    BY <1>4, <2>1, BackedSub
<1>5. ASSUME NEW d \in SUBSET Commands, h = g, t = [s EXCEPT !.deny = d]
      PROVE  t \in Store /\ Backed(t, h)
  <2>1. t \in Store /\ t.sess = s.sess /\ t.rules = s.rules
    BY <1>5 DEF Store
  <2> QED
    BY <1>5, <2>1, BackedSub
<1> QED
  BY <1>1, <1>2, <1>3, <1>4, <1>5 DEF Edit

\* The settings page edits the tray's copy, and writes it over the file.
LEMMA TrayEditStep ==
    ASSUME PermissionInv, TrayEdit
    PROVE  PermissionInv'
<1>0. /\ TypeOK /\ Traced /\ Admitted /\ ConsentBehindAllow
      /\ mem["tray"] \in Store /\ Backed(mem["tray"], consent) /\ consent \in SUBSET Requests
      /\ mem["tray"].deny \subseteq Commands
      /\ "tray" \in Owners
  BY DEF PermissionInv, TypeOK, Traced, Owners, TrayEdit, Store
<1>1. PICK t : mem' = [mem EXCEPT !["tray"] = t] /\ Edit(mem["tray"], consent, t, consent')
  <2>1. ASSUME NEW p \in Paths, NEW mode \in {"r", "w", "rw"},
               mem' = [mem EXCEPT !["tray"] = AddPermanentRule(@, p, mode)],
               consent' = consent \cup Granted(p, mode)
        PROVE  \E t : mem' = [mem EXCEPT !["tray"] = t] /\ Edit(mem["tray"], consent, t, consent')
    BY <2>1 DEF Edit, Grants
  <2>2. ASSUME NEW p \in Paths, mem' = [mem EXCEPT !["tray"] = RemoveRule(@, p, FALSE)],
               consent' = consent
        PROVE  \E t : mem' = [mem EXCEPT !["tray"] = t] /\ Edit(mem["tray"], consent, t, consent')
    BY <2>2 DEF Edit
  <2>3. ASSUME NEW c \in Commands, NEW d \in {mem["tray"].deny \cup {c}, mem["tray"].deny \ {c}},
               mem' = [mem EXCEPT !["tray"].deny = d], consent' = consent
        PROVE  \E t : mem' = [mem EXCEPT !["tray"] = t] /\ Edit(mem["tray"], consent, t, consent')
    <3>1. d \in SUBSET Commands
      BY <1>0
    <3> QED
      BY <2>3, <3>1 DEF Edit
  <2> QED
    BY <2>1, <2>2, <2>3 DEF TrayEdit
<1>2. t \in Store /\ Backed(t, consent') /\ consent \subseteq consent' /\ consent' \subseteq Requests
  BY <1>0, <1>1, EditBacked
<1>3. mem'["tray"] = t /\ rq' = rq /\ (disk' = t \/ disk' = disk)
  BY <1>0, <1>1 DEF TrayEdit, TypeOK
<1>4. /\ disk' \in Store /\ mem' \in [Owners -> Store \cup {Down}]
      /\ \A u \in Owners : u # "tray" => mem'[u] = mem[u]
      /\ Traced'
  BY <1>0, <1>1, <1>2, <1>3, CommitStep
<1>5. mem'["agent"] = mem["agent"]
  BY <1>4 DEF Owners
<1>6. TypeOK'
  BY <1>0, <1>2, <1>3, <1>4, <1>5 DEF TypeOK
<1> QED
  BY <1>0, <1>2, <1>3, <1>4, <1>5, <1>6, ElsewhereStep DEF PermissionInv

\* The command line edits the file.
LEMMA CliStep ==
    ASSUME PermissionInv, CliEdit \/ CliUnlock
    PROVE  PermissionInv'
<1>0. /\ TypeOK /\ Traced /\ Admitted /\ ConsentBehindAllow
      /\ disk \in Store /\ Backed(disk, consent) /\ consent \in SUBSET Requests
      /\ disk.deny \subseteq Commands
  BY DEF PermissionInv, TypeOK, Traced, Store
<1>1. UNCHANGED <<mem, rq>>
  BY DEF CliEdit, CliUnlock
<1>2. Edit(disk, consent, disk', consent')
  <2>1. CASE CliUnlock
    BY <2>1 DEF CliUnlock, Edit
  <2>2. CASE CliEdit
    <3>1. ASSUME NEW c \in Commands, NEW d \in {disk.deny \cup {c}, disk.deny \ {c}},
                 disk' = [disk EXCEPT !.deny = d], consent' = consent
          PROVE  Edit(disk, consent, disk', consent')
      <4>1. d \in SUBSET Commands
        BY <1>0
      <4> QED
        BY <3>1, <4>1 DEF Edit
    <3>2. ASSUME NEW p \in Paths, NEW mode \in {"r", "w", "rw"},
                 disk' = AddPermanentRule(disk, p, mode), consent' = consent \cup Granted(p, mode)
          PROVE  Edit(disk, consent, disk', consent')
      BY <3>2 DEF Edit, Grants
    <3>3. ASSUME NEW p \in Paths, consent' = consent,
                 disk' = RemoveRule(disk, p, FALSE) \/ disk' = AddHardlock(disk, p)
          PROVE  Edit(disk, consent, disk', consent')
      BY <3>3 DEF Edit
    <3>4. ASSUME disk' = Seeded(disk), consent' = consent
          PROVE  Edit(disk, consent, disk', consent')
      BY <3>4 DEF Edit
    <3> QED
      BY <2>2, <3>1, <3>2, <3>3, <3>4 DEF CliEdit
  <2> QED
    BY <2>1, <2>2
<1>3. /\ disk' \in Store /\ Backed(disk', consent')
      /\ consent \subseteq consent' /\ consent' \subseteq Requests
  BY <1>0, <1>2, EditBacked
<1>4. TypeOK'
  BY <1>0, <1>1, <1>3 DEF TypeOK
<1>5. Traced'
  <2>1. \A o \in Owners : mem[o] # Down => Backed(mem[o], consent')
    BY <1>0, <1>3, BackedSub DEF Traced
  <2> QED
    BY <1>1, <1>3, <2>1 DEF Traced, Backed
<1> QED
  BY <1>0, <1>1, <1>3, <1>4, <1>5, ElsewhereStep DEF PermissionInv

-----------------------------------------------------------------------------
(* The theorems *)

\* A machine without permissions.json satisfies the invariant.
LEMMA InitInv == Init => PermissionInv
<1> SUFFICES ASSUME Init PROVE PermissionInv
  OBVIOUS
<1>1. TypeOK
  BY DEF Init, TypeOK, Store, Phases, Owners
<1>2. Traced
  BY DEF Init, Traced, Backed, Grants, Owners
<1>3. Admitted /\ ConsentBehindAllow
  BY DEF Init, Admitted, ConsentBehindAllow
<1> QED
  BY <1>1, <1>2, <1>3 DEF PermissionInv

\* Every step keeps the invariant.
LEMMA NextInv ==
    ASSUME PermissionInv, [Next]_vars
    PROVE  PermissionInv'
<1>1. CASE UNCHANGED vars
  <2>1. TypeOK' /\ Traced'
    BY <1>1 DEF PermissionInv, vars, TypeOK, Traced
  <2> QED
    BY <1>1, <2>1, ElsewhereStep DEF PermissionInv, vars
<1>2. CASE Next
  BY <1>2, CheckStep, TakePromptStep, AnswerStep, CheckEndsStep, GrantExpiresStep,
     StartStep, StopStep, TrayEditStep, CliStep DEF Next
<1> QED
  BY <1>1, <1>2

\* The inductive invariant holds in every behaviour of the gate, the tray and
\* the command line.
THEOREM Invariance == Spec => []PermissionInv
BY InitInv, NextInv, PTL DEF Spec

\* What the agent's copy locks, the protected files and the denied commands are
\* never allowed (checkBody's order, and the prompt that looks at the grants
\* again but not at the locks).
THEOREM Protected == Spec => []ProtectedNeverAllowed
<1>1. PermissionInv => ProtectedNeverAllowed
  BY DEF PermissionInv, Admitted, ProtectedNeverAllowed, Refuses
<1> QED
  BY <1>1, Invariance, PTL

\* No path and no terminal outside the work_dir is opened without a person's
\* grant, although three programs overwrite one another's copy of the rules.
THEOREM Consent == Spec => []ConsentBehindAllow
<1>1. PermissionInv => ConsentBehindAllow
  BY DEF PermissionInv
<1> QED
  BY <1>1, Invariance, PTL

\* No hardlock of a running program is lifted, in one step of anyone.
LEMMA LocksKept ==
    ASSUME PermissionInv, [Next]_vars
    PROVE  \A o \in Owners, p \in Paths :
               mem[o] # Down /\ mem'[o] # Down /\ mem[o].rules[p] = "lock"
                   => mem'[o].rules[p] = "lock"
<1> SUFFICES ASSUME NEW o \in Owners, NEW p \in Paths,
                    mem[o] # Down, mem'[o] # Down, mem[o].rules[p] = "lock"
             PROVE  mem'[o].rules[p] = "lock"
  OBVIOUS
<1>0. TypeOK /\ Admitted /\ mem[o] \in Store
  BY DEF PermissionInv, TypeOK
<1>1. CASE mem'[o] = mem[o]
  BY <1>1
<1>2. ASSUME NEW t \in Threads, Answer(t), mem' # mem PROVE mem'[o].rules[p] = "lock"
  <2> DEFINE r == rq[t].req
  <2>1. r \in Requests /\ mem["agent"] \in Store /\ r.path \notin Commands
    BY <1>0, <1>2 DEF TypeOK, Admitted, Answer
  <2>2. /\ r.path \in Paths => r.mode \in Grants
        /\ r.path \in Targets /\ r.mode \in Modes
        /\ r.path = Pty \/ r.path \in Paths
        /\ r.sid \in Sessions \cup {None}
    BY <2>1, RequestFacts DEF Grants, Targets, Modes
  <2>3. CASE r.sid # None /\ mem' = [mem EXCEPT !["agent"] = AddSessionRule(mem["agent"], r.path, r.mode, r.sid)]
    <3> DEFINE n == AddSessionRule(mem["agent"], r.path, r.mode, r.sid)
    <3>1. r.sid \in Sessions
      BY <2>2, <2>3
    <3>2. n.rules = mem["agent"].rules
      <4> HIDE DEF r
      <4> QED
        BY <2>1, <2>2, <3>1, AddSessionFacts
    <3> QED
      BY <1>0, <2>3, <3>2 DEF TypeOK
  <2>4. CASE r.path # Pty /\ mem' = [mem EXCEPT !["agent"] = AddPermanentRule(mem["agent"], r.path, r.mode)]
    <3> DEFINE n == AddPermanentRule(mem["agent"], r.path, r.mode)
    <3>1. \A q \in Paths : n.rules[q] = "lock" <=> mem["agent"].rules[q] = "lock"
      <4> HIDE DEF r
      <4> QED
        BY <2>1, <2>2, <2>4, AddPermanentFacts
    <3> QED
      BY <1>0, <2>4, <3>1 DEF TypeOK
  <2> QED
    BY <1>2, <2>3, <2>4 DEF Answer, AnswerSession, AnswerPermanent, Commit
<1>3. ASSUME NEW r \in consent, GrantExpires(r) PROVE mem'[o].rules[p] = "lock"
  <2>1. mem'[o] = Without(mem[o], r) /\ r \in Requests
    BY <1>0, <1>3 DEF GrantExpires, Without, TypeOK
  <2> QED
    BY <1>0, <2>1, WithoutFacts
<1>4. ASSUME NEW u \in Owners, Start(u) \/ Stop(u) PROVE mem'[o] = mem[o]
  BY <1>0, <1>4 DEF Start, Stop, Commit, TypeOK
<1>5. CASE TrayEdit /\ o = "tray"
  <2>1. ASSUME NEW q \in Paths, NEW mode \in {"r", "w", "rw"},
               mem' = [mem EXCEPT !["tray"] = AddPermanentRule(@, q, mode)]
        PROVE  mem'[o].rules[p] = "lock"
    <3>1. mem'[o] = AddPermanentRule(mem[o], q, mode) /\ mode \in Grants
      BY <1>0, <1>5, <2>1 DEF TypeOK, Grants
    <3> QED
      BY <1>0, <3>1, AddPermanentFacts
  <2>2. ASSUME NEW q \in Paths, mem' = [mem EXCEPT !["tray"] = RemoveRule(@, q, FALSE)]
        PROVE  mem'[o].rules[p] = "lock"
    <3>1. mem'[o] = RemoveRule(mem[o], q, FALSE)
      BY <1>0, <1>5, <2>2 DEF TypeOK
    <3> QED
      BY <1>0, <3>1, StoreFacts DEF RemoveRule
  <2>3. ASSUME NEW d, mem' = [mem EXCEPT !["tray"].deny = d]
        PROVE  mem'[o].rules[p] = "lock"
    <3>1. mem'[o] = [mem[o] EXCEPT !.deny = d]
      BY <1>0, <1>5, <2>3 DEF TypeOK
    <3>2. mem'[o].rules = mem[o].rules
      BY <1>0, <3>1, StoreFacts
    <3> QED
      BY <3>2
  <2> QED
    BY <1>5, <2>1, <2>2, <2>3 DEF TrayEdit
<1>6. CASE TrayEdit /\ o # "tray"
  <2>1. mem'[o] = mem[o]
    BY <1>0, <1>6 DEF TrayEdit, TypeOK
  <2> QED
    BY <2>1
<1>7. CASE CliEdit \/ CliUnlock \/ UNCHANGED vars \/ mem' = mem
  BY <1>7 DEF CliEdit, CliUnlock, vars
<1>8. ASSUME NEW t \in Threads, Check(t) \/ TakePrompt(t) \/ PromptFails(t) \/ Return(t)
      PROVE  mem' = mem
  BY <1>8 DEF Check, TakePrompt, PromptFails, Return
<1> QED
  BY <1>1, <1>2, <1>3, <1>4, <1>5, <1>6, <1>7, <1>8 DEF Next

\* A hardlock holds in a running program's copy until the program ends: the
\* tray's page cannot remove it, and a grant cannot replace it.
THEOREM LocksHeld == Spec => LocksHeldInMemory
<1>1. PermissionInv /\ [Next]_vars =>
        [\A o \in Owners, p \in Paths :
            mem[o] # Down /\ mem'[o] # Down /\ mem[o].rules[p] = "lock"
                => mem'[o].rules[p] = "lock"]_vars
  BY LocksKept
<1> QED
  BY <1>1, Invariance, PTL DEF Spec, LocksHeldInMemory
=============================================================================
