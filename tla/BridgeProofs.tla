---------------------------- MODULE BridgeProofs ----------------------------
(***************************************************************************)
(* The three safety invariants of Bridge, for every set of entries, every  *)
(* limit and any number of Child instances.  None is inductive by itself:  *)
(* a restart after a back-off makes no second process because the child    *)
(* that waited has none (Strays); the limit holds over instances because   *)
(* the restarts that count are in the window of the registered child and   *)
(* of the one the sweep works on, which is handed on (Windows); and when a *)
(* callback that has taken the server's flow is about to fail a child,     *)
(* that is the one that waits, so that none is left waiting (Flow).        *)
(***************************************************************************)
EXTENDS Bridge, FiniteSetTheorems, TLAPS

\* A slot holds a Child, or none.
Kid == [cfg : Configs \cup {None}, state : States, proc : {"none", "up"},
        hashed : BOOLEAN, times : SUBSET Attempts]

\* The types; the supervisor's sweep has a child to work on.
BridgeTypes ==
    /\ file \in Files
    /\ rl \in [Reloaders -> Configs \cup {Absent, None}]
    /\ child \in [Slots -> Kid]
    /\ cur \in Slots \cup {0}
    /\ sw \in [pc : {"idle", "ping", "backoff", "recover", "retry"}, c : Slots \cup {0}]
    /\ sw.pc # "idle" => sw.c \in Slots
    /\ cb \in [pc : {"idle", "exchange", "fail", "restart"}, c : Slots \cup {0}]
    /\ pend \in {"none", "live", "expired", "spent"}
    /\ auto \in SUBSET Attempts

\* A child that waits for its back-off has no process any more.
Strays ==
    /\ sw.pc = "backoff" => child[sw.c].proc = "none"
    /\ NoStrayProcess

\* No window is over the limit, and the restarts that count are in the window
\* of the registered child and of the one the sweep works on.
Windows ==
    /\ \A i \in Slots : Cardinality(child[i].times) <= Limit
    /\ cur # 0 => auto \subseteq child[cur].times
    /\ sw.c # 0 => auto \subseteq child[sw.c].times
    /\ RestartBudget

\* The answer that is being handled is for the child that waits.
Flow ==
    cur # 0 /\ child[cur].state = "waiting_auth" =>
        \/ pend # "none"
        \/ cb.pc \in {"exchange", "restart"}
        \/ cb.pc = "fail" /\ cb.c = cur

BridgeInv == BridgeTypes /\ Strays /\ Windows /\ Flow

\* Forgetting a Child that is garbage touches nothing else.
LEMMA CollectFacts ==
    ASSUME NEW kids \in [Slots -> Kid], NEW i \in Slots \cup {0}, NEW H
    PROVE  /\ Collect(kids, i, H) \in [Slots -> Kid]
           /\ \A j \in Slots : Collect(kids, i, H)[j].proc = kids[j].proc
           /\ \A j \in Slots : j # i \/ j \in H => Collect(kids, i, H)[j] = kids[j]
           /\ \A j \in Slots : Collect(kids, i, H)[j].times \subseteq kids[j].times
           /\ \A j \in Slots : Collect(kids, i, H)[j] = kids[j] \/ Collect(kids, i, H)[j] = NoChild
<1>0. NoChild \in Kid /\ NoChild.times = {} /\ NoChild.proc = "none"
  BY DEF NoChild, Kid, States
<1>1. CASE i \in H \cup {0} \/ kids[i].proc = "up"
  BY <1>1 DEF Collect
<1>2. CASE ~(i \in H \cup {0} \/ kids[i].proc = "up")
  <2>1. Collect(kids, i, H) = [kids EXCEPT ![i] = NoChild] /\ i \in Slots /\ i \notin H
    BY <1>2 DEF Collect
  <2>2. kids[i].proc = "none"
    BY <1>2, <2>1 DEF Kid
  <2> QED  BY <1>0, <2>1, <2>2
<1> QED  BY <1>1, <1>2

\* The same, for the function that is the outcome.
LEMMA CollectIs ==
    ASSUME NEW kids \in [Slots -> Kid], NEW i \in Slots \cup {0}, NEW H, NEW K,
           K = Collect(kids, i, H)
    PROVE  /\ K \in [Slots -> Kid]
           /\ \A j \in Slots : K[j].proc = kids[j].proc
           /\ \A j \in Slots : j # i \/ j \in H => K[j] = kids[j]
           /\ \A j \in Slots : K[j].times \subseteq kids[j].times
<1>0. NoChild \in Kid /\ NoChild.times = {} /\ NoChild.proc = "none"
  BY DEF NoChild, Kid, States
<1>1. CASE K = kids
  BY <1>1
<1>2. CASE K # kids
  <2>1. K = [kids EXCEPT ![i] = NoChild] /\ i \in Slots /\ i \notin H /\ kids[i].proc # "up"
    BY <1>2 DEF Collect
  <2>2. kids[i].proc = "none"
    BY <2>1 DEF Kid
  <2> QED  BY <1>0, <2>1, <2>2
<1> QED  BY <1>1, <1>2

\* The children once the registered one is stopped.
LEMMA StopFacts ==
    ASSUME BridgeTypes
    PROVE  /\ StopRegistered \in [Slots -> Kid]
           /\ \A j \in Slots : j # cur => StopRegistered[j] = child[j]
           /\ \A j \in Slots : StopRegistered[j].proc = "up" => j # cur /\ child[j].proc = "up"
           /\ \A j \in Slots : j \in {sw.c, cb.c} => StopRegistered[j].times = child[j].times
           /\ \A j \in Slots : StopRegistered[j].times \subseteq child[j].times
           /\ \A j \in Slots : child[j].proc = "none" => StopRegistered[j].proc = "none"
<1>0. 0 \notin Slots
  BY BridgeAssumption
<1>1. CASE cur = 0
  BY <1>0, <1>1 DEF StopRegistered, BridgeTypes, Kid
<1>2. CASE cur # 0
  <2> DEFINE kids == [child EXCEPT ![cur] = Stopped(cur)]
  <2>1. StopRegistered = Collect(kids, cur, {sw.c, cb.c}) /\ cur \in Slots
    BY <1>2 DEF StopRegistered, BridgeTypes
  <2>2. Stopped(cur) \in Kid /\ Stopped(cur).proc = "none" /\ Stopped(cur).times = child[cur].times
    BY <2>1, ZenonT(40) DEF BridgeTypes, Stopped, Kid, States
  <2>3. /\ kids \in [Slots -> Kid] /\ kids[cur].proc = "none" /\ kids[cur].times = child[cur].times
        /\ \A j \in Slots : j # cur => kids[j] = child[j]
    BY <2>1, <2>2 DEF BridgeTypes
  <2> HIDE DEF kids
  <2> DEFINE K == Collect(kids, cur, {sw.c, cb.c})
  <2>4. /\ K \in [Slots -> Kid]
        /\ \A j \in Slots : K[j].proc = kids[j].proc
        /\ \A j \in Slots : j # cur \/ j \in {sw.c, cb.c} => K[j] = kids[j]
        /\ \A j \in Slots : K[j].times \subseteq kids[j].times
    BY <2>1, <2>3, CollectFacts
  <2> HIDE DEF K
  <2> QED  BY <2>1, <2>3, <2>4, ZenonT(40) DEF K
<1> QED  BY <1>1, <1>2

\* What a start can come to.
LEMMA OutcomeFacts ==
    ASSUME NEW f, NEW cancelled \in BOOLEAN, NEW o \in Outcomes(f, cancelled)
    PROVE  /\ o.state \in States /\ o.proc \in {"none", "up"} /\ o.hashed \in BOOLEAN
           /\ o.proc = "up" => ~cancelled
<1>1. \/ o = [state |-> "failed", proc |-> "none", hashed |-> FALSE]
      \/ o = [state |-> "failed", proc |-> "none", hashed |-> TRUE]
      \/ ~cancelled /\ o = [state |-> "ready", proc |-> "up", hashed |-> TRUE]
      \/ o = [state |-> "waiting_auth", proc |-> "none", hashed |-> TRUE]
  BY DEF Outcomes
<1>2. /\ o.state \in {"failed", "ready", "waiting_auth"} /\ o.proc \in {"none", "up"}
      /\ o.proc = "up" => ~cancelled
  BY <1>1
<1>3. o.hashed \in BOOLEAN
  <2>1. CASE o = [state |-> "failed", proc |-> "none", hashed |-> FALSE]
    BY <2>1
  <2>2. CASE o = [state |-> "failed", proc |-> "none", hashed |-> TRUE]
    BY <2>2
  <2>3. CASE o = [state |-> "ready", proc |-> "up", hashed |-> TRUE]
    BY <2>3
  <2>4. CASE o = [state |-> "waiting_auth", proc |-> "none", hashed |-> TRUE]
    BY <2>4
  <2> QED  BY <1>1, <2>1, <2>2, <2>3, <2>4
<1> QED  BY <1>2, <1>3 DEF States

\* A new child takes a slot nobody refers to; it runs only if its context is
\* not cancelled, and waits for an authorization only with a flow pending.
LEMMA SpawnFacts ==
    ASSUME BridgeTypes, NEW kids \in [Slots -> Kid], NEW f \in Configs \cup {None},
           NEW cancelled \in BOOLEAN, NEW times \in SUBSET Attempts,
           Spawn(kids, f, cancelled, times)
    PROVE  /\ child' \in [Slots -> Kid] /\ cur' \in Slots \cup {0}
           /\ pend' \in {pend, "live"}
           /\ \A j \in Slots : j # cur' => child'[j] = kids[j]
           /\ cur' # 0 => /\ cur' \in FreeSlots /\ child'[cur'].times = times
                          /\ child'[cur'].proc = "up" => ~cancelled
                          /\ child'[cur'].state = "waiting_auth" => pend' = "live"
<1>0. 0 \notin Slots
  BY BridgeAssumption
<1>1. CASE f \in OffConfigs
  BY <1>0, <1>1 DEF Spawn
<1>2. CASE f \notin OffConfigs
  <2>1. FreeSlots # {} /\ cur' = FreeSlot
    BY <1>2 DEF Spawn
  <2>2. FreeSlot \in FreeSlots /\ FreeSlot \in Slots
    BY <2>1 DEF FreeSlot, FreeSlots
  <2>3. PICK o \in Outcomes(f, cancelled) :
           /\ child' = [kids EXCEPT ![FreeSlot] =
                          [cfg |-> f, state |-> o.state, proc |-> o.proc,
                           hashed |-> o.hashed, times |-> times]]
           /\ pend' = Begin(o.state)
    BY <1>2 DEF Spawn
  <2>4. /\ o.state \in States /\ o.proc \in {"none", "up"} /\ o.hashed \in BOOLEAN
        /\ o.proc = "up" => ~cancelled
    BY <2>3, OutcomeFacts
  <2> DEFINE e == [cfg |-> f, state |-> o.state, proc |-> o.proc, hashed |-> o.hashed, times |-> times]
  <2>5. e \in Kid /\ e.times = times /\ e.proc = o.proc /\ e.state = o.state
    BY <2>4 DEF Kid
  <2>6. child' = [kids EXCEPT ![FreeSlot] = e]
    BY <2>3
  <2> HIDE DEF e
  <2>7. pend' \in {pend, "live"} /\ (o.state = "waiting_auth" => pend' = "live")
    BY <2>3 DEF Begin
  <2> QED  BY <2>1, <2>2, <2>4, <2>5, <2>6, <2>7
<1> QED  BY <1>1, <1>2

\* The first states.
LEMMA BridgeInit == Init => BridgeInv
<1> SUFFICES ASSUME Init  PROVE BridgeInv
  OBVIOUS
<1>0. 0 \notin Slots /\ Limit \in Nat /\ Limit > 0
  BY BridgeAssumption
<1>1. NoChild \in Kid /\ NoChild.times = {} /\ NoChild.proc = "none"
  BY DEF NoChild, Kid, States
<1>2. /\ child \in [Slots -> Kid] /\ cur \in Slots \cup {0} /\ pend \in {"none", "live"}
      /\ \A i \in Slots : child[i].times = {} /\ (child[i].proc = "up" => i = cur)
      /\ cur # 0 /\ child[cur].state = "waiting_auth" => pend = "live"
  <2>1. PICK first \in Slots : \A i \in Slots : first <= i /\
          IF file = Absent \/ file \in OffConfigs
          THEN child = [j \in Slots |-> NoChild] /\ cur = 0 /\ pend = "none"
          ELSE \E o \in Outcomes(file, FALSE) :
                  /\ child = [j \in Slots |-> IF j = first
                        THEN [cfg |-> file, state |-> o.state, proc |-> o.proc,
                              hashed |-> o.hashed, times |-> {}]
                        ELSE NoChild]
                  /\ cur = first
                  /\ pend = IF o.state = "waiting_auth" THEN "live" ELSE "none"
    BY DEF Init
  <2>2. CASE file = Absent \/ file \in OffConfigs
    <3>1. child = [j \in Slots |-> NoChild] /\ cur = 0 /\ pend = "none"
      BY <2>1, <2>2
    <3> QED  BY <1>1, <3>1
  <2>3. CASE ~(file = Absent \/ file \in OffConfigs)
    <3>1. PICK o \in Outcomes(file, FALSE) :
                  /\ child = [j \in Slots |-> IF j = first
                        THEN [cfg |-> file, state |-> o.state, proc |-> o.proc,
                              hashed |-> o.hashed, times |-> {}]
                        ELSE NoChild]
                  /\ cur = first
                  /\ pend = IF o.state = "waiting_auth" THEN "live" ELSE "none"
      BY <2>1, <2>3
    <3> DEFINE e == [cfg |-> file, state |-> o.state, proc |-> o.proc, hashed |-> o.hashed, times |-> {}]
    <3>2. file \in Configs
      BY <2>3 DEF Init, Files
    <3>3. o.state \in States /\ o.proc \in {"none", "up"} /\ o.hashed \in BOOLEAN
      BY <3>1, OutcomeFacts
    <3>4. e \in Kid /\ e.times = {} /\ e.state = o.state
      BY <3>2, <3>3 DEF Kid
    <3>5. child = [j \in Slots |-> IF j = first THEN e ELSE NoChild]
      BY <3>1
    <3> HIDE DEF e
    <3> QED  BY <1>1, <3>1, <3>4, <3>5
  <2> QED  BY <2>2, <2>3
<1>3. Cardinality({}) = 0
  BY FS_EmptySet
<1>4. /\ file \in Files /\ rl \in [Reloaders -> Configs \cup {Absent, None}]
      /\ sw = [pc |-> "idle", c |-> 0] /\ cb = [pc |-> "idle", c |-> 0] /\ auto = {}
      /\ raced = {} /\ down = "up"
  BY DEF Init
<1>5. BridgeTypes
  BY <1>2, <1>4 DEF BridgeTypes
<1>6. Strays
  BY <1>2, <1>4 DEF Strays, NoStrayProcess
<1>7. Windows
  <2>1. ASSUME NEW i \in Slots  PROVE Cardinality(child[i].times) <= Limit
    <3>1. child[i].times = {}
      BY <1>2
    <3>2. Cardinality(child[i].times) = 0
      BY <1>3, <3>1, Zenon
    <3> QED  BY <1>0, <3>2
  <2>2. Cardinality(auto) <= Limit
    BY <1>0, <1>3, <1>4
  <2> QED  BY <1>4, <2>1, <2>2 DEF Windows, RestartBudget
<1>8. Flow
  BY <1>2 DEF Flow
<1> QED  BY <1>5, <1>6, <1>7, <1>8 DEF BridgeInv

\* A window that loses attempts stays under the limit.
LEMMA SmallerWindow ==
    ASSUME NEW S, NEW T \in SUBSET Attempts, S \subseteq T, Cardinality(T) <= Limit
    PROVE  Cardinality(S) <= Limit
<1>1. IsFiniteSet(T) /\ Limit \in Nat
  BY BridgeAssumption, FS_Subset
<1>2. Cardinality(S) <= Cardinality(T) /\ Cardinality(S) \in Nat /\ Cardinality(T) \in Nat
  BY <1>1, FS_Subset, FS_CardinalityType
<1> QED  BY <1>1, <1>2

\* And one attempt may be added to a window that is below it.
LEMMA LargerWindow ==
    ASSUME NEW T \in SUBSET Attempts, NEW a \in Attempts, Cardinality(T) < Limit
    PROVE  Cardinality(T \cup {a}) <= Limit
<1>1. IsFiniteSet(T) /\ Limit \in Nat
  BY BridgeAssumption, FS_Subset
<1>2. Cardinality(T \cup {a}) \in {Cardinality(T), Cardinality(T) + 1} /\ Cardinality(T) \in Nat
  BY <1>1, FS_AddElement, FS_CardinalityType
<1> QED  BY <1>1, <1>2

\* A child is started over the children `kids`, which are those there were or
\* some of them, perhaps stopped.
LEMMA SpawnOver ==
    ASSUME BridgeInv, NEW kids \in [Slots -> Kid], NEW f \in Configs \cup {None},
           NEW cancelled \in BOOLEAN, NEW times \in SUBSET Attempts,
           \A j \in Slots : kids[j].times \subseteq child[j].times,
           Cardinality(times) <= Limit,
           Spawn(kids, f, cancelled, times)
    PROVE  /\ child' \in [Slots -> Kid] /\ cur' \in Slots \cup {0}
           /\ pend' \in {"none", "live", "expired", "spent"}
           /\ \A i \in Slots : child'[i].proc = "up" =>
                 (i = cur' /\ ~cancelled) \/ (kids[i].proc = "up")
           /\ \A i \in Slots : i = sw.c => child'[i] = kids[i]
           /\ \A i \in Slots : Cardinality(child'[i].times) <= Limit
           /\ cur' # 0 => child'[cur'].times = times
           /\ cur' # 0 /\ child'[cur'].state = "waiting_auth" => pend' = "live"
<1>1. /\ child' \in [Slots -> Kid] /\ cur' \in Slots \cup {0}
      /\ pend' \in {pend, "live"}
      /\ \A j \in Slots : j # cur' => child'[j] = kids[j]
      /\ cur' # 0 => /\ cur' \in FreeSlots /\ child'[cur'].times = times
                     /\ child'[cur'].proc = "up" => ~cancelled
                     /\ child'[cur'].state = "waiting_auth" => pend' = "live"
  BY SpawnFacts DEF BridgeInv
<1>2. 0 \notin Slots /\ (cur' # 0 => cur' # sw.c) /\ child \in [Slots -> Kid]
  BY <1>1, BridgeAssumption DEF FreeSlots, BridgeInv, BridgeTypes
<1>3. ASSUME NEW i \in Slots  PROVE Cardinality(child'[i].times) <= Limit
  <2>1. CASE i = cur'
    <3>1. child'[i].times = times
      BY <1>1, <1>2, <2>1
    <3> QED  BY <3>1, Zenon
  <2>2. CASE i # cur'
    <3>1. child'[i] = kids[i] /\ child[i].times \in SUBSET Attempts
      BY <1>1, <1>2, <2>2 DEF Kid
    <3>2. kids[i].times \subseteq child[i].times /\ Cardinality(child[i].times) <= Limit
      BY DEF BridgeInv, Windows
    <3>3. Cardinality(kids[i].times) <= Limit
      BY <3>1, <3>2, SmallerWindow
    <3> QED  BY <3>1, <3>3
  <2> QED  BY <2>1, <2>2
<1> QED  BY <1>1, <1>2, <1>3 DEF BridgeInv, BridgeTypes

\* The registered child is stopped, and perhaps another started, by a party
\* other than the supervisor.
Replaces(cancelled) ==
    /\ child' \in [Slots -> Kid] /\ cur' \in Slots \cup {0}
    /\ pend' \in {"none", "live", "expired", "spent"} /\ UNCHANGED sw
    /\ \A i \in Slots : child'[i].proc = "up" =>
                 (i = cur' /\ ~cancelled) \/ (i # cur /\ child[i].proc = "up")
    /\ \A i \in Slots : i = sw.c => child'[i].times = child[i].times
    /\ \A i \in Slots : i = sw.c /\ child[i].proc = "none" => child'[i].proc = "none"
    /\ \A i \in Slots : Cardinality(child'[i].times) <= Limit
    /\ cur' # 0 /\ child'[cur'].state = "waiting_auth" => pend' = "live"
    /\ auto' = {} \/ (cur' = 0 /\ auto' = auto)

\* An entry is started in place of the registered child.
LEMMA StopSpawn ==
    ASSUME BridgeInv, NEW f \in Configs \cup {None}, NEW cancelled \in BOOLEAN,
           Spawn(StopRegistered, f, cancelled, {}), auto' = {}, UNCHANGED sw
    PROVE  Replaces(cancelled)
<1> DEFINE K == StopRegistered
<1>1. /\ K \in [Slots -> Kid]
      /\ \A j \in Slots : K[j].proc = "up" => j # cur /\ child[j].proc = "up"
      /\ \A j \in Slots : j \in {sw.c, cb.c} => K[j].times = child[j].times
      /\ \A j \in Slots : K[j].times \subseteq child[j].times
      /\ \A j \in Slots : child[j].proc = "none" => K[j].proc = "none"
  BY StopFacts DEF BridgeInv
<1>2. Cardinality({}) <= Limit /\ {} \in SUBSET Attempts
  BY FS_EmptySet, BridgeAssumption
<1>3. Spawn(K, f, cancelled, {})
  OBVIOUS
<1> HIDE DEF K
<1>4. /\ child' \in [Slots -> Kid] /\ cur' \in Slots \cup {0}
      /\ pend' \in {"none", "live", "expired", "spent"}
      /\ \A i \in Slots : child'[i].proc = "up" =>
                 (i = cur' /\ ~cancelled) \/ (K[i].proc = "up")
      /\ \A i \in Slots : i = sw.c => child'[i] = K[i]
      /\ \A i \in Slots : Cardinality(child'[i].times) <= Limit
      /\ cur' # 0 /\ child'[cur'].state = "waiting_auth" => pend' = "live"
  BY <1>1, <1>2, <1>3, SpawnOver
<1>5. \A i \in Slots : child'[i].proc = "up" =>
          (i = cur' /\ ~cancelled) \/ (i # cur /\ child[i].proc = "up")
  BY <1>1, <1>4
<1>6. /\ \A i \in Slots : i = sw.c => child'[i].times = child[i].times
      /\ \A i \in Slots : i = sw.c /\ child[i].proc = "none" => child'[i].proc = "none"
  BY <1>1, <1>4
<1> QED  BY <1>4, <1>5, <1>6 DEF Replaces

\* The registered child is stopped and forgotten.
LEMMA StopOnly ==
    ASSUME BridgeInv, child' = StopRegistered, cur' = 0, auto' \in {{}, auto}, UNCHANGED <<sw, pend>>
    PROVE  Replaces(TRUE)
<1> DEFINE K == StopRegistered
<1>1. /\ K \in [Slots -> Kid]
      /\ \A j \in Slots : K[j].proc = "up" => j # cur /\ child[j].proc = "up"
      /\ \A j \in Slots : j \in {sw.c, cb.c} => K[j].times = child[j].times
      /\ \A j \in Slots : K[j].times \subseteq child[j].times
      /\ \A j \in Slots : child[j].proc = "none" => K[j].proc = "none"
  BY StopFacts DEF BridgeInv
<1>2. child' = K
  OBVIOUS
<1> HIDE DEF K
<1>3. ASSUME NEW i \in Slots  PROVE Cardinality(child'[i].times) <= Limit
  <2>1. child[i].times \in SUBSET Attempts /\ Cardinality(child[i].times) <= Limit
    BY DEF BridgeInv, BridgeTypes, Windows, Kid
  <2>2. K[i].times \subseteq child[i].times
    BY <1>1
  <2> QED  BY <1>2, <2>1, <2>2, SmallerWindow
<1> QED  BY <1>1, <1>2, <1>3 DEF Replaces, BridgeInv, BridgeTypes

\* Such a step keeps the invariant, if what it starts it starts before the
\* shutdown has ended or as a race.
LEMMA ReplaceStep ==
    ASSUME BridgeInv, NEW cancelled \in BOOLEAN, Replaces(cancelled),
           file' \in Files, rl' \in [Reloaders -> Configs \cup {Absent, None}],
           cb' = cb \/ cb' = [pc |-> "idle", c |-> 0], raced \subseteq raced',
           down' = "down" /\ raced' = {} => cancelled,
           down = "down" => down' = "down",
           down' = "down" => down = "down" \/ cur' = 0
    PROVE  BridgeInv'
<1>0. 0 \notin Slots
  BY BridgeAssumption
<1>1. BridgeTypes'
  BY DEF BridgeInv, BridgeTypes, Replaces
<1>2. Strays'
  <2>1. sw'.pc = "backoff" => child'[sw'.c].proc = "none"
    BY DEF BridgeInv, BridgeTypes, Strays, Replaces
  <2>2. ASSUME NEW i \in Slots, child'[i].proc = "up", raced' \cap {"sweep", "callback"} = {}
        PROVE  i = cur'
    <3>1. raced \cap {"sweep", "callback"} = {}
      BY <2>2
    <3> QED  BY <2>2, <3>1 DEF BridgeInv, Strays, NoStrayProcess, Replaces
  <2>3. ASSUME NEW i \in Slots, child'[i].proc = "up", raced' = {}
        PROVE  down' # "down"
    <3>1. raced = {} /\ raced' \cap {"sweep", "callback"} = {}
      BY <2>3
    <3>2. i = cur'
      BY <2>2, <2>3, <3>1
    <3>3. CASE ~cancelled
      BY <2>3, <3>3
    <3>4. CASE i # cur /\ child[i].proc = "up"
      BY <3>1, <3>4 DEF BridgeInv, Strays, NoStrayProcess
    <3> QED  BY <2>3, <3>3, <3>4 DEF Replaces
  <2> QED  BY <2>1, <2>2, <2>3 DEF Strays, NoStrayProcess
<1>3. Windows'
  <2>1. Cardinality(auto') <= Limit
    <3>1. CASE auto' = auto
      BY <3>1 DEF BridgeInv, Windows, RestartBudget
    <3>2. CASE auto' = {}
      <4>1. Cardinality(auto') = 0
        BY <3>2, FS_EmptySet, Zenon
      <4> QED  BY <4>1, BridgeAssumption
    <3> QED  BY <3>1, <3>2 DEF Replaces
  <2>2. \A i \in Slots : Cardinality(child'[i].times) <= Limit
    BY DEF Replaces
  <2>3. cur' # 0 => auto' \subseteq child'[cur'].times
    BY DEF Replaces
  <2>4. sw'.c # 0 => auto' \subseteq child'[sw'.c].times
    BY DEF Replaces, BridgeInv, BridgeTypes, Windows
  <2> QED  BY <2>1, <2>2, <2>3, <2>4 DEF Windows, RestartBudget
<1>4. Flow'
  BY DEF Flow, Replaces
<1> QED  BY <1>1, <1>2, <1>3, <1>4 DEF BridgeInv

\* Reloads, the admin socket, the broker's restart and the shutdown.
LEMMA PartiesStep ==
    ASSUME BridgeInv,
           \/ \E p \in Reloaders : ReloadApply(p)
           \/ AdminRestart \/ DisableServer \/ CallbackRestarts \/ ShutdownEnds
    PROVE  BridgeInv'
<1>0. BridgeTypes /\ (cur # 0 => child[cur].cfg \in Configs \cup {None})
  BY DEF BridgeInv, BridgeTypes, Kid
<1>1. ASSUME NEW p \in Reloaders, ReloadApply(p)
      PROVE  BridgeInv'
  <2> DEFINE f == rl[p]
             cancelled == (p = "watch" /\ down # "up")
  <2>1. /\ f \in Configs \cup {Absent} /\ rl' \in [Reloaders -> Configs \cup {Absent, None}]
        /\ UNCHANGED <<file, sw, cb, down>> /\ raced' = raced \cup ReloadRaces(p)
        /\ cancelled \in BOOLEAN /\ file \in Files
    BY <1>0, <1>1 DEF ReloadApply, BridgeTypes
  <2>2. down = "down" /\ raced' = {} => cancelled
    BY <2>1 DEF ReloadRaces, Reloaders
  <2>3. CASE Unchanged(f)
    <3>1. UNCHANGED <<child, cur, pend, auto>>
      BY <1>1, <2>3 DEF ReloadApply
    <3>2. raced \subseteq raced'
      BY <2>1
    <3>3. BridgeTypes'
      BY <1>0, <2>1, <3>1 DEF BridgeTypes
    <3>4. Strays'
      BY <2>1, <3>1, <3>2 DEF BridgeInv, Strays, NoStrayProcess
    <3>5. Windows' /\ Flow'
      BY <2>1, <3>1 DEF BridgeInv, Windows, RestartBudget, Flow
    <3> QED  BY <3>3, <3>4, <3>5 DEF BridgeInv
  <2>4. CASE ~Unchanged(f) /\ f = Absent
    <3>1. child' = StopRegistered /\ cur' = 0 /\ auto' = {} /\ UNCHANGED pend
      BY <1>1, <2>4 DEF ReloadApply
    <3>2. Replaces(TRUE)
      BY <2>1, <3>1, StopOnly
    <3> QED  BY <2>1, <3>2, ReplaceStep
  <2>5. CASE ~Unchanged(f) /\ f # Absent
    <3>1. Spawn(StopRegistered, f, cancelled, {}) /\ auto' = {}
      BY <1>1, <2>5 DEF ReloadApply
    <3> HIDE DEF cancelled
    <3>2. Replaces(cancelled)
      BY <2>1, <2>5, <3>1, StopSpawn
    <3> QED  BY <2>1, <2>2, <3>2, ReplaceStep
  <2> QED  BY <2>3, <2>4, <2>5
<1>2. CASE AdminRestart
  <2>1. /\ Spawn(StopRegistered, child[cur].cfg, FALSE, {}) /\ auto' = {} /\ cur # 0
        /\ UNCHANGED <<file, rl, sw, cb, down, raced>> /\ down = "up"
    BY <1>2 DEF AdminRestart, RestartServer
  <2>2. Replaces(FALSE)
    BY <1>0, <2>1, StopSpawn
  <2> QED  BY <1>0, <2>1, <2>2, ReplaceStep DEF BridgeTypes
<1>3. CASE DisableServer
  <2>1. Replaces(TRUE)
    BY <1>3, StopOnly DEF DisableServer
  <2> QED  BY <1>0, <1>3, <2>1, ReplaceStep DEF DisableServer, BridgeTypes
<1>4. CASE ShutdownEnds
  <2>1. Replaces(TRUE) /\ cur' = 0
    BY <1>4, StopOnly DEF ShutdownEnds
  <2> QED  BY <1>0, <1>4, <2>1, ReplaceStep DEF ShutdownEnds, BridgeTypes
<1>5. CASE CallbackRestarts
  <2>1. /\ UNCHANGED <<file, rl, sw, down>> /\ cb' = [pc |-> "idle", c |-> 0]
        /\ raced \subseteq raced' /\ (cur # 0 /\ down = "down" => raced' # {})
    BY <1>5 DEF CallbackRestarts
  <2>2. CASE RestartServer
    <3>1. Spawn(StopRegistered, child[cur].cfg, FALSE, {}) /\ auto' = {} /\ cur # 0
      BY <2>2 DEF RestartServer
    <3>2. Replaces(FALSE)
      BY <1>0, <2>1, <3>1, StopSpawn
    <3> QED  BY <1>0, <2>1, <3>1, <3>2, ReplaceStep DEF BridgeTypes
  <2>3. CASE cur = 0 /\ UNCHANGED <<child, cur, pend, auto>>
    <3>1. Replaces(TRUE)
      <4>1. child' = StopRegistered
        BY <2>3 DEF StopRegistered
      <4> QED  BY <2>1, <2>3, <4>1, StopOnly
    <3> QED  BY <1>0, <2>1, <2>3, <3>1, ReplaceStep DEF BridgeTypes
  <2> QED  BY <1>5, <2>2, <2>3 DEF CallbackRestarts
<1> QED  BY <1>1, <1>2, <1>3, <1>4, <1>5

\* The supervisor starts the dead child's entry again, over children of which
\* only those run that ran.
LEMMA RespawnStep ==
    ASSUME BridgeInv, sw.pc \in {"backoff", "retry"}, sw' = [pc |-> "idle", c |-> 0],
           Spawn(Collect(child, sw.c, {cb.c}), child[sw.c].cfg, down # "up", child[sw.c].times),
           auto' = auto \cup child[sw.c].times, UNCHANGED <<file, rl, cb, down>>,
           raced \subseteq raced',
           raced' \cap {"sweep", "callback"} = {} => cur = sw.c /\ child[cur].proc = "none"
    PROVE  BridgeInv'
<1> DEFINE K == Collect(child, sw.c, {cb.c})
           T == child[sw.c].times
           f == child[sw.c].cfg
           off1 == (down # "up")
<1>0. BridgeTypes /\ sw.c \in Slots /\ 0 \notin Slots
  BY BridgeAssumption DEF BridgeInv, BridgeTypes
<1>1. /\ K \in [Slots -> Kid]
      /\ \A j \in Slots : K[j].proc = child[j].proc
      /\ \A j \in Slots : K[j].times \subseteq child[j].times
  BY <1>0, CollectFacts DEF BridgeTypes
<1>2. /\ T \in SUBSET Attempts /\ Cardinality(T) <= Limit /\ auto \subseteq T
      /\ f \in Configs \cup {None} /\ off1 \in BOOLEAN
  BY <1>0 DEF BridgeInv, BridgeTypes, Windows, Kid
<1>3. Spawn(K, f, off1, T) /\ auto' = auto \cup T
  OBVIOUS
<1> HIDE DEF K, T, f, off1
<1>4. /\ child' \in [Slots -> Kid] /\ cur' \in Slots \cup {0}
      /\ pend' \in {"none", "live", "expired", "spent"}
      /\ \A i \in Slots : child'[i].proc = "up" => (i = cur' /\ ~off1) \/ K[i].proc = "up"
      /\ \A i \in Slots : Cardinality(child'[i].times) <= Limit
      /\ cur' # 0 => child'[cur'].times = T
      /\ cur' # 0 /\ child'[cur'].state = "waiting_auth" => pend' = "live"
  BY <1>1, <1>2, <1>3, SpawnOver
<1>5. auto' = T
  BY <1>2, <1>3
<1>6. BridgeTypes'
  BY <1>0, <1>2, <1>4, <1>5 DEF BridgeTypes
<1>7. ASSUME NEW i \in Slots, child'[i].proc = "up"
      PROVE  /\ raced' \cap {"sweep", "callback"} = {} => i = cur'
             /\ raced' = {} => down' # "down"
  <2>1. CASE i = cur' /\ ~off1
    BY <2>1 DEF off1
  <2>2. CASE K[i].proc = "up"
    <3>1. child[i].proc = "up"
      BY <1>1, <2>2
    <3>2. ASSUME raced' \cap {"sweep", "callback"} = {}  PROVE FALSE
      <4>1. raced \cap {"sweep", "callback"} = {}
        BY <3>2
      <4>2. i = cur
        BY <3>1, <4>1 DEF BridgeInv, Strays, NoStrayProcess
      <4> QED  BY <3>1, <3>2, <4>2
    <3> QED  BY <3>2
  <2> QED  BY <1>4, <1>7, <2>1, <2>2
<1>8. Strays'
  BY <1>7 DEF Strays, NoStrayProcess
<1>9. Windows'
  BY <1>2, <1>4, <1>5 DEF Windows, RestartBudget
<1>10. Flow'
  BY <1>4 DEF Flow
<1> QED  BY <1>6, <1>8, <1>9, <1>10 DEF BridgeInv

\* A step that starts and registers nothing: the children lose a process, a
\* window or themselves, or gain an attempt.
LEMMA QuietStep ==
    ASSUME BridgeInv, BridgeTypes', UNCHANGED cur, raced \subseteq raced',
           down' = "down" => down = "down",
           \A i \in Slots : child'[i].proc = "up" => child[i].proc = "up",
           sw'.pc = "backoff" => child'[sw'.c].proc = "none",
           \A i \in Slots : Cardinality(child'[i].times) <= Limit,
           cur # 0 => auto' \subseteq child'[cur].times,
           sw'.c # 0 => auto' \subseteq child'[sw'.c].times,
           auto' \subseteq auto, Flow'
    PROVE  BridgeInv'
<1>1. Strays'
  <2>1. ASSUME NEW i \in Slots, child'[i].proc = "up"
        PROVE  /\ raced' \cap {"sweep", "callback"} = {} => i = cur'
               /\ raced' = {} => down' # "down"
    <3>1. child[i].proc = "up"
      BY <2>1
    <3>2. raced' \cap {"sweep", "callback"} = {} => raced \cap {"sweep", "callback"} = {}
      OBVIOUS
    <3>3. raced' = {} => raced = {}
      OBVIOUS
    <3> QED  BY <3>1, <3>2, <3>3 DEF BridgeInv, Strays, NoStrayProcess
  <2> QED  BY <2>1 DEF Strays, NoStrayProcess
<1>2. Windows'
  <2>1. Cardinality(auto') <= Limit
    BY SmallerWindow DEF BridgeInv, BridgeTypes, Windows, RestartBudget
  <2> QED  BY <2>1 DEF Windows, RestartBudget
<1> QED  BY <1>1, <1>2 DEF BridgeInv

\* A child loses its process or its state, and is forgotten once it is garbage.
LEMMA CollectStep ==
    ASSUME BridgeInv, NEW kids \in [Slots -> Kid], NEW i \in Slots \cup {0}, NEW H,
           child' = Collect(kids, i, H), cur \in {0} \cup H \/ i # cur,
           \A j \in Slots : kids[j].proc = "up" => child[j].proc = "up",
           \A j \in Slots : kids[j].times = child[j].times,
           sw' = [pc |-> "idle", c |-> 0] \/ (UNCHANGED sw /\ sw.c \in {0} \cup H),
           cb' \in [pc : {"idle", "exchange", "fail", "restart"}, c : Slots \cup {0}],
           cur # 0 /\ kids[cur].state = "waiting_auth" =>
               \/ pend # "none"
               \/ cb'.pc \in {"exchange", "restart"}
               \/ cb'.pc = "fail" /\ cb'.c = cur,
           UNCHANGED <<file, rl, cur, pend, down, auto, raced>>
    PROVE  BridgeInv'
<1> DEFINE K == Collect(kids, i, H)
<1>0. BridgeTypes /\ 0 \notin Slots /\ child' = K
  BY BridgeAssumption DEF BridgeInv
<1>1. /\ K \in [Slots -> Kid]
      /\ \A j \in Slots : K[j].proc = kids[j].proc
      /\ \A j \in Slots : j # i \/ j \in H => K[j] = kids[j]
      /\ \A j \in Slots : K[j].times \subseteq kids[j].times
  <2>1. kids \in [Slots -> Kid] /\ i \in Slots \cup {0} /\ K = Collect(kids, i, H)
    OBVIOUS
  <2> HIDE DEF K
  <2> QED  BY ONLY <2>1, CollectIs
<1> HIDE DEF K
<1>2. BridgeTypes'
  BY <1>0, <1>1 DEF BridgeTypes
<1>3. ASSUME NEW j \in Slots  PROVE Cardinality(child'[j].times) <= Limit
  <2>1. child[j].times \in SUBSET Attempts /\ Cardinality(child[j].times) <= Limit
    BY <1>0 DEF BridgeInv, BridgeTypes, Windows, Kid
  <2>2. K[j].times \subseteq child[j].times
    BY <1>1
  <2> QED  BY <1>0, <2>1, <2>2, SmallerWindow
<1>4. /\ cur # 0 => child'[cur] = kids[cur] /\ auto \subseteq child[cur].times
      /\ sw.c # 0 => auto \subseteq child[sw.c].times
  BY <1>0, <1>1 DEF BridgeInv, BridgeTypes, Windows
<1>5. sw'.c # 0 => sw' = sw /\ child'[sw.c] = kids[sw.c] /\ sw.c \in Slots
  BY <1>0, <1>1 DEF BridgeTypes
<1>6. Flow'
  BY <1>4 DEF Flow
<1>7. sw'.pc = "backoff" => child'[sw'.c].proc = "none"
  <2> SUFFICES ASSUME sw'.pc = "backoff"  PROVE child'[sw'.c].proc = "none"
    OBVIOUS
  <2>1. sw' = sw /\ sw.c \in Slots /\ child[sw.c].proc = "none"
    BY <1>0 DEF BridgeInv, BridgeTypes, Strays
  <2>2. child'[sw.c].proc # "up" /\ child'[sw.c].proc \in {"none", "up"}
    BY <1>0, <1>1, <2>1 DEF Kid
  <2> QED  BY <2>1, <2>2
<1>8. \A j \in Slots : child'[j].proc = "up" => child[j].proc = "up"
  BY <1>0, <1>1
<1>9. /\ cur # 0 => auto' \subseteq child'[cur].times
      /\ sw'.c # 0 => auto' \subseteq child'[sw'.c].times
  BY <1>0, <1>4, <1>5 DEF BridgeTypes
<1> QED  BY <1>2, <1>3, <1>6, <1>7, <1>8, <1>9, QuietStep

\* An attempt is noted in the window of the child the sweep works on.
LEMMA AttemptStep ==
    ASSUME BridgeInv, NEW a \in Attempts, NEW e \in Kid, sw.c \in Slots,
           child' = [child EXCEPT ![sw.c] = e], e.times = child[sw.c].times \cup {a},
           e.proc = "up" => child[sw.c].proc = "up",
           e.state = "waiting_auth" => child[sw.c].state = "waiting_auth",
           sw' \in [pc : {"backoff", "retry"}, c : {sw.c}], sw'.pc = "backoff" => e.proc = "none",
           MayRestart(sw.c), UNCHANGED <<file, rl, cur, pend, cb, down, auto, raced>>
    PROVE  BridgeInv'
<1>0. BridgeTypes /\ 0 \notin Slots
  BY BridgeAssumption DEF BridgeInv
<1>1. BridgeTypes'
  BY <1>0 DEF BridgeTypes
<1>2. ASSUME NEW j \in Slots  PROVE Cardinality(child'[j].times) <= Limit
  <2>1. CASE j = sw.c
    <3>1. child[j].times \in SUBSET Attempts /\ Cardinality(child[j].times) < Limit
      BY <1>0, <2>1 DEF BridgeTypes, MayRestart, Kid
    <3>2. Cardinality(child[j].times \cup {a}) <= Limit
      BY <3>1, LargerWindow
    <3>3. child'[j].times = child[j].times \cup {a}
      BY <1>0, <2>1 DEF BridgeTypes
    <3> QED  BY <3>2, <3>3, Zenon
  <2>2. CASE j # sw.c
    BY <1>0, <2>2 DEF BridgeTypes, BridgeInv, Windows
  <2> QED  BY <2>1, <2>2
<1>3. \A j \in Slots : child'[j].proc = "up" => child[j].proc = "up"
  BY <1>0 DEF BridgeTypes
<1>4. \A j \in Slots : child[j].times \subseteq child'[j].times
  BY <1>0 DEF BridgeTypes
<1>5. /\ cur # 0 => auto' \subseteq child'[cur].times
      /\ sw'.c # 0 => auto' \subseteq child'[sw'.c].times
  BY <1>0, <1>4 DEF BridgeTypes, BridgeInv, Windows
<1>6. Flow'
  <2>1. cur # 0 /\ child'[cur].state = "waiting_auth" => child[cur].state = "waiting_auth"
    BY <1>0 DEF BridgeTypes
  <2> QED  BY <2>1 DEF BridgeInv, Flow
<1>7. sw'.pc = "backoff" => child'[sw'.c].proc = "none"
  BY <1>0 DEF BridgeTypes
<1> QED  BY <1>1, <1>2, <1>3, <1>5, <1>6, <1>7, QuietStep

\* The supervisor's restarts.
LEMMA SupervisorStep ==
    ASSUME BridgeInv, RestartDead \/ RecoverFailed
    PROVE  BridgeInv'
<1>0. BridgeTypes /\ 0 \notin Slots
  BY BridgeAssumption DEF BridgeInv
<1>1. CASE RestartDead
  <2>0. /\ sw.pc = "backoff" /\ sw.c \in Slots /\ child[sw.c].proc = "none"
        /\ sw' = [pc |-> "idle", c |-> 0] /\ UNCHANGED <<file, rl, cb, down>>
    BY <1>0, <1>1 DEF RestartDead, SweepEnds, BridgeTypes, BridgeInv, Strays
  <2>1. CASE /\ Spawn(Collect(child, sw.c, {cb.c}), child[sw.c].cfg, down # "up", child[sw.c].times)
             /\ auto' = auto \cup child[sw.c].times
             /\ raced' = IF cur = sw.c THEN raced ELSE raced \cup {"sweep"}
    <3>1. raced \subseteq raced' /\ (raced' \cap {"sweep", "callback"} = {} => cur = sw.c)
      BY <2>1
    <3> QED  BY <2>0, <2>1, <3>1, RespawnStep
  <2>2. CASE child' = Collect(child, sw.c, {cur, cb.c}) /\ UNCHANGED <<cur, pend, auto, raced>>
    BY <1>0, <2>0, <2>2, CollectStep DEF BridgeTypes, BridgeInv, Flow
  <2> QED  BY <1>1, <2>1, <2>2 DEF RestartDead
<1>2. CASE RecoverFailed
  <2>0. /\ sw.pc = "retry" /\ sw.c \in Slots
        /\ sw' = [pc |-> "idle", c |-> 0] /\ UNCHANGED <<file, rl, cb, down>>
    BY <1>0, <1>2 DEF RecoverFailed, SweepEnds, BridgeTypes
  <2>1. CASE cur = sw.c
    <3>1. /\ Spawn(Collect(child, sw.c, {cb.c}), child[sw.c].cfg, down # "up", child[sw.c].times)
          /\ auto' = auto \cup child[sw.c].times
          /\ raced' = IF child[cur].proc = "up" THEN raced \cup {"callback"} ELSE raced
      BY <1>2, <2>1 DEF RecoverFailed
    <3>2. /\ raced \subseteq raced'
          /\ raced' \cap {"sweep", "callback"} = {} => child[cur].proc = "none"
      BY <1>0, <2>0, <2>1, <3>1 DEF BridgeTypes, Kid
    <3> QED  BY <2>0, <2>1, <3>1, <3>2, RespawnStep
  <2>2. CASE cur # sw.c
    <3>1. child' = Collect(child, sw.c, {cb.c}) /\ UNCHANGED <<cur, pend, auto, raced>>
      BY <1>2, <2>2 DEF RecoverFailed
    <3> QED  BY <1>0, <2>0, <2>2, <3>1, CollectStep DEF BridgeTypes, BridgeInv, Flow
  <2> QED  BY <2>1, <2>2
<1> QED  BY <1>1, <1>2

\* The supervisor's sweep before a restart.
LEMMA SweepStep ==
    ASSUME BridgeInv, SweepBegins \/ PingAnswers \/ PingFails \/ RecoverBegins
    PROVE  BridgeInv'
<1>0. BridgeTypes /\ 0 \notin Slots
  BY BridgeAssumption DEF BridgeInv
<1>1. CASE SweepBegins \/ PingAnswers
  <2>1. /\ UNCHANGED <<file, rl, child, cur, pend, cb, down, auto, raced>>
        /\ sw' \in [pc : {"idle", "ping", "recover"}, c : {0, cur}]
        /\ sw'.pc # "idle" => sw'.c = cur /\ cur # 0
    BY <1>1 DEF SweepBegins, PingAnswers, SweepEnds
  <2>2. BridgeTypes'
    BY <1>0, <2>1 DEF BridgeTypes
  <2>3. Strays' /\ Flow'
    BY <2>1 DEF BridgeInv, Strays, NoStrayProcess, Flow
  <2>4. Windows'
    BY <2>1 DEF BridgeInv, Windows, RestartBudget
  <2> QED  BY <2>2, <2>3, <2>4 DEF BridgeInv
<1>2. CASE PingFails
  <2> DEFINE i == sw.c
             again == child[i].cfg \notin NeverConfigs /\ MayRestart(i)
  <2>0. i \in Slots /\ UNCHANGED <<file, rl, cur, pend, cb, down, auto, raced>>
    BY <1>0, <1>2 DEF PingFails, BridgeTypes
  <2>1. CASE again
    <3>1. PICK a \in NewAttempt :
             /\ child' = [child EXCEPT ![i] = [Stopped(i) EXCEPT
                             !.state = "failed", !.times = @ \cup {a}]]
             /\ sw' = [sw EXCEPT !.pc = "backoff"]
      BY <1>2, <2>1 DEF PingFails
    <3> DEFINE e == [Stopped(i) EXCEPT !.state = "failed", !.times = @ \cup {a}]
    <3>2. a \in Attempts
      BY <3>1 DEF NewAttempt
    <3> DEFINE s == Stopped(i)
               t == s.times \cup {a}
    <3>8. s \in Kid /\ s.times = child[i].times /\ s.proc = "none"
      BY <1>0, <2>0, ZenonT(40) DEF BridgeTypes, Stopped, Kid, States
    <3> HIDE DEF s
    <3>9. t \in SUBSET Attempts /\ t = child[i].times \cup {a} /\ e = [s EXCEPT !.state = "failed", !.times = t]
      BY <3>2, <3>8 DEF Kid, s
    <3> HIDE DEF t
    <3>3. /\ e \in Kid /\ e.times = child[i].times \cup {a} /\ e.proc = "none" /\ e.state = "failed"
      <4> HIDE DEF e
      <4> QED  BY <3>8, <3>9 DEF Kid, States
    <3>4. child' = [child EXCEPT ![sw.c] = e]
      BY <3>1
    <3>5. sw' \in [pc : {"backoff", "retry"}, c : {sw.c}]
      BY <1>0, <3>1 DEF BridgeTypes
    <3> HIDE DEF e
    <3> QED  BY <2>0, <2>1, <3>2, <3>3, <3>4, <3>5, AttemptStep
  <2>2. CASE ~again
    <3> DEFINE e == [Stopped(i) EXCEPT !.state = "failed"]
               kids == [child EXCEPT ![i] = e]
    <3>1. child' = Collect(kids, i, {cur, cb.c}) /\ sw' = [pc |-> "idle", c |-> 0]
      BY <1>2, <2>2 DEF PingFails, SweepEnds
    <3>2. e \in Kid /\ e.times = child[i].times /\ e.proc = "none" /\ e.state = "failed"
      BY <1>0, <2>0, ZenonT(40) DEF BridgeTypes, Stopped, Kid, States
    <3> HIDE DEF e
    <3>3. /\ kids \in [Slots -> Kid] /\ kids[i] = e
          /\ \A j \in Slots : j # i => kids[j] = child[j]
      BY <1>0, <2>0, <3>2 DEF BridgeTypes
    <3> HIDE DEF kids
    <3>4. cur # 0 /\ kids[cur].state = "waiting_auth" => child[cur].state = "waiting_auth"
      BY <1>0, <3>2, <3>3 DEF BridgeTypes
    <3>5. /\ \A j \in Slots : kids[j].proc = "up" => child[j].proc = "up"
          /\ \A j \in Slots : kids[j].times = child[j].times
      BY <3>2, <3>3
    <3> QED  BY <1>0, <2>0, <3>1, <3>3, <3>4, <3>5, CollectStep, ZenonT(40) DEF BridgeTypes, BridgeInv, Flow
  <2> QED  BY <2>1, <2>2
<1>3. CASE RecoverBegins
  <2>0. sw.c \in Slots /\ UNCHANGED <<file, rl, cur, pend, cb, down, auto, raced>>
    BY <1>0, <1>3 DEF RecoverBegins, BridgeTypes
  <2>1. CASE child[sw.c].cfg \notin NeverConfigs /\ MayRestart(sw.c)
    <3>1. PICK a \in NewAttempt :
             /\ child' = [child EXCEPT ![sw.c].times = @ \cup {a}]
             /\ sw' = [sw EXCEPT !.pc = "retry"]
      BY <1>3, <2>1 DEF RecoverBegins
    <3> DEFINE e == [child[sw.c] EXCEPT !.times = @ \cup {a}]
    <3>2. a \in Attempts
      BY <3>1 DEF NewAttempt
    <3>3. /\ e \in Kid /\ e.times = child[sw.c].times \cup {a}
          /\ e.proc = child[sw.c].proc /\ e.state = child[sw.c].state
      BY <1>0, <2>0, <3>2 DEF BridgeTypes, Kid
    <3>4. child' = [child EXCEPT ![sw.c] = e]
      BY <3>1
    <3>5. sw' \in [pc : {"backoff", "retry"}, c : {sw.c}] /\ sw'.pc = "retry"
      BY <1>0, <3>1 DEF BridgeTypes
    <3> HIDE DEF e
    <3> QED  BY <2>0, <2>1, <3>2, <3>3, <3>4, <3>5, AttemptStep
  <2>2. CASE ~(child[sw.c].cfg \notin NeverConfigs /\ MayRestart(sw.c))
    <3>1. child' = Collect(child, sw.c, {cur, cb.c}) /\ sw' = [pc |-> "idle", c |-> 0]
      BY <1>3, <2>2 DEF RecoverBegins, SweepEnds
    <3> QED  BY <1>0, <2>0, <3>1, CollectStep DEF BridgeTypes, BridgeInv, Flow
  <2> QED  BY <2>1, <2>2
<1> QED  BY <1>1, <1>2, <1>3

\* Processes that end, attempts that grow old and answers of the browser.
LEMMA OutsideStep ==
    ASSUME BridgeInv,
           \/ \E i \in Slots : ChildDies(i)
           \/ \E a \in Attempts : AttemptAges(a)
           \/ CallbackFails
    PROVE  BridgeInv'
<1>0. BridgeTypes /\ 0 \notin Slots
  BY BridgeAssumption DEF BridgeInv
<1>1. ASSUME NEW i \in Slots, ChildDies(i)
      PROVE  BridgeInv'
  <2> DEFINE e == [child[i] EXCEPT !.proc = "none"]
             kids == [child EXCEPT ![i] = e]
  <2>1. /\ child' = Collect(kids, i, {cur, sw.c, cb.c})
        /\ UNCHANGED <<file, rl, cur, sw, pend, cb, down, auto, raced>>
    BY <1>1 DEF ChildDies
  <2>2. /\ e \in Kid /\ e.times = child[i].times /\ e.proc = "none" /\ e.state = child[i].state
    BY <1>0 DEF BridgeTypes, Kid
  <2> HIDE DEF e
  <2>3. /\ kids \in [Slots -> Kid] /\ kids[i] = e
        /\ \A j \in Slots : j # i => kids[j] = child[j]
    BY <1>0, <2>2 DEF BridgeTypes
  <2> HIDE DEF kids
  <2>4. /\ \A j \in Slots : kids[j].proc = "up" => child[j].proc = "up"
        /\ \A j \in Slots : kids[j].times = child[j].times
        /\ \A j \in Slots : kids[j].state = child[j].state
    BY <2>2, <2>3
  <2> QED  BY <1>0, <2>1, <2>3, <2>4, CollectStep, ZenonT(40) DEF BridgeTypes, BridgeInv, Flow
<1>2. ASSUME NEW a \in Attempts, AttemptAges(a)
      PROVE  BridgeInv'
  <2>1. /\ child' = [i \in Slots |-> [child[i] EXCEPT !.times = @ \ {a}]]
        /\ auto' = auto \ {a} /\ UNCHANGED <<file, rl, cur, sw, pend, cb, down, raced>>
    BY <1>2 DEF AttemptAges
  <2>2. ASSUME NEW i \in Slots
        PROVE  /\ child'[i] \in Kid /\ child'[i].times = child[i].times \ {a}
               /\ child'[i].proc = child[i].proc /\ child'[i].state = child[i].state
    BY <1>0, <2>1, ZenonT(40) DEF BridgeTypes, Kid
  <2>3. BridgeTypes'
    BY <1>0, <2>1, <2>2 DEF BridgeTypes
  <2>4. ASSUME NEW i \in Slots  PROVE Cardinality(child'[i].times) <= Limit
    <3>1. child[i].times \in SUBSET Attempts /\ Cardinality(child[i].times) <= Limit
      BY <1>0 DEF BridgeTypes, Kid, BridgeInv, Windows
    <3>2. child'[i].times \subseteq child[i].times
      BY <2>2
    <3> QED  BY <3>1, <3>2, SmallerWindow
  <2>5. /\ cur # 0 => auto' \subseteq child'[cur].times
        /\ sw'.c # 0 => auto' \subseteq child'[sw'.c].times
    BY <1>0, <2>1, <2>2 DEF BridgeTypes, BridgeInv, Windows
  <2>6. Flow' /\ (sw'.pc = "backoff" => child'[sw'.c].proc = "none")
    BY <1>0, <2>1, <2>2 DEF BridgeTypes, BridgeInv, Flow, Strays
  <2>7. \A i \in Slots : child'[i].proc = "up" => child[i].proc = "up"
    BY <2>2
  <2> QED  BY <2>1, <2>3, <2>4, <2>5, <2>6, <2>7, QuietStep
<1>3. CASE CallbackFails
  <2>0. /\ UNCHANGED <<file, rl, cur, sw, pend, down, auto, raced>> /\ cb.pc = "fail"
        /\ cb' = [pc |-> "idle", c |-> 0]
    BY <1>3 DEF CallbackFails
  <2>1. CASE cb.c = 0
    <3>1. child' = Collect(child, 0, {cur, sw.c})
      BY <1>3, <2>1 DEF CallbackFails, Collect
    <3> QED  BY <1>0, <2>0, <2>1, <3>1, CollectStep DEF BridgeTypes, BridgeInv, Flow
  <2>2. CASE cb.c # 0
    <3> DEFINE i == cb.c
               e == [child[i] EXCEPT !.state = "failed"]
               kids == [child EXCEPT ![i] = e]
    <3>1. child' = Collect(kids, i, {cur, sw.c}) /\ i \in Slots
      BY <1>0, <1>3, <2>2 DEF CallbackFails, BridgeTypes
    <3>2. e \in Kid /\ e.times = child[i].times /\ e.proc = child[i].proc /\ e.state = "failed"
      BY <1>0, <3>1 DEF BridgeTypes, Kid, States
    <3> HIDE DEF e
    <3>3. /\ kids \in [Slots -> Kid] /\ kids[i] = e
          /\ \A j \in Slots : j # i => kids[j] = child[j]
      BY <1>0, <3>1, <3>2 DEF BridgeTypes
    <3> HIDE DEF kids
    <3>4. /\ \A j \in Slots : kids[j].proc = "up" => child[j].proc = "up"
          /\ \A j \in Slots : kids[j].times = child[j].times
      BY <3>2, <3>3
    <3>5. cur # 0 /\ kids[cur].state = "waiting_auth" => cur # cb.c /\ child[cur].state = "waiting_auth"
      BY <1>0, <3>2, <3>3 DEF BridgeTypes
    <3>6. cur # 0 /\ kids[cur].state = "waiting_auth" => pend # "none"
      BY <2>0, <3>5 DEF BridgeInv, Flow
    <3> QED  BY <1>0, <2>0, <3>1, <3>3, <3>4, <3>6, CollectStep DEF BridgeTypes
  <2> QED  BY <2>1, <2>2
<1> QED  BY <1>1, <1>2, <1>3

\* Steps that leave the children alone.
LEMMA AsideStep ==
    ASSUME BridgeInv,
           \/ EditFile \/ WatchRead \/ AdminReload \/ CallbackArrives \/ ExchangeEnds
           \/ FlowExpires \/ ShutdownBegins \/ UNCHANGED vars
    PROVE  BridgeInv'
<1>0. BridgeTypes
  BY DEF BridgeInv
<1>1. /\ UNCHANGED <<child, cur, sw, auto, raced>> /\ (down' = "down" => down = "down")
      /\ file' \in Files
  BY <1>0 DEF EditFile, WatchRead, AdminReload, ReadFile, CallbackArrives, ExchangeEnds, FlowExpires,
     ShutdownBegins, vars, BridgeTypes
<1>2. rl' \in [Reloaders -> Configs \cup {Absent, None}]
  BY <1>0 DEF EditFile, WatchRead, AdminReload, ReadFile, CallbackArrives, ExchangeEnds, FlowExpires,
     ShutdownBegins, vars, BridgeTypes, Files
<1>3. /\ cb' \in [pc : {"idle", "exchange", "fail", "restart"}, c : Slots \cup {0}]
      /\ pend' \in {"none", "live", "expired", "spent"}
  BY <1>0 DEF EditFile, WatchRead, AdminReload, ReadFile, CallbackArrives, ExchangeEnds, FlowExpires,
     ShutdownBegins, vars, BridgeTypes
<1>4. BridgeTypes'
  BY <1>0, <1>1, <1>2, <1>3 DEF BridgeTypes
<1>5. Strays' /\ Windows'
  BY <1>1 DEF BridgeInv, Strays, NoStrayProcess, Windows, RestartBudget
<1>6. Flow'
  BY <1>1 DEF EditFile, WatchRead, AdminReload, ReadFile, CallbackArrives, ExchangeEnds, FlowExpires,
     ShutdownBegins, vars, BridgeInv, Flow
<1> QED  BY <1>4, <1>5, <1>6 DEF BridgeInv

\* The invariant is inductive.
LEMMA BridgeStep == BridgeInv /\ [Next]_vars => BridgeInv'
BY PartiesStep, SupervisorStep, SweepStep, OutsideStep, AsideStep DEF Next

\* Whatever reloads, admin requests, sweeps, callbacks and a shutdown
\* interleave, only the registered child has a process, and none has one after
\* Shutdown, but for the named races of handleChildDeath, failChild, a late
\* admin reload and a late callback.
THEOREM NoStrays == Spec => []NoStrayProcess
<1>1. BridgeInv => NoStrayProcess
  BY DEF BridgeInv, Strays
<1> QED  BY <1>1, BridgeInit, BridgeStep, PTL DEF Spec

\* recordRestartAttempt keeps the supervisor's restarts of the last minute at
\* max_restart_per_min although each restart makes a new Child: for every limit
\* and any number of children around at a time.
THEOREM BudgetKept == Spec => []RestartBudget
<1>1. BridgeInv => RestartBudget
  BY DEF BridgeInv, Windows
<1> QED  BY <1>1, BridgeInit, BridgeStep, PTL DEF Spec

\* A registered child that waits for its authorization has its flow pending or
\* an answer under way (oauthBroker.begin, handleCallback), whatever restarts
\* and reloads replace the child between the browser's answer and its effect.
THEOREM AuthorizationStays == Spec => []AuthorizationReachable
<1>1. BridgeInv => AuthorizationReachable
  BY DEF BridgeInv, Flow, AuthorizationReachable
<1> QED  BY <1>1, BridgeInit, BridgeStep, PTL DEF Spec
=============================================================================
