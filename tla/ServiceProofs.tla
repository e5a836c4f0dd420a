---------------------------- MODULE ServiceProofs ----------------------------
(***************************************************************************)
(* The seven safety invariants of Service, for every value of its          *)
(* constants.  Each part has an inductive invariant of its own (IdleInv,   *)
(* DirectInv, SidecarInv, CloudInv, EgressInv), which its initial states   *)
(* satisfy, its steps keep and which gives the part's properties.  A step  *)
(* of the service is a step of one part and leaves the others alone, so    *)
(* that each part's invariant holds of the service; that is put together   *)
(* at the end, where the theorems are.                                     *)
(***************************************************************************)
EXTENDS Service, TLAPS

-----------------------------------------------------------------------------
(* The reaper of idle sandboxes *)

\* The types of what the reaper's part keeps.
IdleTypes ==
    /\ rec \in [there : BOOLEAN, settled : BOOLEAN, life : Nat, last : Nat]
    /\ rec.last <= I!Long
    /\ idle \in Nat
    /\ seen \in [Nodes -> Nat]
    /\ picked \in [Nodes -> [on : BOOLEAN, used : Nat, life : Nat]]

\* A server that will not write the next use down wrote one at least as recent
\* as the record says, so that the record is less than an interval behind.
IdleAges ==
    /\ \A n \in Nodes : seen[n] < Every => rec.last <= seen[n]
    /\ rec.last <= idle \/ rec.last < idle + Every

IdleInv == IdleTypes /\ IdleAges /\ ReapedWhenIdle

\* There is a longest lifetime, and an age beyond it.
LEMMA LongFact == I!Long \in Nat \ {0}
<1>1. \E l \in I!Lives : \A k \in I!Lives : k <= l
  BY ServiceAssumption DEF I!Lives
<1>2. I!Lives \subseteq Nat
  BY ServiceAssumption DEF I!Lives
<1>3. PICK l \in I!Lives : \A k \in I!Lives : k <= l
  BY <1>1
<1> DEFINE m == CHOOSE x \in I!Lives : \A k \in I!Lives : k <= x
<1>4. m \in I!Lives
  BY <1>3
<1>5. I!Long = 1 + m
  BY DEF I!Long
<1> HIDE DEF m
<1> QED  BY <1>2, <1>4, <1>5

\* The first states.
LEMMA IdleInit == Init => IdleInv
<1>1. Every \in Nat /\ Default \in Nat
  BY ServiceAssumption
<1> QED
  BY <1>1, LongFact DEF Init, I!Init, IdleInv, IdleTypes, IdleAges, ReapedWhenIdle, I!ReapedWhenIdle

\* Every step of the part.
LEMMA IdleStep ==
    ASSUME IdleInv, I!Next
    PROVE  IdleInv'
<1>0. Every \in Nat /\ Default \in Nat /\ Own \subseteq Nat /\ I!Long \in Nat \ {0}
  BY ServiceAssumption, LongFact
<1> USE <1>0 DEF IdleInv, IdleTypes, IdleAges, ReapedWhenIdle, I!ReapedWhenIdle
<1>1. ASSUME NEW n \in Nodes, I!Touch(n)
      PROVE  IdleInv'
  BY <1>1 DEF I!Touch, I!ShouldPersistActivity
<1>2. ASSUME NEW n \in Nodes, I!ReapIdleSandboxes(n)
      PROVE  IdleInv'
  BY <1>2 DEF I!ReapIdleSandboxes, I!ShouldReapSandbox, I!EffectiveSandboxTTL
<1>3. ASSUME NEW n \in Nodes, I!TeardownSandbox(n)
      PROVE  IdleInv'
  BY <1>3 DEF I!TeardownSandbox
<1>4. CASE I!SetTimeout
  <2>1. PICK l \in Own : rec' = [rec EXCEPT !.life = l, !.last = 0]
    BY <1>4 DEF I!SetTimeout
  <2>2. rec' = [there |-> rec.there, settled |-> rec.settled, life |-> l, last |-> 0]
    BY <2>1
  <2>3. l \in Nat /\ UNCHANGED <<seen, picked>> /\ idle' = 0
    BY <1>4 DEF I!SetTimeout
  <2> QED  BY <2>2, <2>3
<1>5. CASE I!StateChanges
  BY <1>5 DEF I!StateChanges
<1>6. CASE I!Tick
  BY <1>6 DEF I!Tick, I!Older
<1>7. CASE I!Create
  BY <1>7 DEF I!Create
<1> QED  BY <1>1, <1>2, <1>3, <1>4, <1>5, <1>6, <1>7 DEF I!Next

-----------------------------------------------------------------------------
(* The machines that are sandboxes themselves *)

LinkSteps  == {"free", "upgrade", "claim", "lookup", "write", "serve", "remove", "release", "mark"}
EarlySteps == {"upgrade", "claim", "lookup", "write"}

\* The types of what the connections' part keeps; a handler that tidies up has
\* a closed tunnel.
DirectTypes ==
    /\ tomb \in [Nodes -> Nat]
    /\ direct \in [Nodes -> Links \cup {0}]
    /\ link \in [Links -> [pc : LinkSteps, at : Nodes \cup {Nowhere},
                           open : BOOLEAN, seen : BOOLEAN]]
    /\ agent \in [pc : {"dial", "up", "stopped"}, left : Nat, c : Links \cup {0}]
    /\ del \in [pc : {"idle", "close", "record", "remove"}, at : Nodes \cup {Nowhere},
                c : Links \cup {0}]
    /\ mess \in Nat /\ mess <= MaxMess
    /\ since \in Nodes \cup {Nowhere}
    /\ again \in BOOLEAN /\ crossed \in BOOLEAN
    /\ agent.pc = "up" => agent.c \in Links
    /\ del.pc # "idle" => del.at \in Nodes
    /\ agent.pc = "dial" => agent.left <= Retry
    /\ \A c \in Links : link[c].pc \in {"remove", "release", "mark"} => ~link[c].open

\* A connection is registered before its agent could dial again.
OneConnecting ==
    \A c \in Links : link[c].pc \in EarlySteps =>
        \/ agent.pc = "up" /\ agent.c = c
        \/ agent.pc = "dial" /\ agent.left > 0

\* While an agent whose sandbox a server deleted keeps trying, the tombstone
\* outlasts the wait for its next attempt, and as many more as may still fail;
\* an agent that is still served is the one whose tunnel the delete closes.
Lead(m) == (MaxMess - m) * Retry
Remembered ==
    since # Nowhere =>
        /\ mess >= 1
        /\ agent.pc = "dial" => tomb[since] > agent.left + Lead(mess)
        /\ agent.pc = "up" => /\ tomb[since] = Window
                              /\ \/ ~link[agent.c].open
                                 \/ del.pc = "close" /\ del.at = since /\ direct[since] = agent.c

DirectInv ==
    /\ DirectTypes /\ OneConnecting
    /\ ~crossed => ~again /\ Remembered

\* What the proof needs of the constants: a tombstone outlasts all the failed
\* attempts there may be.
LEMMA DirectConstants ==
    /\ Window \in Nat /\ Retry \in Nat /\ Retry > 0 /\ MaxMess \in Nat
    /\ Nowhere \notin Nodes /\ 0 \notin Links
    /\ \A m \in Nat : m >= 1 /\ m <= MaxMess => Window > Retry + (MaxMess - m) * Retry
<1> USE ServiceAssumption
<1>1. Window \in Nat /\ Retry \in Nat /\ Retry > 0 /\ MaxMess \in Nat /\ MaxMess * Retry < Window
  OBVIOUS
<1>2. ASSUME NEW m \in Nat, m >= 1, m <= MaxMess
      PROVE  Window > Retry + (MaxMess - m) * Retry
  <2>1. Retry + (MaxMess - m) * Retry = MaxMess * Retry - (m - 1) * Retry
    BY <1>1, <1>2
  <2>2. (m - 1) * Retry >= 0
    BY <1>1, <1>2
  <2>3. MaxMess * Retry \in Nat /\ (m - 1) * Retry \in Int
    BY <1>1, <1>2
  <2> QED  BY <1>1, <2>1, <2>2, <2>3
<1> QED  BY <1>1, <1>2

\* The first state.
LEMMA DirectInit == Init => DirectInv
<1> SUFFICES ASSUME D!Init PROVE DirectInv
  BY DEF Init
<1> USE DirectConstants DEF D!Init, D!NoLink, D!Idle
<1>1. link \in [Links -> [pc : LinkSteps, at : Nodes \cup {Nowhere},
                         open : BOOLEAN, seen : BOOLEAN]]
  BY DEF LinkSteps
<1>2. \A c \in Links : link[c].pc = "free"
  OBVIOUS
<1>3. DirectTypes
  <2>1. del \in [pc : {"idle", "close", "record", "remove"}, at : Nodes \cup {Nowhere},
                c : Links \cup {0}]
    OBVIOUS
  <2>2. again \in BOOLEAN /\ crossed \in BOOLEAN
    BY Zenon
  <2> QED  BY <1>1, <1>2, <2>1, <2>2 DEF DirectTypes
<1>4. OneConnecting
  BY <1>2 DEF OneConnecting, EarlySteps
<1> QED  BY <1>3, <1>4 DEF DirectInv, Remembered

\* What moving a connection's handler changes, and what it leaves alone.
LEMMA LinkMoves ==
    ASSUME DirectTypes, NEW c \in Links, NEW x \in LinkSteps, link' = [link EXCEPT ![c].pc = x]
    PROVE  /\ link' \in [Links -> [pc : LinkSteps, at : Nodes \cup {Nowhere},
                                   open : BOOLEAN, seen : BOOLEAN]]
           /\ link'[c].pc = x /\ link'[c].at = link[c].at /\ link'[c].open = link[c].open
           /\ \A d \in Links : d # c => link'[d] = link[d]
BY DEF DirectTypes, LinkSteps

\* The same of a tunnel that is closed.
LEMMA LinkCloses ==
    ASSUME DirectTypes, NEW x \in Links \cup {0},
           link' = [c \in Links |-> IF x = c THEN [link[c] EXCEPT !.open = FALSE] ELSE link[c]]
    PROVE  /\ link' \in [Links -> [pc : LinkSteps, at : Nodes \cup {Nowhere},
                                   open : BOOLEAN, seen : BOOLEAN]]
           /\ \A c \in Links : link'[c].pc = link[c].pc /\ link'[c].at = link[c].at
           /\ \A c \in Links : c = x => ~link'[c].open
           /\ \A c \in Links : c # x => link'[c] = link[c]
<1> DEFINE R == [pc : LinkSteps, at : Nodes \cup {Nowhere}, open : BOOLEAN, seen : BOOLEAN]
<1>1. \A c \in Links : link[c] \in R
  BY DEF DirectTypes
<1>2. \A e \in R : /\ [e EXCEPT !.open = FALSE].pc = e.pc
                  /\ [e EXCEPT !.open = FALSE].at = e.at
                  /\ ~[e EXCEPT !.open = FALSE].open
  OBVIOUS
<1>3. \A e \in R : [e EXCEPT !.open = FALSE] \in R
  OBVIOUS
<1>4. link' \in [Links -> R]
  <2> HIDE DEF R
  <2> QED  BY <1>1, <1>3
<1>5. \A c \in Links : c = x => link'[c] = [link[c] EXCEPT !.open = FALSE]
  OBVIOUS
<1>6. \A c \in Links : c # x => link'[c] = link[c]
  OBVIOUS
<1>7. \A c \in Links : c = x => /\ link'[c].pc = link[c].pc /\ link'[c].at = link[c].at
                                /\ ~link'[c].open
  BY <1>1, <1>2, <1>5
<1> QED  BY <1>4, <1>6, <1>7

\* The types are kept.
LEMMA DirectTypesStep ==
    ASSUME DirectInv, D!Next
    PROVE  DirectTypes'
<1> USE DirectConstants DEF DirectInv, DirectTypes
<1>1. CASE D!TurnedAway
  BY <1>1 DEF D!TurnedAway, D!Gone, D!Stopped, D!Waiting
<1>2. CASE D!Accepted
  BY <1>2 DEF D!Accepted, LinkSteps
<1>3. CASE D!DialFails \/ D!Disconnected \/ D!Drops \/ D!Restart
  BY <1>3 DEF D!DialFails, D!Disconnected, D!Drops, D!Restart, D!Waiting
<1>4. CASE D!Tick
  BY <1>4 DEF D!Tick
<1>5. ASSUME NEW c \in Links, D!StoreTunnel(c) \/ D!RemoveTunnel(c)
      PROVE  DirectTypes'
  <2>1. \E x \in {"claim", "release"} :
           /\ link' = [link EXCEPT ![c].pc = x]
           /\ x = "release" => link[c].pc = "remove"
    BY <1>5 DEF D!StoreTunnel, D!RemoveTunnel, D!At
  <2>2. PICK x \in {"claim", "release"} :
           /\ link' = [link EXCEPT ![c].pc = x]
           /\ x = "release" => link[c].pc = "remove"
    BY <2>1
  <2>3. x \in LinkSteps
    BY DEF LinkSteps
  <2>4. /\ link' \in [Links -> [pc : LinkSteps, at : Nodes \cup {Nowhere},
                                open : BOOLEAN, seen : BOOLEAN]]
        /\ \A d \in Links : link'[d].pc \in {"remove", "release", "mark"} => ~link'[d].open
    BY <2>2, <2>3, LinkMoves
  <2>5. direct' \in [Nodes -> Links \cup {0}]
    BY <1>5 DEF D!StoreTunnel, D!RemoveTunnel
  <2>6. /\ crossed' \in BOOLEAN
        /\ UNCHANGED <<tomb, agent, del, mess, since, again>>
    BY <1>5 DEF D!StoreTunnel, D!RemoveTunnel
  <2> QED  BY <2>4, <2>5, <2>6
<1>6. ASSUME NEW c \in Links, D!Claim(c) \/ D!WriteRecord(c) \/ D!LoopEnds(c)
                              \/ D!Release(c) \/ D!MarkError(c)
      PROVE  DirectTypes'
  BY <1>6 DEF D!Claim, D!WriteRecord, D!LoopEnds, D!Release, D!MarkError, D!At, LinkSteps
<1>7. ASSUME NEW c \in Links, D!LookUp(c)
      PROVE  DirectTypes'
  <2> DEFINE R == [pc : LinkSteps, at : Nodes \cup {Nowhere}, open : BOOLEAN, seen : BOOLEAN]
             b == (row # "none")
             e == [link[c] EXCEPT !.pc = "write", !.seen = b]
  <2>1. link' = [link EXCEPT ![c] = e]
    BY <1>7 DEF D!LookUp
  <2>2. \A r \in R, v \in BOOLEAN : [r EXCEPT !.pc = "write", !.seen = v] \in R
    BY DEF LinkSteps
  <2>3. e \in R /\ e.pc = "write"
    BY <2>2
  <2>4. UNCHANGED <<tomb, direct, agent, del, mess, since, again, crossed>>
    BY <1>7 DEF D!LookUp
  <2> HIDE DEF e
  <2> QED  BY <2>1, <2>3, <2>4
<1>12. ASSUME NEW c \in Links, D!Notice(c)
      PROVE  DirectTypes'
  <2>1. link' = [d \in Links |-> IF c = d THEN [link[d] EXCEPT !.open = FALSE] ELSE link[d]]
    BY <1>12 DEF D!Notice
  <2>2. /\ link' \in [Links -> [pc : LinkSteps, at : Nodes \cup {Nowhere},
                                open : BOOLEAN, seen : BOOLEAN]]
        /\ \A d \in Links : link'[d].pc \in {"remove", "release", "mark"} => ~link'[d].open
    BY <2>1, LinkCloses
  <2> QED  BY <1>12, <2>2 DEF D!Notice
<1>8. ASSUME NEW n \in Nodes, D!RefreshOwner(n)
      PROVE  DirectTypes'
  BY <1>8 DEF D!RefreshOwner
<1>9. CASE D!DeleteBegins
  BY <1>9 DEF D!DeleteBegins
<1>10. CASE D!DeleteCloses
  <2>1. link' = [c \in Links |-> IF direct[del.at] = c
                                 THEN [link[c] EXCEPT !.open = FALSE] ELSE link[c]]
    BY <1>10 DEF D!DeleteCloses
  <2>3. direct[del.at] \in Links \cup {0}
    BY <1>10 DEF D!DeleteCloses
  <2>2. /\ link' \in [Links -> [pc : LinkSteps, at : Nodes \cup {Nowhere},
                                open : BOOLEAN, seen : BOOLEAN]]
        /\ \A d \in Links : link'[d].pc \in {"remove", "release", "mark"} => ~link'[d].open
    BY <2>1, <2>3, LinkCloses
  <2>4. /\ del' = [pc |-> "record", at |-> del.at, c |-> direct[del.at]]
        /\ crossed' \in BOOLEAN
    BY <1>10 DEF D!DeleteCloses
  <2> QED  BY <1>10, <2>2, <2>3, <2>4 DEF D!DeleteCloses
<1>11. CASE D!DeleteRecord \/ D!DeleteEnds
  <2>1. direct' \in [Nodes -> Links \cup {0}]
    BY <1>11 DEF D!DeleteRecord, D!DeleteEnds
  <2>2. crossed' \in BOOLEAN
    BY <1>11 DEF D!DeleteRecord, D!DeleteEnds
  <2> QED  BY <1>11, <2>1, <2>2 DEF D!DeleteRecord, D!DeleteEnds, D!Idle
<1> QED
  BY <1>1, <1>2, <1>3, <1>4, <1>5, <1>6, <1>7, <1>8, <1>9, <1>10, <1>11, <1>12
     DEF D!Next, D!Dials, D!Handler

\* What a step does to the handlers: none becomes early but the one accepted,
\* closed tunnels stay closed, and servers stay the same.
LinksKept == \A c \in Links : /\ link'[c].pc \in EarlySteps => link[c].pc \in EarlySteps
                              /\ link'[c].open => link[c].open

\* Only an accepted connection opens a tunnel.
LEMMA LinksStep ==
    ASSUME DirectInv, D!Next
    PROVE  LinksKept \/ D!Accepted
<1> USE DEF DirectInv
<1>0. ASSUME UNCHANGED link PROVE LinksKept
  BY <1>0 DEF LinksKept
<1>1. ASSUME NEW c \in Links, NEW x \in LinkSteps, link' = [link EXCEPT ![c].pc = x],
             x \in EarlySteps => link[c].pc \in EarlySteps
      PROVE  LinksKept
  <2>1. /\ link'[c].pc = x /\ link'[c].open = link[c].open
        /\ \A d \in Links : d # c => link'[d] = link[d]
    BY <1>1, LinkMoves
  <2> QED  BY <1>1, <2>1 DEF LinksKept
<1>2. ASSUME NEW x \in Links \cup {0},
             link' = [c \in Links |-> IF x = c THEN [link[c] EXCEPT !.open = FALSE] ELSE link[c]]
      PROVE  LinksKept
  <2>1. /\ \A c \in Links : link'[c].pc = link[c].pc
        /\ \A c \in Links : c = x => ~link'[c].open
        /\ \A c \in Links : c # x => link'[c] = link[c]
    BY <1>2, LinkCloses
  <2> QED  BY <2>1 DEF LinksKept
<1>3. CASE \/ D!TurnedAway \/ D!DialFails \/ D!Disconnected \/ D!Drops \/ D!Restart \/ D!Tick
           \/ D!DeleteBegins \/ D!DeleteRecord \/ D!DeleteEnds
  BY <1>0, <1>3 DEF D!TurnedAway, D!DialFails, D!Disconnected, D!Drops, D!Restart, D!Tick,
     D!DeleteBegins, D!DeleteRecord, D!DeleteEnds
<1>4. ASSUME NEW c \in Links, D!StoreTunnel(c) \/ D!Claim(c) \/ D!WriteRecord(c)
      PROVE  LinksKept
  BY <1>1, <1>4 DEF D!StoreTunnel, D!Claim, D!WriteRecord, D!At, EarlySteps, LinkSteps
<1>5. ASSUME NEW c \in Links, \/ D!LoopEnds(c) \/ D!RemoveTunnel(c) \/ D!Release(c)
                              \/ D!MarkError(c)
      PROVE  LinksKept
  BY <1>1, <1>5 DEF D!LoopEnds, D!RemoveTunnel, D!Release, D!MarkError, D!At, EarlySteps, LinkSteps
<1>6. ASSUME NEW c \in Links, D!LookUp(c)
      PROVE  LinksKept
  <2>1. \A d \in Links : /\ link'[d].open = link[d].open
                         /\ link'[d].pc \in EarlySteps => link[d].pc \in EarlySteps
    BY <1>6 DEF D!LookUp, DirectTypes, EarlySteps
  <2> QED  BY <2>1 DEF LinksKept
<1>7. ASSUME NEW c \in Links, D!Notice(c)
      PROVE  LinksKept
  <2>1. link' = [d \in Links |-> IF c = d THEN [link[d] EXCEPT !.open = FALSE] ELSE link[d]]
    BY <1>7 DEF D!Notice, DirectTypes
  <2> QED  BY <1>2, <2>1
<1>8. CASE D!DeleteCloses
  <2>1. direct[del.at] \in Links \cup {0}
    BY <1>8 DEF D!DeleteCloses, DirectTypes
  <2> QED  BY <1>2, <1>8, <2>1 DEF D!DeleteCloses
<1>9. ASSUME NEW n \in Nodes, D!RefreshOwner(n)
      PROVE  LinksKept
  BY <1>0, <1>9 DEF D!RefreshOwner
<1> QED
  BY <1>3, <1>4, <1>5, <1>6, <1>7, <1>8, <1>9 DEF D!Next, D!Dials, D!Handler

\* OneConnecting is preserved: an attempt needs a tick after the connection
\* before it, and a tick that every handler has registered its tunnel.
LEMMA ConnectingStep ==
    ASSUME DirectInv, D!Next
    PROVE  OneConnecting'
<1> USE DirectConstants DEF DirectInv
<1>1. CASE D!Accepted
  <2>1. \A c \in Links : link[c].pc \notin EarlySteps
    BY <1>1 DEF D!Accepted, OneConnecting
  <2> QED  BY <1>1, <2>1 DEF D!Accepted, OneConnecting, DirectTypes
<1>2. CASE LinksKept /\ \/ D!TurnedAway \/ D!DialFails \/ D!Restart
  <2>1. \A c \in Links : link[c].pc \notin EarlySteps
    BY <1>2 DEF D!TurnedAway, D!DialFails, D!Restart, OneConnecting
  <2> QED  BY <1>2, <2>1 DEF LinksKept, OneConnecting
<1>3. CASE LinksKept /\ D!Tick
  BY <1>3 DEF D!Tick, LinksKept, OneConnecting, EarlySteps
<1>4. CASE LinksKept /\ (D!Disconnected \/ D!Drops)
  BY <1>4 DEF D!Disconnected, D!Drops, D!Waiting, OneConnecting
<1>5. CASE LinksKept /\ UNCHANGED agent
  BY <1>5 DEF LinksKept, OneConnecting
<1>6. ASSUME NEW c \in Links, D!Handler(c) \/ D!Notice(c)
      PROVE  UNCHANGED agent
  BY <1>6 DEF D!Handler, D!StoreTunnel, D!Claim, D!LookUp, D!WriteRecord, D!LoopEnds,
     D!RemoveTunnel, D!Release, D!MarkError, D!Notice
<1>7. ASSUME \/ \E n \in Nodes : D!RefreshOwner(n)
             \/ D!DeleteBegins \/ D!DeleteCloses \/ D!DeleteRecord \/ D!DeleteEnds
      PROVE  UNCHANGED agent
  BY <1>7 DEF D!RefreshOwner, D!DeleteBegins, D!DeleteCloses, D!DeleteRecord, D!DeleteEnds
<1> QED
  BY <1>1, <1>2, <1>3, <1>4, <1>5, <1>6, <1>7, LinksStep DEF D!Next, D!Dials

\* Nothing that waits for the next attempt loses the tombstone's lead.
LEMMA RememberedStep ==
    ASSUME DirectInv, D!Next, ~crossed', ~crossed, ~again, Remembered
    PROVE  ~again' /\ Remembered'
<1> DEFINE Goal == ~again' /\ Remembered'
<1>0. DirectTypes /\ OneConnecting
  BY DEF DirectInv
<1>a. \A m \in Nat : m <= MaxMess => Lead(m) \in Nat
  BY DirectConstants DEF Lead
<1>b. \A m \in Nat : m + 1 <= MaxMess => Lead(m) = Retry + Lead(m + 1)
  BY DirectConstants DEF Lead
<1>c. \A m \in Nat : m >= 1 /\ m <= MaxMess => Window > Retry + Lead(m)
  BY DirectConstants DEF Lead
<1> USE DirectConstants
<1>1. CASE D!TurnedAway
  <2>1. PICK n \in Nodes : /\ tomb[n] > 0 /\ tomb' = [tomb EXCEPT ![n] = Window]
                           /\ since' = IF since = n THEN since ELSE Nowhere
    BY <1>1 DEF D!TurnedAway, D!Gone
  <2>2. /\ UNCHANGED <<mess, again>>
        /\ agent'.pc = "stopped" \/ (agent'.pc = "dial" /\ agent'.left = Retry)
    BY <1>1 DEF D!TurnedAway, D!Stopped, D!Waiting
  <2> QED  BY <1>0, <1>c, <2>1, <2>2 DEF Remembered, DirectTypes
<1>2. CASE D!Accepted
  <2>1. PICK n \in Nodes : tomb[n] = 0 /\ again' = (again \/ since = n)
    BY <1>2 DEF D!Accepted
  <2>2. since # n
    BY <1>0, <1>2, <1>a, <2>1 DEF D!Accepted, Remembered, DirectTypes
  <2> QED  BY <1>2, <2>1, <2>2 DEF D!Accepted, Remembered
<1>3. CASE D!DialFails
  <2>1. /\ UNCHANGED <<tomb, since, again>> /\ mess' = mess + 1 /\ mess' <= MaxMess
        /\ agent'.pc = "dial" /\ agent'.left = Retry
        /\ agent.pc = "dial" /\ agent.left = 0
    BY <1>0, <1>3 DEF D!DialFails, D!Waiting, DirectTypes
  <2>2. since # Nowhere => tomb[since] > Lead(mess) /\ Lead(mess) = Retry + Lead(mess')
    BY <1>0, <1>a, <1>b, <2>1 DEF Remembered, DirectTypes
  <2> QED  BY <1>0, <2>1, <2>2 DEF Remembered, DirectTypes
<1>4. CASE D!Disconnected \/ D!Drops
  <2>1. /\ UNCHANGED <<tomb, since, again>> /\ mess' >= mess /\ mess' <= MaxMess /\ mess' \in Nat
        /\ agent'.pc = "dial" /\ agent'.left = Retry /\ agent.pc = "up"
    BY <1>0, <1>4 DEF D!Disconnected, D!Drops, D!Waiting, DirectTypes
  <2> QED  BY <1>0, <1>c, <2>1 DEF Remembered, DirectTypes
<1>5. CASE D!Restart
  BY <1>5 DEF D!Restart, Remembered
<1>6. CASE D!Tick
  <2>1. /\ UNCHANGED <<direct, link, del, mess, since, again>> /\ del.pc = "idle"
        /\ agent'.pc = agent.pc /\ agent'.c = agent.c
        /\ agent.pc = "dial" => agent.left > 0 /\ agent'.left = agent.left - 1
        /\ agent.pc = "up" => link[agent.c].open
        /\ tomb' = [n \in Nodes |-> IF tomb[n] > 0 THEN tomb[n] - 1 ELSE 0]
    BY <1>0, <1>6 DEF D!Tick, DirectTypes
  <2> QED  BY <1>0, <1>a, <2>1 DEF Remembered, DirectTypes
<1>7. ASSUME UNCHANGED <<tomb, agent, mess, since, again>>,
             since # Nowhere /\ agent.pc = "up" =>
                \/ ~link'[agent.c].open
                \/ del'.pc = "close" /\ del'.at = since /\ direct'[since] = agent.c
      PROVE  Goal
  BY <1>7 DEF Remembered
<1>8. ASSUME NEW c \in Links, D!Handler(c) \/ D!Notice(c)
      PROVE  Goal
  <2>1. UNCHANGED <<tomb, agent, del, mess, since, again>>
    BY <1>8 DEF D!Handler, D!StoreTunnel, D!Claim, D!LookUp, D!WriteRecord, D!LoopEnds,
       D!RemoveTunnel, D!Release, D!MarkError, D!Notice
  <2>2. LinksKept \/ D!Accepted
    BY LinksStep
  <2>3. ~D!Accepted
    BY <1>0, <2>1 DEF D!Accepted, DirectTypes
  <2>4. ASSUME since # Nowhere, agent.pc = "up", link[agent.c].open
        PROVE  direct'[since] = agent.c
    <3>1. agent.c \in Links /\ since \in Nodes /\ direct[since] = agent.c
      BY <1>0, <2>4 DEF Remembered, DirectTypes
    <3>2. CASE D!StoreTunnel(c)
      <4>1. c = agent.c
        BY <1>0, <2>4, <3>2 DEF D!StoreTunnel, D!At, OneConnecting, EarlySteps
      <4> QED  BY <1>0, <3>1, <3>2, <4>1 DEF D!StoreTunnel, DirectTypes
    <3>3. CASE D!RemoveTunnel(c)
      <4>1. c # agent.c
        BY <1>0, <2>4, <3>3 DEF D!RemoveTunnel, D!At, DirectTypes
      <4>2. link[c].at # since
        BY <3>1, <3>3, <4>1 DEF D!RemoveTunnel
      <4> QED  BY <1>0, <3>1, <3>3, <4>2 DEF D!RemoveTunnel, DirectTypes
    <3>4. CASE UNCHANGED direct
      BY <3>1, <3>4
    <3> QED
      BY <1>8, <3>2, <3>3, <3>4 DEF D!Handler, D!Claim, D!LookUp, D!WriteRecord, D!LoopEnds,
         D!Release, D!MarkError, D!Notice
  <2>5. since # Nowhere /\ agent.pc = "up" =>
           \/ ~link'[agent.c].open
           \/ del'.pc = "close" /\ del'.at = since /\ direct'[since] = agent.c
    BY <1>0, <2>1, <2>2, <2>3, <2>4 DEF Remembered, LinksKept, DirectTypes
  <2> QED  BY <1>7, <2>1, <2>5
<1>9. ASSUME NEW n \in Nodes, D!RefreshOwner(n)
      PROVE  Goal
  BY <1>7, <1>9 DEF D!RefreshOwner, Remembered
<1>10. CASE D!DeleteBegins
  <2>1. PICK n \in Nodes : /\ del' = [pc |-> "close", at |-> n, c |-> 0]
                           /\ tomb' = [tomb EXCEPT ![n] = Window]
                           /\ since' = IF agent.pc = "up" => direct[n] = agent.c THEN n ELSE Nowhere
    BY <1>10 DEF D!DeleteBegins
  <2>2. /\ UNCHANGED <<direct, link, agent, again>>
        /\ mess' = mess + 1 /\ mess' <= MaxMess /\ mess' >= 1 /\ mess' \in Nat
    BY <1>0, <1>10 DEF D!DeleteBegins, DirectTypes
  <2> QED  BY <1>0, <1>a, <1>c, <2>1, <2>2 DEF Remembered, DirectTypes
<1>11. CASE D!DeleteCloses
  <2>1. /\ direct[del.at] \in Links \cup {0} /\ UNCHANGED <<tomb, agent, mess, since, again>>
        /\ link' = [c \in Links |-> IF direct[del.at] = c
                                    THEN [link[c] EXCEPT !.open = FALSE] ELSE link[c]]
    BY <1>0, <1>11 DEF D!DeleteCloses, DirectTypes
  <2>2. /\ \A c \in Links : c = direct[del.at] => ~link'[c].open
        /\ \A c \in Links : c # direct[del.at] => link'[c] = link[c]
    BY <1>0, <2>1, LinkCloses
  <2>3. since # Nowhere /\ agent.pc = "up" => ~link'[agent.c].open
    BY <1>0, <2>2 DEF Remembered, DirectTypes
  <2> QED  BY <1>7, <2>1, <2>3
<1>12. CASE D!DeleteRecord \/ D!DeleteEnds
  <2>1. UNCHANGED <<tomb, link, agent, mess, since, again>> /\ del.pc # "close"
    BY <1>12 DEF D!DeleteRecord, D!DeleteEnds
  <2> QED  BY <1>7, <2>1 DEF Remembered
<1> QED
  BY <1>1, <1>2, <1>3, <1>4, <1>5, <1>6, <1>8, <1>9, <1>10, <1>11, <1>12 DEF D!Next, D!Dials

\* Every step of the part.
LEMMA DirectStep ==
    ASSUME DirectInv, D!Next
    PROVE  DirectInv'
<1>1. DirectTypes' /\ OneConnecting'
  BY DirectTypesStep, ConnectingStep
<1>2. crossed => crossed'
  BY DEF D!Next, D!Dials, D!Handler, D!TurnedAway, D!Accepted, D!DialFails, D!Disconnected,
     D!Drops, D!Restart, D!Tick, D!StoreTunnel, D!Claim, D!LookUp, D!WriteRecord, D!Notice,
     D!LoopEnds, D!RemoveTunnel, D!Release, D!MarkError, D!RefreshOwner, D!DeleteBegins,
     D!DeleteCloses, D!DeleteRecord, D!DeleteEnds
<1>3. ~crossed' => ~again' /\ Remembered'
  BY <1>2, RememberedStep DEF DirectInv
<1> QED  BY <1>1, <1>3 DEF DirectInv

-----------------------------------------------------------------------------
(* The egress sidecars *)

Opened == {"connect", "start", "ready", "join"}

\* The types of docker's objects and of the worker's notes.
SidecarTypes ==
    /\ inside \in BOOLEAN
    /\ net \in [Pods -> BOOLEAN] /\ joined \in [Pods -> BOOLEAN]
    /\ side \in [Pods -> {"none", "made", "up"}] /\ box \in [Pods -> {"none", "made", "up"}]
    /\ noted \in [Pods -> BOOLEAN]
    /\ op \in [Pods -> {"idle", "new", "sidecar", "create", "run", "delete"} \cup Opened]
    /\ sweep \in {"list", "look", "done"} \cup Pods
    /\ todo \subseteq Pods
    /\ sweep = "done" => todo = {}

\* Where a create has got to, and what docker has of it: a name never used has
\* nothing, the network comes first and the container last.
Building(p) ==
    /\ p \notin used => op[p] = "idle" /\ box[p] = "none" /\ side[p] = "none"
    /\ p \notin used \/ op[p] = "new" => ~net[p]
    /\ p \notin used \/ op[p] \in {"new", "sidecar"} => side[p] = "none" /\ p \notin todo /\ sweep # p
    /\ p \notin used \/ op[p] \in {"new", "sidecar"} \cup Opened => box[p] = "none" /\ ~joined[p]
    /\ box[p] # "none" => net[p]
    /\ box[p] = "up" \/ op[p] \in {"join", "create", "run"} => side[p] = "up" \/ p \in bare

\* What is left of a sandbox that is gone, and who will take it away.
LeftOver(p) ==
    /\ op[p] = "idle" /\ box[p] = "none" =>
         /\ side[p] = "none" \/ sweep = "list" \/ p \in todo \/ sweep = p
         /\ net[p] => p \in cut
    /\ sweep = p => p \in bare \/ (op[p] = "idle" /\ box[p] = "none")

SidecarInv == SidecarTypes /\ \A p \in Pods : Building(p) /\ LeftOver(p)

\* The invariant gives the property.
LEMMA SidecarHolds == SidecarInv => EgressObjects
BY ServiceAssumption DEF SidecarInv, SidecarTypes, Building, LeftOver, EgressObjects, S!EgressObjects

\* The first states.
LEMMA SidecarInit == Init => SidecarInv
BY ServiceAssumption DEF Init, S!Init, SidecarInv, SidecarTypes, Building, LeftOver, Opened

\* A step at one pod: the others keep what they have, and the histories grow.
Alone(p) ==
    /\ SidecarTypes' /\ UNCHANGED <<sweep, todo, used, cut>> /\ bare \subseteq bare'
    /\ \A q \in Pods : q # p => /\ net'[q] = net[q] /\ joined'[q] = joined[q]
                               /\ side'[q] = side[q] /\ box'[q] = box[q] /\ op'[q] = op[q]

\* Then only that pod is to be looked at.
LEMMA OnePod ==
    ASSUME SidecarInv, NEW p \in Pods, Alone(p), Building(p)', LeftOver(p)'
    PROVE  SidecarInv'
BY DEF SidecarInv, Building, LeftOver, Alone, Opened

\* Undoing a create that failed before its container leaves nothing.
LEMMA UndoStep ==
    ASSUME SidecarInv, NEW p \in Pods, op[p] \in {"sidecar"} \cup Opened, S!Undo(p),
           UNCHANGED <<joined, box, noted, sweep, todo, S!Hist>>
    PROVE  SidecarInv'
<1> USE DEF SidecarInv, SidecarTypes, Opened
<1>1. net[p] \in BOOLEAN /\ ~joined[p] /\ box[p] = "none"
  BY DEF Building
<1>2. side' = [side EXCEPT ![p] = "none"] /\ net' = [net EXCEPT ![p] = FALSE]
      /\ op' = [op EXCEPT ![p] = "idle"] /\ UNCHANGED <<inside, used, cut, bare>>
  BY <1>1 DEF S!Undo, S!Set, S!To, S!NetworkRemove, S!Hist
<1>3. Alone(p)
  BY <1>2 DEF Alone
<1>4. Building(p)' /\ LeftOver(p)'
  BY <1>1, <1>2 DEF Building, LeftOver
<1> QED  BY <1>3, <1>4, OnePod

\* So does the teardown of a sandbox whose container is gone.
LEMMA TeardownStep ==
    ASSUME SidecarInv, NEW p \in Pods, op[p] \in {"create", "run", "delete"},
           S!TeardownEgress(p, "none"), box' = [box EXCEPT ![p] = "none"],
           UNCHANGED <<sweep, todo, S!Hist>>
    PROVE  SidecarInv'
<1> USE DEF SidecarInv, SidecarTypes, Opened
<1>2. side' = [side EXCEPT ![p] = "none"] /\ net' = [net EXCEPT ![p] = FALSE]
      /\ joined' = [joined EXCEPT ![p] = FALSE] /\ noted' = [noted EXCEPT ![p] = FALSE]
      /\ op' = [op EXCEPT ![p] = "idle"] /\ UNCHANGED <<inside, used, cut, bare>>
  BY DEF S!TeardownEgress, S!EgressCleanupTargets, S!Set, S!To, S!NetworkRemove, S!Hist
<1>3. Alone(p)
  BY <1>2 DEF Alone
<1>4. Building(p)' /\ LeftOver(p)'
  BY <1>2 DEF Building, LeftOver
<1> QED  BY <1>3, <1>4, OnePod

\* Every step of the part.
LEMMA SidecarStep ==
    ASSUME SidecarInv, S!Next
    PROVE  SidecarInv'
<1> USE ServiceAssumption DEF SidecarInv, SidecarTypes, Opened
<1>1. ASSUME NEW p \in Pods, S!NetworkCreate(p)
      PROVE  SidecarInv'
  <2>1. /\ op[p] = "new" /\ UNCHANGED <<inside, joined, side, box, noted, sweep, todo, used, cut, bare>>
        /\ \/ net' = [net EXCEPT ![p] = TRUE] /\ op' = [op EXCEPT ![p] = "sidecar"]
           \/ UNCHANGED net /\ op' = [op EXCEPT ![p] = "idle"]
    BY <1>1 DEF S!NetworkCreate, S!Set, S!To, S!Hist
  <2>2. Alone(p)
    BY <2>1, ZenonT(40) DEF Alone
  <2>3. Building(p)' /\ LeftOver(p)'
    BY <2>1 DEF Building, LeftOver
  <2> QED  BY <2>2, <2>3, OnePod
<1>2. ASSUME NEW p \in Pods, S!SidecarCreate(p)
      PROVE  SidecarInv'
  <2>0. net[p] \in BOOLEAN /\ ~joined[p] /\ box[p] = "none" /\ side[p] = "none"
    BY <1>2 DEF S!SidecarCreate, Building
  <2>1. /\ op[p] = "sidecar" /\ UNCHANGED <<inside, joined, box, noted, sweep, todo, used, cut, bare>>
        /\ \/ side' = [side EXCEPT ![p] = "made"] /\ op' = [op EXCEPT ![p] = "connect"] /\ UNCHANGED net
           \/ net' = [net EXCEPT ![p] = FALSE] /\ op' = [op EXCEPT ![p] = "idle"] /\ UNCHANGED side
    BY <1>2, <2>0 DEF S!SidecarCreate, S!Set, S!To, S!Hist, S!NetworkRemove
  <2>2. Alone(p)
    BY <2>1, ZenonT(40) DEF Alone
  <2>3. Building(p)' /\ LeftOver(p)'
    BY <2>0, <2>1 DEF Building, LeftOver
  <2> QED  BY <2>2, <2>3, OnePod
<1>3. ASSUME NEW p \in Pods, S!SidecarStart(p)
      PROVE  SidecarInv'
  <2>1. CASE S!Undo(p)
    BY <1>3, <2>1, UndoStep DEF S!SidecarStart
  <2>2. CASE ~S!Undo(p)
    <3>1. /\ \/ op[p] = "connect" /\ op' = [op EXCEPT ![p] = "start"] /\ side' = [side EXCEPT ![p] = "made"]
             \/ op[p] = "start" /\ op' = [op EXCEPT ![p] = "ready"] /\ side' = [side EXCEPT ![p] = "up"]
          /\ UNCHANGED <<net, joined, box, noted>>
          /\ UNCHANGED <<inside, used, sweep, todo, cut, bare>>
      BY <1>3, <2>2 DEF S!SidecarStart, S!Set, S!To, S!Hist
    <3>2. Alone(p)
      BY <3>1 DEF Alone
    <3>3. Building(p)' /\ LeftOver(p)'
      BY <3>1 DEF Building, LeftOver
    <3> QED  BY <3>2, <3>3, OnePod
  <2> QED  BY <2>1, <2>2
<1>4. ASSUME NEW p \in Pods, S!WaitForEgressReady(p)
      PROVE  SidecarInv'
  <2>1. CASE S!Undo(p)
    BY <1>4, <2>1, UndoStep DEF S!WaitForEgressReady
  <2>2. CASE ~S!Undo(p)
    <3>1. /\ op[p] = "ready" /\ side[p] = "up" /\ op' = [op EXCEPT ![p] = "join"]
          /\ UNCHANGED <<net, joined, side, box, noted>>
          /\ UNCHANGED <<inside, used, sweep, todo, cut, bare>>
      BY <1>4, <2>2 DEF S!WaitForEgressReady, S!Set, S!To, S!Hist
    <3>2. Alone(p)
      BY <3>1 DEF Alone
    <3>3. Building(p)' /\ LeftOver(p)'
      BY <3>1 DEF Building, LeftOver
    <3> QED  BY <3>2, <3>3, OnePod
  <2> QED  BY <2>1, <2>2
<1>5. ASSUME NEW p \in Pods, S!AttachSelfToNetwork(p)
      PROVE  SidecarInv'
  <2>1. CASE S!Undo(p)
    <3>1. op'[p] = "idle"
      BY <2>1 DEF S!Undo, S!To
    <3>2. op[p] = "join" /\ UNCHANGED <<joined, box, noted, sweep, todo, S!Hist>>
      BY <1>5, <3>1 DEF S!AttachSelfToNetwork, S!To
    <3> QED  BY <2>1, <3>2, UndoStep
  <2>2. CASE ~S!Undo(p)
    <3>1. /\ op[p] = "join" /\ op' = [op EXCEPT ![p] = "create"]
          /\ joined' = [joined EXCEPT ![p] = inside] /\ noted' = [noted EXCEPT ![p] = TRUE]
          /\ UNCHANGED <<net, side, box>>
          /\ UNCHANGED <<inside, used, sweep, todo, cut, bare>>
      BY <1>5, <2>2 DEF S!AttachSelfToNetwork, S!Set, S!To, S!Hist
    <3>2. Alone(p)
      BY <3>1 DEF Alone
    <3>3. Building(p)' /\ LeftOver(p)'
      BY <3>1 DEF Building, LeftOver
    <3> QED  BY <3>2, <3>3, OnePod
  <2> QED  BY <2>1, <2>2
<1>6. ASSUME NEW p \in Pods, S!CreatePod(p)
      PROVE  SidecarInv'
  <2>1. CASE S!TeardownEgress(p, "none") /\ box' = [box EXCEPT ![p] = "none"]
    BY <1>6, <2>1, TeardownStep DEF S!CreatePod
  <2>2. CASE ~(S!TeardownEgress(p, "none") /\ box' = [box EXCEPT ![p] = "none"])
    <3>1. /\ net[p] /\ UNCHANGED <<inside, net, joined, side, noted, used, sweep, todo, cut, bare>>
          /\ \/ /\ op[p] = "create" /\ op' = [op EXCEPT ![p] = "run"]
                /\ box' = [box EXCEPT ![p] = "made"]
             \/ /\ op[p] = "run" /\ op' = [op EXCEPT ![p] = "idle"]
                /\ box' = [box EXCEPT ![p] = "up"]
      BY <1>6, <2>2 DEF S!CreatePod, S!Set, S!To, S!Hist
    <3>2. Alone(p)
      BY <3>1 DEF Alone
    <3>3. Building(p)' /\ LeftOver(p)'
      BY <3>1 DEF Building, LeftOver
    <3> QED  BY <3>2, <3>3, OnePod
  <2> QED  BY <2>1, <2>2
<1>7. ASSUME NEW p \in Pods, S!DeletePod(p)
      PROVE  SidecarInv'
  <2>1. CASE box[p] = "none" \/ box'[p] = "none"
    <3>1. S!TeardownEgress(p, "none") /\ box' = [box EXCEPT ![p] = "none"]
      BY <1>7, <2>1 DEF S!DeletePod, S!Set
    <3>2. op[p] = "delete" /\ bare' = bare /\ UNCHANGED <<inside, used, sweep, todo, cut>>
      BY <1>7, <3>1 DEF S!DeletePod
    <3> QED  BY <3>1, <3>2, TeardownStep DEF S!Hist
  <2>2. CASE box[p] # "none" /\ box'[p] # "none"
    <3>1. /\ op[p] = "delete" /\ op' = [op EXCEPT ![p] = "idle"] /\ UNCHANGED box
          /\ side' = [side EXCEPT ![p] = "none"] /\ joined' = [joined EXCEPT ![p] = FALSE]
          /\ net' = [net EXCEPT ![p] = net[p]] /\ noted' = [noted EXCEPT ![p] = FALSE]
          /\ bare' = bare \cup {p} /\ UNCHANGED <<inside, used, sweep, todo, cut>>
      BY <1>7, <2>2 DEF S!DeletePod, S!Set, S!To, S!TeardownEgress, S!EgressCleanupTargets,
         S!NetworkRemove
    <3>2. Alone(p)
      BY <3>1 DEF Alone
    <3>3. Building(p)' /\ LeftOver(p)'
      BY <2>2, <3>1 DEF Building, LeftOver
    <3> QED  BY <3>2, <3>3, OnePod
  <2> QED  BY <2>1, <2>2
<1>8. ASSUME NEW p \in Pods, S!DeleteBegins(p)
      PROVE  SidecarInv'
  BY <1>8 DEF S!DeleteBegins, S!Set, S!Hist, Building, LeftOver
<1>9. ASSUME NEW p \in Pods, S!Request(p)
      PROVE  SidecarInv'
  BY <1>9 DEF S!Request, S!To, S!Docker, Building, LeftOver
<1>10. CASE S!Dies
  BY <1>10 DEF S!Dies, S!Error, S!Docker, Building, LeftOver
<1>11. CASE S!SweepList
  BY <1>11 DEF S!SweepList, S!Docker, S!Hist, Building, LeftOver
<1>12. ASSUME NEW p \in Pods, S!SweepInspect(p)
      PROVE  SidecarInv'
  BY <1>12 DEF S!SweepInspect, Building, LeftOver
<1>13. ASSUME NEW p \in Pods, S!SweepOrphanedEgress(p)
      PROVE  SidecarInv'
  <2>1. /\ sweep = p /\ sweep' = "look" /\ side' = [side EXCEPT ![p] = "none"]
        /\ UNCHANGED <<inside, joined, box, noted, op, todo, used, cut, bare>>
    BY <1>13 DEF S!SweepOrphanedEgress, S!Set, S!Hist
  <2>2. /\ net' \in [Pods -> BOOLEAN] /\ \A q \in Pods : q # p => net'[q] = net[q]
        /\ net'[p] => net[p]
        /\ box[p] # "none" => net'[p] = net[p]
    BY <1>13 DEF S!SweepOrphanedEgress, S!Set, S!NetworkRemove
  <2>3. SidecarTypes'
    BY <2>1, <2>2
  <2>4. \A q \in Pods : q # p => Building(q)' /\ LeftOver(q)'
    BY <2>1, <2>2 DEF Building, LeftOver
  <2>5. Building(p)' /\ LeftOver(p)'
    BY <2>1, <2>2 DEF Building, LeftOver
  <2> QED  BY <2>3, <2>4, <2>5
<1>14. CASE S!SweepEnds
  BY <1>14 DEF S!SweepEnds, S!Docker, S!Hist, Building, LeftOver
<1> QED
  BY <1>1, <1>2, <1>3, <1>4, <1>5, <1>6, <1>7, <1>8, <1>9, <1>10, <1>11, <1>12, <1>13, <1>14
     DEF S!Next, S!Worker, S!Sweep

-----------------------------------------------------------------------------
(* The machines of a cloud provider *)

\* What a provider may have made in the cloud, the cloud's side of it, the
\* key and the history.
CloudResources == {"vm", "nic", "pip"}
CloudStates == {"none", "booting", "running", "gone"}
CloudSet == [res : SUBSET CloudResources, vm : CloudStates,
             ip : BOOLEAN, agent : BOOLEAN, own : BOOLEAN]
CloudKey == [mem : BOOLEAN, disk : BOOLEAN]
CloudHist == [restarted : BOOLEAN, unsaved : BOOLEAN, refused : SUBSET CloudResources]

\* The call under way is at a step of its plan, and the cloud holds only what
\* the provider's plan makes.
CloudTypes ==
    /\ prov \in C!Names
    /\ cloud \in CloudSet
    /\ key \in CloudKey
    /\ cop \in [kind : {"idle", "create", "poll", "send", "wait", "delete"}, step : 0..3]
    /\ cop.kind \in {"create", "delete"} => cop.step > 0
    /\ known \in BOOLEAN
    /\ remote \in {"none", "queued", "succeeded", "failed", "exited", "cut"}
    /\ hist \in CloudHist
    /\ prov # "azure" => cop.step <= 1 /\ cloud.res \subseteq {"vm"}

\* No result is there before the command it is the result of has ended.
CloudCommand ==
    /\ remote = "queued" \/ cop.kind = "send" => out # "exit0"
    /\ NoFalseSuccess

\* From the creation of the VM to its deletion its key is kept; on disk,
\* where it is stored there and could be written.
CloudKeys ==
    known \/ cop.kind = "poll" =>
        /\ C!Keyed => key.mem \/ key.disk \/ (hist.restarted /\ (~C!Stored \/ hist.unsaved))
        /\ C!Stored => key.disk \/ hist.unsaved

\* The resources go in an order in which none is refused for one that is
\* already to be gone; what the cloud refused for a reason of its own is
\* remembered.
CloudLeft ==
    /\ cop.kind = "delete" =>
          /\ cop.step > 1 => "vm" \notin cloud.res
          /\ cop.step > 2 => "nic" \notin cloud.res \/ "nic" \in hist.refused
    /\ cop.kind # "idle" => out # "deleted"
    /\ C!NothingLeft

CloudInv == CloudTypes /\ CloudCommand /\ CloudKeys /\ CloudLeft

\* The plan of every provider makes the VM last, and it alone but for Azure.
LEMMA PlanFacts ==
    ASSUME prov \in C!Names
    PROVE  LET plan == C!Create[prov].plan IN
           \/ /\ prov = "azure" /\ DOMAIN plan = 1..3 /\ Len(plan) = 3
              /\ plan[1] = "pip" /\ plan[2] = "nic" /\ plan[3] = "vm"
           \/ /\ prov # "azure" /\ DOMAIN plan = 1..1 /\ Len(plan) = 1 /\ plan[1] = "vm"
<1>1. CASE prov = "azure"
  <2>1. C!Create[prov] = C!AzureCreate
    BY <1>1 DEF C!Create
  <2> QED  BY <1>1, <2>1 DEF C!AzureCreate
<1>2. CASE prov = "aws"
  <2>1. C!Create[prov] = C!AwsCreate
    BY <1>2 DEF C!Create
  <2> QED  BY <1>2, <2>1 DEF C!AwsCreate
<1>3. CASE prov = "gcp"
  <2>1. C!Create[prov] = C!GcpCreate
    BY <1>3 DEF C!Create
  <2> QED  BY <1>3, <2>1 DEF C!GcpCreate
<1>4. CASE prov = "hetzner"
  <2>1. C!Create[prov] = C!HetznerCreate
    BY <1>4 DEF C!Create
  <2> QED  BY <1>4, <2>1 DEF C!HetznerCreate
<1>5. CASE prov = "digitalocean"
  <2>1. C!Create[prov] = C!DigitalOceanCreate
    BY <1>5 DEF C!Create
  <2> QED  BY <1>5, <2>1 DEF C!DigitalOceanCreate
<1>6. CASE prov = "oracle"
  <2>1. C!Create[prov] = C!OracleCreate
    BY <1>6 DEF C!Create
  <2>2. C!Create[prov].plan = <<"vm">>
    BY <2>1 DEF C!OracleCreate
  <2> QED  BY <1>6, <2>2
<1>7. CASE prov = "tencent"
  <2>1. C!Create[prov] = C!TencentCreate
    BY <1>7 DEF C!Create
  <2> QED  BY <1>7, <2>1 DEF C!TencentCreate
<1>8. CASE prov = "aliyun"
  <2>1. C!Create[prov] = C!AliyunCreate
    BY <1>8 DEF C!Create
  <2> QED  BY <1>8, <2>1 DEF C!AliyunCreate
<1> QED  BY <1>1, <1>2, <1>3, <1>4, <1>5, <1>6, <1>7, <1>8 DEF C!Names

\* A function on 1..n is a sequence of length n.
LEMMA Sequence ==
    ASSUME NEW V, NEW n \in Nat, NEW f \in [1..n -> V]
    PROVE  Len(f) = n
OBVIOUS

\* DeleteVM goes the plan backwards.
LEMMA TeardownFacts ==
    ASSUME prov \in C!Names
    PROVE  \/ /\ prov = "azure" /\ Len(C!Teardown) = 3
              /\ C!Teardown[1] = "vm" /\ C!Teardown[2] = "nic" /\ C!Teardown[3] = "pip"
           \/ /\ prov # "azure" /\ Len(C!Teardown) = 1 /\ C!Teardown[1] = "vm"
<1> DEFINE plan == C!Create[prov].plan
           f == [i \in DOMAIN plan |-> plan[Len(plan) + 1 - i]]
<1>1. C!Teardown = f
  BY DEF C!Teardown
<1>2. \/ /\ prov = "azure" /\ DOMAIN plan = 1..3 /\ Len(plan) = 3
         /\ plan[1] = "pip" /\ plan[2] = "nic" /\ plan[3] = "vm"
      \/ /\ prov # "azure" /\ DOMAIN plan = 1..1 /\ Len(plan) = 1 /\ plan[1] = "vm"
  BY PlanFacts
<1> HIDE DEF plan
<1>3. CASE prov = "azure"
  <2> DOMAIN plan = 1..3 /\ Len(plan) = 3
    BY <1>2, <1>3
  <2> f = [i \in 1..3 |-> plan[4 - i]]
    OBVIOUS
  <2>1. /\ DOMAIN f = 1..3 /\ f[1] = "vm" /\ f[2] = "nic" /\ f[3] = "pip"
    BY <1>2, <1>3
  <2>2. f \in [1..3 -> CloudResources]
    BY <2>1 DEF CloudResources
  <2>3. Len(f) = 3
    BY <2>2, Sequence
  <2> QED  BY <1>1, <1>3, <2>1, <2>3
<1>4. CASE prov # "azure"
  <2>1. DOMAIN f = 1..1 /\ f[1] = "vm"
    BY <1>2, <1>4
  <2>2. f \in [1..1 -> CloudResources]
    BY <2>1 DEF CloudResources
  <2>3. Len(f) = 1
    BY <2>2, Sequence
  <2> QED  BY <1>1, <1>4, <2>1, <2>3
<1> QED  BY <1>3, <1>4

\* Only Azure reads the exit code off the output; a key on disk is a key.
LEMMA ExitFacts ==
    ASSUME prov \in C!Names
    PROVE  /\ C!Exec[prov].exit = "sentinel" => prov = "azure"
           /\ C!Stored => C!Keyed
<1>1. CASE prov = "azure"
  BY <1>1 DEF C!Exec, C!AzureExec, C!Stored, C!Keyed
<1>2. CASE prov = "aws"
  BY <1>2 DEF C!Exec, C!AwsExec, C!Stored, C!Keyed
<1>3. CASE prov = "gcp"
  BY <1>3 DEF C!Exec, C!GcpExec, C!Stored, C!Keyed
<1>4. CASE prov = "hetzner"
  BY <1>4 DEF C!Exec, C!HetznerExec, C!Stored, C!Keyed
<1>5. CASE prov = "digitalocean"
  BY <1>5 DEF C!Exec, C!DigitalOceanExec, C!Stored, C!Keyed
<1>6. CASE prov = "oracle"
  BY <1>6 DEF C!Exec, C!OracleExec, C!Stored, C!Keyed
<1>7. CASE prov = "tencent"
  BY <1>7 DEF C!Exec, C!TencentExec, C!Stored, C!Keyed
<1>8. CASE prov = "aliyun"
  BY <1>8 DEF C!Exec, C!AliyunExec, C!Stored, C!Keyed
<1> QED  BY <1>1, <1>2, <1>3, <1>4, <1>5, <1>6, <1>7, <1>8 DEF C!Names

\* Of the outcomes of a command only a success reads as exit 0, but for Azure.
LEMMA ResultFacts ==
    ASSUME prov \in C!Names, NEW r
    PROVE  /\ C!Result(r) \in {"exit0", "exit1", "error"}
           /\ C!Result(r) = "exit0" => r = "succeeded" \/ (prov = "azure" /\ r # "failed")
<1>1. CASE r = "succeeded"
  BY <1>1 DEF C!Result
<1>2. CASE r = "failed"
  BY <1>2, ExitFacts DEF C!Result
<1>3. CASE r \notin {"succeeded", "failed"} /\ C!Exec[prov].exit = "sentinel"
  BY <1>3, ExitFacts DEF C!Result
<1>4. CASE r \notin {"succeeded", "failed"} /\ C!Exec[prov].exit # "sentinel"
  BY <1>4 DEF C!Result
<1> QED  BY <1>1, <1>2, <1>3, <1>4

\* The first states.
LEMMA CloudInit == Init => CloudInv
<1> SUFFICES ASSUME C!Init  PROVE CloudInv
  BY DEF Init
<1> USE DEF C!Init, C!Idle
<1>1. prov \in C!Names
  BY ServiceAssumption
<1>2. CloudTypes
  <2>1. /\ cloud \in CloudSet
        /\ cloud.res = {}
    BY DEF CloudSet, CloudStates, CloudResources
  <2>2. /\ key \in CloudKey
        /\ cop \in [kind : {"idle", "create", "poll", "send", "wait", "delete"}, step : 0..3]
        /\ hist \in CloudHist
    BY DEF CloudKey, CloudHist, CloudResources
  <2>3. cop.kind = "idle" /\ cop.step = 0
    OBVIOUS
  <2>4. known \in BOOLEAN /\ remote = "none"
    OBVIOUS
  <2> HIDE DEF C!Init, C!Idle
  <2> QED  BY <1>1, <2>1, <2>2, <2>3, <2>4 DEF CloudTypes
<1>3. CloudCommand /\ CloudKeys
  BY DEF CloudCommand, CloudKeys, NoFalseSuccess, C!NoFalseSuccess
<1>4. CloudLeft
  BY DEF CloudLeft, C!NothingLeft
<1> QED  BY <1>2, <1>3, <1>4 DEF CloudInv

\* The invariant gives the two properties.
LEMMA CloudHolds == CloudInv => NoFalseSuccess /\ MachinesAccounted
BY DEF CloudInv, CloudCommand, CloudKeys, CloudLeft, MachinesAccounted, C!StillReachable

\* What the steps write into the cloud's side stays what it is.
LEMMA CloudMoves ==
    ASSUME NEW c \in CloudSet
    PROVE  /\ \A b \in BOOLEAN : [c EXCEPT !.ip = b] \in CloudSet /\ [c EXCEPT !.ip = b].res = c.res
           /\ \A b \in BOOLEAN : /\ [c EXCEPT !.agent = b] \in CloudSet
                                 /\ [c EXCEPT !.agent = b].res = c.res
           /\ \A v \in CloudStates : [c EXCEPT !.vm = v] \in CloudSet /\ [c EXCEPT !.vm = v].res = c.res
<1>1. ASSUME NEW b \in BOOLEAN
      PROVE  /\ [c EXCEPT !.ip = b] \in CloudSet /\ [c EXCEPT !.ip = b].res = c.res
             /\ [c EXCEPT !.agent = b] \in CloudSet /\ [c EXCEPT !.agent = b].res = c.res
  BY DEF CloudSet
<1>2. ASSUME NEW v \in CloudStates
      PROVE  [c EXCEPT !.vm = v] \in CloudSet /\ [c EXCEPT !.vm = v].res = c.res
  BY DEF CloudSet
<1> QED  BY <1>1, <1>2

\* A new VM in the zone the call names, a resource made, a resource deleted.
Placed(c, v, b)     == [c EXCEPT !.vm = v, !.own = b]
Made(c, r, v)       == [c EXCEPT !.res = r, !.vm = v]
Deleted(c, r, v, b) == [c EXCEPT !.res = r, !.vm = v, !.agent = b]

\* They keep the type of the cloud's side.
LEMMA CloudChanges ==
    ASSUME NEW c \in CloudSet, NEW v \in CloudStates
    PROVE  /\ \A b \in BOOLEAN : Placed(c, v, b) \in CloudSet /\ Placed(c, v, b).res = c.res
           /\ \A r \in SUBSET CloudResources : Made(c, r, v) \in CloudSet /\ Made(c, r, v).res = r
           /\ \A r \in SUBSET CloudResources, b \in BOOLEAN :
                 Deleted(c, r, v, b) \in CloudSet /\ Deleted(c, r, v, b).res = r
<1>1. ASSUME NEW b \in BOOLEAN
      PROVE  Placed(c, v, b) \in CloudSet /\ Placed(c, v, b).res = c.res
  BY DEF CloudSet, Placed
<1>2. ASSUME NEW r \in SUBSET CloudResources
      PROVE  Made(c, r, v) \in CloudSet /\ Made(c, r, v).res = r
  BY DEF CloudSet, Made
<1>3. ASSUME NEW r \in SUBSET CloudResources, NEW b \in BOOLEAN
      PROVE  Deleted(c, r, v, b) \in CloudSet /\ Deleted(c, r, v, b).res = r
  BY DEF CloudSet, Deleted
<1> QED  BY <1>1, <1>2, <1>3

\* And so do the key and the history.
LEMMA HistMoves ==
    /\ \A k \in CloudKey, b \in BOOLEAN : [k EXCEPT !.mem = b] \in CloudKey
    /\ \A a, b \in BOOLEAN : [mem |-> a, disk |-> b] \in CloudKey
    /\ \A h \in CloudHist : /\ [h EXCEPT !.restarted = TRUE] \in CloudHist
                            /\ [h EXCEPT !.unsaved = TRUE] \in CloudHist
    /\ \A h \in CloudHist, r \in SUBSET CloudResources : [h EXCEPT !.refused = r] \in CloudHist
<1>1. ASSUME NEW k \in CloudKey, NEW b \in BOOLEAN  PROVE [k EXCEPT !.mem = b] \in CloudKey
  BY DEF CloudKey
<1>2. ASSUME NEW a \in BOOLEAN, NEW b \in BOOLEAN  PROVE [mem |-> a, disk |-> b] \in CloudKey
  BY DEF CloudKey
<1>3. ASSUME NEW h \in CloudHist  PROVE [h EXCEPT !.restarted = TRUE] \in CloudHist
  BY DEF CloudHist
<1>4. ASSUME NEW h \in CloudHist  PROVE [h EXCEPT !.unsaved = TRUE] \in CloudHist
  BY DEF CloudHist
<1>5. ASSUME NEW h \in CloudHist, NEW r \in SUBSET CloudResources
      PROVE  [h EXCEPT !.refused = r] \in CloudHist
  BY DEF CloudHist
<1> QED  BY <1>1, <1>2, <1>3, <1>4, <1>5


\* Every step keeps the types, and the plan of the provider.
LEMMA CloudTypesStep ==
    ASSUME CloudInv, C!Next
    PROVE  CloudTypes'
<1>1. CASE C!CreateBegins
  <2>1. PICK own \in BOOLEAN : cloud' = Placed(cloud, "none", own)
    BY <1>1 DEF C!CreateBegins, Placed
  <2>2. cloud' \in CloudSet /\ cloud'.res = cloud.res
    <3> cloud \in CloudSet /\ "none" \in CloudStates
      BY DEF CloudInv, CloudTypes, CloudStates
    <3> QED  BY <2>1, CloudChanges
  <2> QED  BY <1>1, <2>2 DEF C!CreateBegins, CloudInv, CloudTypes, C!Idle, C!Call
<1>2. CASE C!CreateRefused
  BY <1>2 DEF C!CreateRefused, CloudInv, CloudTypes, C!Idle, C!Call, C!Returns
<1>3. CASE C!CreateStep
  <2> DEFINE plan == C!Create[prov].plan
             r == cloud.res \cup {plan[cop.step]}
             v == IF cop.step = Len(plan) THEN "booting" ELSE cloud.vm
  <2>0. cop.step \in 1..3 /\ (prov # "azure" => cop.step = 1) /\ prov \in C!Names
    BY <1>3 DEF C!CreateStep, CloudInv, CloudTypes
  <2>1. /\ plan[cop.step] \in CloudResources
        /\ prov # "azure" => plan[cop.step] = "vm" /\ Len(plan) = 1
        /\ prov = "azure" => Len(plan) = 3
    BY <2>0, PlanFacts DEF CloudResources
  <2>2. cloud' = Made(cloud, r, v)
    BY <1>3 DEF Made, C!CreateStep, CloudInv, CloudTypes, CloudSet
  <2>3. r \in SUBSET CloudResources /\ v \in CloudStates /\ (prov # "azure" => r \subseteq {"vm"})
    BY <2>1 DEF CloudInv, CloudTypes, CloudSet, CloudStates
  <2> HIDE DEF r, v
  <2>4. cloud' \in CloudSet /\ cloud'.res = r
    <3> cloud \in CloudSet
      BY DEF CloudInv, CloudTypes
    <3> QED  BY <2>2, <2>3, CloudChanges
  <2>5. key' \in CloudKey /\ hist' \in CloudHist
    <3>1. C!Stored \in BOOLEAN
      BY DEF C!Stored
    <3>2. \/ key' = key
          \/ key' = [mem |-> TRUE, disk |-> C!Stored]
          \/ key' = [mem |-> TRUE, disk |-> FALSE]
      BY <1>3 DEF C!CreateStep
    <3>3. hist' = hist \/ hist' = [hist EXCEPT !.unsaved = TRUE]
      BY <1>3 DEF C!CreateStep
    <3> QED  BY <3>1, <3>2, <3>3, HistMoves DEF CloudInv, CloudTypes
  <2>6. /\ cop' \in [kind : {"idle", "create", "poll", "send", "wait", "delete"}, step : 0..3]
        /\ cop'.step > 0 /\ (prov # "azure" => cop'.step <= 1)
    <3>1. CASE cop.step = Len(plan)
      BY <1>3, <3>1 DEF C!CreateStep
    <3>2. CASE cop.step # Len(plan)
      <4>1. cop' = [cop EXCEPT !.step = cop.step + 1]
        BY <1>3, <3>2 DEF C!CreateStep
      <4>2. cop.step + 1 \in 2..3 /\ prov = "azure"
        <5> HIDE DEF plan
        <5>1. prov = "azure"
          BY <2>0, <2>1, <3>2
        <5> QED  BY <2>0, <2>1, <3>2, <5>1
      <4> QED  BY <4>1, <4>2 DEF CloudInv, CloudTypes
    <3> QED  BY <3>1, <3>2
  <2> QED  BY <1>3, <2>3, <2>4, <2>5, <2>6 DEF C!CreateStep, CloudInv, CloudTypes
<1>4. CASE C!CreateFails
  <2> DEFINE r == C!Create[prov].plan[cop.step]
             s == cloud.res \cup {r}
             v == IF r = "vm" THEN "booting" ELSE cloud.vm
  <2>1. r \in CloudResources /\ (prov # "azure" => r = "vm")
    BY <1>4, PlanFacts DEF C!CreateFails, CloudInv, CloudTypes, CloudResources
  <2>2. cloud' = cloud \/ cloud' = Made(cloud, s, v)
    BY <1>4 DEF Made, C!CreateFails, CloudInv, CloudTypes, CloudSet
  <2>3. s \in SUBSET CloudResources /\ v \in CloudStates /\ (prov # "azure" => s \subseteq {"vm"})
    BY <2>1 DEF CloudInv, CloudTypes, CloudSet, CloudStates
  <2> HIDE DEF s, v
  <2>4. cloud' \in CloudSet /\ (cloud'.res = s \/ cloud'.res = cloud.res)
    <3> cloud \in CloudSet
      BY DEF CloudInv, CloudTypes
    <3> QED  BY <2>2, <2>3, CloudChanges
  <2> QED  BY <1>4, <2>3, <2>4 DEF C!CreateFails, CloudInv, CloudTypes, C!Returns, C!Idle
<1>5. CASE C!PollSees
  BY <1>5 DEF C!PollSees, CloudInv, CloudTypes, C!Idle, C!Call, C!Returns
<1>6. CASE C!PollEnds
  <2>1. known' \in BOOLEAN /\ cop' = C!Idle
    BY <1>6 DEF C!PollEnds, CloudInv, CloudTypes, C!Returns
  <2> QED  BY <1>6, <2>1 DEF C!PollEnds, CloudInv, CloudTypes, C!Idle
<1>7. CASE C!ExecBegins
  <2>1. key' \in CloudKey
    BY <1>7, HistMoves DEF C!ExecBegins, CloudInv, CloudTypes, C!Keyed
  <2> QED  BY <1>7, <2>1 DEF C!ExecBegins, CloudInv, CloudTypes, C!Idle, C!Call
<1>8. CASE C!ExecRefused
  <2>1. key' \in CloudKey
    BY <1>8, HistMoves DEF C!ExecRefused, CloudInv, CloudTypes, CloudKey
  <2> QED  BY <1>8, <2>1 DEF C!ExecRefused, CloudInv, CloudTypes
<1>9. CASE C!SendAccepted
  BY <1>9 DEF C!SendAccepted, CloudInv, CloudTypes, C!Idle, C!Call, C!Returns
<1>10. CASE C!SendFails
  BY <1>10 DEF C!SendFails, CloudInv, CloudTypes, C!Idle, C!Call, C!Returns
<1>11. CASE C!CommandEnds
  BY <1>11 DEF C!CommandEnds, CloudInv, CloudTypes, C!Idle, C!Call, C!Returns
<1>12. CASE C!ExecReturns
  BY <1>12 DEF C!ExecReturns, CloudInv, CloudTypes, C!Idle, C!Call, C!Returns
<1>13. CASE C!WaitEnds
  BY <1>13 DEF C!WaitEnds, CloudInv, CloudTypes, C!Idle, C!Call, C!Returns
<1>14. CASE C!DeleteBegins
  BY <1>14 DEF C!DeleteBegins, CloudInv, CloudTypes, C!Idle, C!Call, C!Returns
<1>15. CASE C!DeleteStep
  <2> DEFINE r == C!Teardown[cop.step]
             s == cloud.res \ {r}
             v == IF r = "vm" THEN "gone" ELSE cloud.vm
             b == IF r = "vm" THEN FALSE ELSE cloud.agent
  <2>0. cop.step \in 1..3 /\ (prov # "azure" => cop.step = 1) /\ prov \in C!Names
    BY <1>15 DEF C!DeleteStep, CloudInv, CloudTypes
  <2>1. /\ r \in CloudResources
        /\ prov = "azure" => Len(C!Teardown) = 3
        /\ prov # "azure" => Len(C!Teardown) = 1
    BY <2>0, TeardownFacts DEF CloudResources
  <2>2. \/ cloud' = cloud
        \/ cloud' = Deleted(cloud, s, v, b)
    BY <1>15 DEF Deleted, C!DeleteStep, CloudInv, CloudTypes, CloudSet
  <2>3. /\ s \in SUBSET CloudResources /\ v \in CloudStates /\ b \in BOOLEAN
        /\ s \subseteq cloud.res
    BY <2>1 DEF CloudInv, CloudTypes, CloudSet, CloudStates
  <2>4. hist' \in CloudHist
    <3>1. CASE hist' = [hist EXCEPT !.refused = @ \cup {r}]
      <4> DEFINE h == hist.refused \cup {r}
      <4>1. h \in SUBSET CloudResources /\ hist' = [hist EXCEPT !.refused = h]
        BY <3>1, <2>1 DEF CloudInv, CloudTypes, CloudHist
      <4> HIDE DEF h
      <4> QED  BY <4>1, HistMoves DEF CloudInv, CloudTypes
    <3> QED  BY <1>15, <3>1 DEF C!DeleteStep, CloudInv, CloudTypes
  <2> HIDE DEF s, v, b
  <2>5. cloud' \in CloudSet /\ (cloud'.res = s \/ cloud'.res = cloud.res)
    <3> cloud \in CloudSet
      BY DEF CloudInv, CloudTypes
    <3> QED  BY <2>2, <2>3, CloudChanges
  <2>6. /\ cop' \in [kind : {"idle", "create", "poll", "send", "wait", "delete"}, step : 0..3]
        /\ cop'.kind \in {"create", "delete"} => cop'.step > 0
        /\ prov # "azure" => cop'.step <= 1
        /\ key' \in CloudKey /\ known' \in BOOLEAN
    <3>1. CASE cop.step < Len(C!Teardown)
      <4>1. cop' = [cop EXCEPT !.step = cop.step + 1] /\ UNCHANGED <<key, known>>
        BY <1>15, <3>1 DEF C!DeleteStep, C!AfterDelete
      <4>2. cop.step + 1 \in 2..3 /\ prov = "azure"
        <5> HIDE DEF r
        <5>1. prov = "azure"
          <6> SUFFICES ASSUME prov # "azure"  PROVE FALSE
            OBVIOUS
          <6> cop.step = 1 /\ Len(C!Teardown) = 1
            BY <2>0, <2>1
          <6> QED  BY <3>1
        <5> QED  BY <2>0, <2>1, <3>1, <5>1, SMTT(20)
      <4> QED  BY <4>1, <4>2 DEF CloudInv, CloudTypes
    <3>2. CASE ~(cop.step < Len(C!Teardown))
      <4>1. key' = [mem |-> FALSE, disk |-> FALSE] /\ known' = FALSE /\ cop' = C!Idle
        BY <1>15, <3>2 DEF C!DeleteStep, C!AfterDelete, C!Returns
      <4>2. key' \in CloudKey
        BY <4>1, HistMoves
      <4>3. known' \in BOOLEAN
        BY <4>1
      <4> QED  BY <4>1, <4>2, <4>3 DEF C!Idle
    <3> QED  BY <3>1, <3>2
  <2> QED  BY <1>15, <2>3, <2>4, <2>5, <2>6 DEF C!DeleteStep, CloudInv, CloudTypes
<1>16. CASE C!DeleteFails
  <2> DEFINE s == cloud.res \ {"vm"}
             b == FALSE
  <2>1. \/ cloud' = cloud
        \/ cloud' = Deleted(cloud, s, "gone", b)
    BY <1>16 DEF Deleted, C!DeleteFails, CloudInv, CloudTypes, CloudSet
  <2>2. /\ s \in SUBSET CloudResources /\ s \subseteq cloud.res
        /\ b \in BOOLEAN /\ "gone" \in CloudStates
    BY DEF CloudInv, CloudTypes, CloudSet, CloudStates
  <2> HIDE DEF s, b
  <2>3. cloud' \in CloudSet /\ (cloud'.res = s \/ cloud'.res = cloud.res)
    <3> cloud \in CloudSet
      BY DEF CloudInv, CloudTypes
    <3> QED  BY <2>1, <2>2, CloudChanges
  <2> QED  BY <1>16, <2>2, <2>3 DEF C!DeleteFails, CloudInv, CloudTypes, C!Returns, C!Idle
<1>17. CASE C!VMRuns
  <2>1. cloud' \in CloudSet /\ cloud'.res = cloud.res
    BY <1>17, CloudMoves DEF C!VMRuns, CloudInv, CloudTypes, CloudStates
  <2> QED  BY <1>17, <2>1 DEF C!VMRuns, CloudInv, CloudTypes
<1>18. CASE C!AddressAssigned
  <2>1. cloud' \in CloudSet /\ cloud'.res = cloud.res
    BY <1>18, CloudMoves DEF C!AddressAssigned, CloudInv, CloudTypes, CloudStates
  <2> QED  BY <1>18, <2>1 DEF C!AddressAssigned, CloudInv, CloudTypes
<1>19. CASE C!AgentRegisters
  <2>1. cloud' \in CloudSet /\ cloud'.res = cloud.res
    BY <1>19, CloudMoves DEF C!AgentRegisters, CloudInv, CloudTypes, CloudStates
  <2> QED  BY <1>19, <2>1 DEF C!AgentRegisters, CloudInv, CloudTypes
<1>20. CASE C!Restart
  <2>1. key' \in CloudKey /\ hist' \in CloudHist
    BY <1>20, HistMoves DEF C!Restart, CloudInv, CloudTypes
  <2> QED  BY <1>20, <2>1 DEF C!Restart, CloudInv, CloudTypes, C!Idle
<1> QED  BY <1>1, <1>2, <1>3, <1>4, <1>5, <1>6, <1>7, <1>8, <1>9, <1>10, <1>11, <1>12, <1>13,
   <1>14, <1>15, <1>16, <1>17, <1>18, <1>19, <1>20 DEF C!Next


\* A result is read only once the command has ended.
LEMMA CloudCommandStep ==
    ASSUME CloudInv, C!Next
    PROVE  CloudCommand'
<1>1. CASE C!CreateBegins
  BY <1>1 DEF C!CreateBegins, CloudInv, CloudTypes, CloudCommand, C!Idle, C!Call, C!Returns,
     C!AfterDelete, NoFalseSuccess, C!NoFalseSuccess
<1>2. CASE C!CreateRefused
  BY <1>2 DEF C!CreateRefused, CloudInv, CloudTypes, CloudCommand, C!Idle, C!Call, C!Returns,
     C!AfterDelete, NoFalseSuccess, C!NoFalseSuccess
<1>3. CASE C!CreateStep
  BY <1>3 DEF C!CreateStep, CloudInv, CloudTypes, CloudCommand, C!Idle, C!Call, C!Returns,
     C!AfterDelete, NoFalseSuccess, C!NoFalseSuccess
<1>4. CASE C!CreateFails
  BY <1>4 DEF C!CreateFails, CloudInv, CloudTypes, CloudCommand, C!Idle, C!Call, C!Returns,
     C!AfterDelete, NoFalseSuccess, C!NoFalseSuccess
<1>5. CASE C!PollSees
  BY <1>5 DEF C!PollSees, CloudInv, CloudTypes, CloudCommand, C!Idle, C!Call, C!Returns,
     C!AfterDelete, NoFalseSuccess, C!NoFalseSuccess
<1>6. CASE C!PollEnds
  BY <1>6 DEF C!PollEnds, CloudInv, CloudTypes, CloudCommand, C!Idle, C!Call, C!Returns,
     C!AfterDelete, NoFalseSuccess, C!NoFalseSuccess
<1>7. CASE C!ExecBegins
  BY <1>7 DEF C!ExecBegins, CloudInv, CloudTypes, CloudCommand, C!Idle, C!Call, C!Returns,
     C!AfterDelete, NoFalseSuccess, C!NoFalseSuccess
<1>8. CASE C!ExecRefused
  BY <1>8 DEF C!ExecRefused, CloudInv, CloudTypes, CloudCommand, C!Idle, C!Call, C!Returns,
     C!AfterDelete, NoFalseSuccess, C!NoFalseSuccess
<1>9. CASE C!SendAccepted
  BY <1>9 DEF C!SendAccepted, CloudInv, CloudTypes, CloudCommand, C!Idle, C!Call, C!Returns,
     C!AfterDelete, NoFalseSuccess, C!NoFalseSuccess
<1>10. CASE C!SendFails
  BY <1>10 DEF C!SendFails, CloudInv, CloudTypes, CloudCommand, C!Idle, C!Call, C!Returns,
     C!AfterDelete, NoFalseSuccess, C!NoFalseSuccess
<1>11. CASE C!CommandEnds
  BY <1>11 DEF C!CommandEnds, CloudInv, CloudTypes, CloudCommand, C!Idle, C!Call, C!Returns,
     C!AfterDelete, NoFalseSuccess, C!NoFalseSuccess
<1>12. CASE C!ExecReturns
  BY <1>12, ResultFacts DEF C!ExecReturns, CloudInv, CloudTypes, CloudCommand, C!Idle, C!Returns,
     NoFalseSuccess, C!NoFalseSuccess
<1>13. CASE C!WaitEnds
  BY <1>13 DEF C!WaitEnds, CloudInv, CloudTypes, CloudCommand, C!Idle, C!Call, C!Returns,
     C!AfterDelete, NoFalseSuccess, C!NoFalseSuccess
<1>14. CASE C!DeleteBegins
  BY <1>14 DEF C!DeleteBegins, CloudInv, CloudTypes, CloudCommand, C!Idle, C!Call, C!Returns,
     C!AfterDelete, NoFalseSuccess, C!NoFalseSuccess
<1>15. CASE C!DeleteStep
  BY <1>15 DEF C!DeleteStep, CloudInv, CloudTypes, CloudCommand, C!Idle, C!Call, C!Returns,
     C!AfterDelete, NoFalseSuccess, C!NoFalseSuccess
<1>16. CASE C!DeleteFails
  BY <1>16 DEF C!DeleteFails, CloudInv, CloudTypes, CloudCommand, C!Idle, C!Call, C!Returns,
     C!AfterDelete, NoFalseSuccess, C!NoFalseSuccess
<1>17. CASE C!VMRuns
  BY <1>17 DEF C!VMRuns, CloudInv, CloudTypes, CloudCommand, C!Idle, C!Call, C!Returns,
     C!AfterDelete, NoFalseSuccess, C!NoFalseSuccess
<1>18. CASE C!AddressAssigned
  BY <1>18 DEF C!AddressAssigned, CloudInv, CloudTypes, CloudCommand, C!Idle, C!Call, C!Returns,
     C!AfterDelete, NoFalseSuccess, C!NoFalseSuccess
<1>19. CASE C!AgentRegisters
  BY <1>19 DEF C!AgentRegisters, CloudInv, CloudTypes, CloudCommand, C!Idle, C!Call, C!Returns,
     C!AfterDelete, NoFalseSuccess, C!NoFalseSuccess
<1>20. CASE C!Restart
  BY <1>20 DEF C!Restart, CloudInv, CloudTypes, CloudCommand, C!Idle, C!Call, C!Returns,
     C!AfterDelete, NoFalseSuccess, C!NoFalseSuccess
<1> QED  BY <1>1, <1>2, <1>3, <1>4, <1>5, <1>6, <1>7, <1>8, <1>9, <1>10, <1>11, <1>12, <1>13,
   <1>14, <1>15, <1>16, <1>17, <1>18, <1>19, <1>20 DEF C!Next


\* The key is dropped only with the VM's id.
LEMMA CloudKeysStep ==
    ASSUME CloudInv, C!Next
    PROVE  CloudKeys'
<1>1. CASE C!CreateBegins
  BY <1>1, ExitFacts DEF C!CreateBegins, CloudInv, CloudTypes, CloudSet, CloudKey, CloudHist,
     CloudKeys, C!Idle, C!Call, C!Returns, C!AfterDelete, C!Keyed, C!Stored
<1>2. CASE C!CreateRefused
  BY <1>2, ExitFacts DEF C!CreateRefused, CloudInv, CloudTypes, CloudSet, CloudKey, CloudHist,
     CloudKeys, C!Idle, C!Call, C!Returns, C!AfterDelete, C!Keyed, C!Stored
<1>3. CASE C!CreateStep
  <2>1. CASE UNCHANGED <<key, hist>> /\ cop'.kind # "poll"
    BY <1>3, <2>1 DEF C!CreateStep, CloudInv, CloudKeys, C!Keyed, C!Stored
  <2>2. CASE ~C!Keyed
    <3>1. ~C!Keyed' /\ ~C!Stored'
      BY <1>3, <2>2, ExitFacts DEF C!CreateStep, CloudInv, CloudTypes, C!Keyed, C!Stored
    <3> QED  BY <3>1 DEF CloudKeys
  <2>3. CASE key' = [mem |-> TRUE, disk |-> C!Stored]
    BY <1>3, <2>3 DEF C!CreateStep, CloudKeys, C!Stored
  <2>4. CASE /\ key' = [mem |-> TRUE, disk |-> FALSE]
             /\ hist' = [hist EXCEPT !.unsaved = TRUE]
    BY <2>4 DEF CloudInv, CloudTypes, CloudHist, CloudKeys
  <2> QED  BY <1>3, <2>1, <2>2, <2>3, <2>4 DEF C!CreateStep, CloudInv, CloudTypes
<1>4. CASE C!CreateFails
  BY <1>4, ExitFacts DEF C!CreateFails, CloudInv, CloudTypes, CloudSet, CloudKey, CloudHist,
     CloudKeys, C!Idle, C!Call, C!Returns, C!AfterDelete, C!Keyed, C!Stored
<1>5. CASE C!PollSees
  BY <1>5, ExitFacts DEF C!PollSees, CloudInv, CloudTypes, CloudSet, CloudKey, CloudHist,
     CloudKeys, C!Idle, C!Call, C!Returns, C!AfterDelete, C!Keyed, C!Stored
<1>6. CASE C!PollEnds
  BY <1>6, ExitFacts DEF C!PollEnds, CloudInv, CloudTypes, CloudSet, CloudKey, CloudHist,
     CloudKeys, C!Idle, C!Call, C!Returns, C!AfterDelete, C!Keyed, C!Stored
<1>7. CASE C!ExecBegins
  BY <1>7, ExitFacts DEF C!ExecBegins, CloudInv, CloudTypes, CloudSet, CloudKey, CloudHist,
     CloudKeys, C!Idle, C!Call, C!Returns, C!AfterDelete, C!Keyed, C!Stored
<1>8. CASE C!ExecRefused
  BY <1>8, ExitFacts DEF C!ExecRefused, CloudInv, CloudTypes, CloudSet, CloudKey, CloudHist,
     CloudKeys, C!Idle, C!Call, C!Returns, C!AfterDelete, C!Keyed, C!Stored
<1>9. CASE C!SendAccepted
  BY <1>9, ExitFacts DEF C!SendAccepted, CloudInv, CloudTypes, CloudSet, CloudKey, CloudHist,
     CloudKeys, C!Idle, C!Call, C!Returns, C!AfterDelete, C!Keyed, C!Stored
<1>10. CASE C!SendFails
  BY <1>10, ExitFacts DEF C!SendFails, CloudInv, CloudTypes, CloudSet, CloudKey, CloudHist,
     CloudKeys, C!Idle, C!Call, C!Returns, C!AfterDelete, C!Keyed, C!Stored
<1>11. CASE C!CommandEnds
  BY <1>11, ExitFacts DEF C!CommandEnds, CloudInv, CloudTypes, CloudSet, CloudKey, CloudHist,
     CloudKeys, C!Idle, C!Call, C!Returns, C!AfterDelete, C!Keyed, C!Stored
<1>12. CASE C!ExecReturns
  BY <1>12, ExitFacts DEF C!ExecReturns, CloudInv, CloudTypes, CloudSet, CloudKey, CloudHist,
     CloudKeys, C!Idle, C!Call, C!Returns, C!AfterDelete, C!Keyed, C!Stored
<1>13. CASE C!WaitEnds
  BY <1>13, ExitFacts DEF C!WaitEnds, CloudInv, CloudTypes, CloudSet, CloudKey, CloudHist,
     CloudKeys, C!Idle, C!Call, C!Returns, C!AfterDelete, C!Keyed, C!Stored
<1>14. CASE C!DeleteBegins
  BY <1>14, ExitFacts DEF C!DeleteBegins, CloudInv, CloudTypes, CloudSet, CloudKey, CloudHist,
     CloudKeys, C!Idle, C!Call, C!Returns, C!AfterDelete, C!Keyed, C!Stored
<1>15. CASE C!DeleteStep
  BY <1>15, ExitFacts DEF C!DeleteStep, CloudInv, CloudTypes, CloudSet, CloudKey, CloudHist,
     CloudKeys, C!Idle, C!Call, C!Returns, C!AfterDelete, C!Keyed, C!Stored
<1>16. CASE C!DeleteFails
  BY <1>16, ExitFacts DEF C!DeleteFails, CloudInv, CloudTypes, CloudSet, CloudKey, CloudHist,
     CloudKeys, C!Idle, C!Call, C!Returns, C!AfterDelete, C!Keyed, C!Stored
<1>17. CASE C!VMRuns
  BY <1>17, ExitFacts DEF C!VMRuns, CloudInv, CloudTypes, CloudSet, CloudKey, CloudHist,
     CloudKeys, C!Idle, C!Call, C!Returns, C!AfterDelete, C!Keyed, C!Stored
<1>18. CASE C!AddressAssigned
  BY <1>18, ExitFacts DEF C!AddressAssigned, CloudInv, CloudTypes, CloudSet, CloudKey,
     CloudHist, CloudKeys, C!Idle, C!Call, C!Returns, C!AfterDelete, C!Keyed, C!Stored
<1>19. CASE C!AgentRegisters
  BY <1>19, ExitFacts DEF C!AgentRegisters, CloudInv, CloudTypes, CloudSet, CloudKey, CloudHist,
     CloudKeys, C!Idle, C!Call, C!Returns, C!AfterDelete, C!Keyed, C!Stored
<1>20. CASE C!Restart
  BY <1>20, ExitFacts DEF C!Restart, CloudInv, CloudTypes, CloudSet, CloudKey, CloudHist,
     CloudKeys, C!Idle, C!Call, C!Returns, C!AfterDelete, C!Keyed, C!Stored
<1> QED  BY <1>1, <1>2, <1>3, <1>4, <1>5, <1>6, <1>7, <1>8, <1>9, <1>10, <1>11, <1>12, <1>13,
   <1>14, <1>15, <1>16, <1>17, <1>18, <1>19, <1>20 DEF C!Next


\* A delete leaves only what the cloud refused and what that uses.
LEMMA CloudLeftStep ==
    ASSUME CloudInv, C!Next
    PROVE  CloudLeft'
<1>1. CASE C!CreateBegins
  BY <1>1, TeardownFacts, ResultFacts DEF C!CreateBegins, CloudInv, CloudTypes, CloudSet,
     CloudKey, CloudHist, CloudResources, CloudLeft, C!Idle, C!Call, C!Returns, C!AfterDelete,
     C!NothingLeft, C!Uses
<1>2. CASE C!CreateRefused
  BY <1>2, TeardownFacts, ResultFacts DEF C!CreateRefused, CloudInv, CloudTypes, CloudSet,
     CloudKey, CloudHist, CloudResources, CloudLeft, C!Idle, C!Call, C!Returns, C!AfterDelete,
     C!NothingLeft, C!Uses
<1>3. CASE C!CreateStep
  BY <1>3, TeardownFacts, ResultFacts DEF C!CreateStep, CloudInv, CloudTypes, CloudSet,
     CloudKey, CloudHist, CloudResources, CloudLeft, C!Idle, C!Call, C!Returns, C!AfterDelete,
     C!NothingLeft, C!Uses
<1>4. CASE C!CreateFails
  BY <1>4, TeardownFacts, ResultFacts DEF C!CreateFails, CloudInv, CloudTypes, CloudSet,
     CloudKey, CloudHist, CloudResources, CloudLeft, C!Idle, C!Call, C!Returns, C!AfterDelete,
     C!NothingLeft, C!Uses
<1>5. CASE C!PollSees
  BY <1>5, TeardownFacts, ResultFacts DEF C!PollSees, CloudInv, CloudTypes, CloudSet, CloudKey,
     CloudHist, CloudResources, CloudLeft, C!Idle, C!Call, C!Returns, C!AfterDelete,
     C!NothingLeft, C!Uses
<1>6. CASE C!PollEnds
  BY <1>6, TeardownFacts, ResultFacts DEF C!PollEnds, CloudInv, CloudTypes, CloudSet, CloudKey,
     CloudHist, CloudResources, CloudLeft, C!Idle, C!Call, C!Returns, C!AfterDelete,
     C!NothingLeft, C!Uses
<1>7. CASE C!ExecBegins
  BY <1>7, TeardownFacts, ResultFacts DEF C!ExecBegins, CloudInv, CloudTypes, CloudSet,
     CloudKey, CloudHist, CloudResources, CloudLeft, C!Idle, C!Call, C!Returns, C!AfterDelete,
     C!NothingLeft, C!Uses
<1>8. CASE C!ExecRefused
  BY <1>8, TeardownFacts, ResultFacts DEF C!ExecRefused, CloudInv, CloudTypes, CloudSet,
     CloudKey, CloudHist, CloudResources, CloudLeft, C!Idle, C!Call, C!Returns, C!AfterDelete,
     C!NothingLeft, C!Uses
<1>9. CASE C!SendAccepted
  BY <1>9, TeardownFacts, ResultFacts DEF C!SendAccepted, CloudInv, CloudTypes, CloudSet,
     CloudKey, CloudHist, CloudResources, CloudLeft, C!Idle, C!Call, C!Returns, C!AfterDelete,
     C!NothingLeft, C!Uses
<1>10. CASE C!SendFails
  BY <1>10, TeardownFacts, ResultFacts DEF C!SendFails, CloudInv, CloudTypes, CloudSet,
     CloudKey, CloudHist, CloudResources, CloudLeft, C!Idle, C!Call, C!Returns, C!AfterDelete,
     C!NothingLeft, C!Uses
<1>11. CASE C!CommandEnds
  BY <1>11, TeardownFacts, ResultFacts DEF C!CommandEnds, CloudInv, CloudTypes, CloudSet,
     CloudKey, CloudHist, CloudResources, CloudLeft, C!Idle, C!Call, C!Returns, C!AfterDelete,
     C!NothingLeft, C!Uses
<1>12. CASE C!ExecReturns
  BY <1>12, TeardownFacts, ResultFacts DEF C!ExecReturns, CloudInv, CloudTypes, CloudSet,
     CloudKey, CloudHist, CloudResources, CloudLeft, C!Idle, C!Call, C!Returns, C!AfterDelete,
     C!NothingLeft, C!Uses
<1>13. CASE C!WaitEnds
  BY <1>13, TeardownFacts, ResultFacts DEF C!WaitEnds, CloudInv, CloudTypes, CloudSet, CloudKey,
     CloudHist, CloudResources, CloudLeft, C!Idle, C!Call, C!Returns, C!AfterDelete,
     C!NothingLeft, C!Uses
<1>14. CASE C!DeleteBegins
  BY <1>14, TeardownFacts, ResultFacts DEF C!DeleteBegins, CloudInv, CloudTypes, CloudSet,
     CloudKey, CloudHist, CloudResources, CloudLeft, C!Idle, C!Call, C!Returns, C!AfterDelete,
     C!NothingLeft, C!Uses
<1>15. CASE C!DeleteStep
  <2> DEFINE r == C!Teardown[cop.step]
             left == cloud'.res
  <2>0. /\ cop.kind = "delete" /\ cop.step \in 1..3 /\ (prov # "azure" => cop.step = 1)
        /\ prov \in C!Names /\ cloud.res \subseteq CloudResources /\ out # "deleted"
        /\ prov # "azure" => cloud.res \subseteq {"vm"}
    BY <1>15 DEF C!DeleteStep, CloudInv, CloudTypes, CloudSet, CloudLeft
  <2>1. \/ cop.step = 1 /\ r = "vm"
        \/ cop.step = 2 /\ r = "nic" /\ "vm" \notin cloud.res
        \/ /\ cop.step = 3 /\ r = "pip" /\ "vm" \notin cloud.res
           /\ "nic" \notin cloud.res \/ "nic" \in hist.refused
    BY <2>0, TeardownFacts DEF CloudInv, CloudLeft
  <2>2. \/ left = cloud.res \ {r} /\ C!Uses[r] \cap cloud.res = {} /\ hist' = hist
        \/ left = cloud.res /\ C!Uses[r] \cap cloud.res # {} /\ cop.step # 1 /\ hist' = hist
        \/ left = cloud.res /\ cop.step # 1 /\ hist'.refused = hist.refused \cup {r}
    <3>1. cloud \in CloudSet /\ hist \in CloudHist
      BY DEF CloudInv, CloudTypes
    <3>3. CASE hist' = [hist EXCEPT !.refused = @ \cup {r}] /\ cloud' = cloud /\ cop.step > 1
      BY <2>0, <3>1, <3>3 DEF CloudHist
    <3>2. CASE /\ hist' = hist
               /\ cloud' = IF C!Uses[r] \cap cloud.res # {} THEN cloud
                           ELSE [cloud EXCEPT !.res = @ \ {r},
                                              !.vm = IF r = "vm" THEN "gone" ELSE @,
                                              !.agent = IF r = "vm" THEN FALSE ELSE @]
      <4>1. CASE C!Uses[r] \cap cloud.res = {}
        <5>1. cloud'.res = cloud.res \ {r}
          BY <3>1, <3>2, <4>1 DEF CloudSet
        <5> QED  BY <1>15, <3>2, <4>1, <5>1 DEF C!DeleteStep
      <4>2. CASE C!Uses[r] \cap cloud.res # {}
        BY <1>15, <3>2, <4>2 DEF C!DeleteStep
      <4> QED  BY <4>1, <4>2
    <3> QED  BY <1>15, <3>2, <3>3 DEF C!DeleteStep
  <2>3. /\ left \subseteq cloud.res
        /\ cop.step = 1 => "vm" \notin left
        /\ cop.step > 1 => "vm" \notin left
        /\ cop.step = 2 => "nic" \notin left \/ "nic" \in hist'.refused
        /\ cop.step = 3 => /\ "nic" \notin left \/ "nic" \in hist'.refused
                           /\ "pip" \notin left \/ "pip" \in hist'.refused \/ "nic" \in left
    BY <2>1, <2>2 DEF C!Uses
  <2> HIDE DEF r, left
  <2>4. CASE cop.step < Len(C!Teardown)
    <3>1. cop' = [cop EXCEPT !.step = cop.step + 1] /\ UNCHANGED out
      BY <1>15, <2>4 DEF C!DeleteStep, C!AfterDelete
    <3>2. cop'.step = cop.step + 1
      BY <3>1 DEF CloudInv, CloudTypes
    <3> QED  BY <2>0, <2>3, <3>1, <3>2 DEF CloudLeft, C!NothingLeft, left
  <2>5. CASE ~(cop.step < Len(C!Teardown))
    <3>1. key' = [mem |-> FALSE, disk |-> FALSE] /\ cop' = C!Idle
      BY <1>15, <2>5 DEF C!DeleteStep, C!AfterDelete, C!Returns
    <3>2. (prov = "azure" /\ cop.step = 3) \/ (prov # "azure" /\ cop.step = 1)
      BY <2>0, <2>5, TeardownFacts
    <3>3. \A x \in left : x \in hist'.refused \/ C!Uses[x] \cap left # {}
      BY <2>0, <2>3, <3>2 DEF C!Uses, CloudResources
    <3> QED  BY <3>1, <3>3 DEF CloudLeft, C!NothingLeft, C!Idle, left
  <2> QED  BY <2>4, <2>5
<1>16. CASE C!DeleteFails
  BY <1>16, TeardownFacts, ResultFacts DEF C!DeleteFails, CloudInv, CloudTypes, CloudSet,
     CloudKey, CloudHist, CloudResources, CloudLeft, C!Idle, C!Call, C!Returns, C!AfterDelete,
     C!NothingLeft, C!Uses
<1>17. CASE C!VMRuns
  BY <1>17, TeardownFacts, ResultFacts DEF C!VMRuns, CloudInv, CloudTypes, CloudSet, CloudKey,
     CloudHist, CloudResources, CloudLeft, C!Idle, C!Call, C!Returns, C!AfterDelete,
     C!NothingLeft, C!Uses
<1>18. CASE C!AddressAssigned
  BY <1>18, TeardownFacts, ResultFacts DEF C!AddressAssigned, CloudInv, CloudTypes, CloudSet,
     CloudKey, CloudHist, CloudResources, CloudLeft, C!Idle, C!Call, C!Returns, C!AfterDelete,
     C!NothingLeft, C!Uses
<1>19. CASE C!AgentRegisters
  BY <1>19, TeardownFacts, ResultFacts DEF C!AgentRegisters, CloudInv, CloudTypes, CloudSet,
     CloudKey, CloudHist, CloudResources, CloudLeft, C!Idle, C!Call, C!Returns, C!AfterDelete,
     C!NothingLeft, C!Uses
<1>20. CASE C!Restart
  BY <1>20, TeardownFacts, ResultFacts DEF C!Restart, CloudInv, CloudTypes, CloudSet, CloudKey,
     CloudHist, CloudResources, CloudLeft, C!Idle, C!Call, C!Returns, C!AfterDelete,
     C!NothingLeft, C!Uses
<1> QED  BY <1>1, <1>2, <1>3, <1>4, <1>5, <1>6, <1>7, <1>8, <1>9, <1>10, <1>11, <1>12, <1>13,
   <1>14, <1>15, <1>16, <1>17, <1>18, <1>19, <1>20 DEF C!Next


\* Every step of the cloud part keeps its invariant.
LEMMA CloudStep ==
    ASSUME CloudInv, C!Next
    PROVE  CloudInv'
BY CloudTypesStep, CloudCommandStep, CloudKeysStep, CloudLeftStep DEF CloudInv

-----------------------------------------------------------------------------
(* The egress proxy *)

\* A connection's record.
EgressPcs == {"idle", "decide", "redecide", "ask", "reask", "vet", "dial", "send", "open",
              "forward", "mint", "session", "subst"}
EgressKinds == {"none", "http", "connect", "socks", "session"}
EgressConn == [pc : EgressPcs, kind : EgressKinds, host : E!Hosts, cred : E!Creds,
               addr : E!Addrs \cup {"none"}, up : E!Addrs \cup {"none"}, since : Nat,
               hv : Nat, av : Nat, fresh : BOOLEAN, real : BOOLEAN, told : BOOLEAN]
EgressCache == [ok : BOOLEAN, allow : BOOLEAN, v : Nat]

\* The types of what the proxy keeps.
EgressTypes ==
    /\ cfg \in E!StartOptions
    /\ central \in Nat /\ names \in Nat /\ addrs \in Nat /\ sync \in Nat
    /\ cache \in [E!Hosts -> EgressCache]
    /\ conn \in [Conns -> EgressConn]

\* The two stores of the running server are never ahead of the control plane,
\* and the store of the addresses is never ahead of that of the names.
Versions ==
    /\ addrs <= names /\ names <= central
    /\ sync # 0 => addrs < sync /\ names <= sync /\ sync <= central

\* A cached verdict was given by the policy it says.
CacheTrue == \A h \in E!Hosts : cache[h].ok /\ cache[h].allow => E!Decide(cache[h].v, h)

\* A request k whose name passed was allowed by a policy at least as new as the
\* one in force when it came, and so was the address of one that is dialled;
\* a real credential is in it only where it may be.
Fits(k, mode, plain, a, n) ==
    /\ k.since <= n /\ (mode # "decider" => k.since <= a)
    /\ k.pc = "vet" \/ k.fresh => k.hv >= k.since /\ E!Decide(k.hv, k.host)
    /\ k.fresh => /\ k.pc \in {"dial", "open", "send"}
                  /\ mode # "decider" => k.av >= k.since
                  /\ k.addr \in E!BlockedClass => k.host = "lit"
                  /\ k.host # "lit" => k.addr \notin E!Policy(k.av).cidr
    /\ k.real => IF k.kind = "session" THEN k.told ELSE plain
    /\ k.pc \in {"decide", "ask", "mint"} => ~k.real

AllFit == \A c \in Conns : Fits(conn[c], cfg.mode, cfg.plain, addrs, central)

EgressInv == EgressTypes /\ Versions /\ CacheTrue /\ AllFit

\* The invariant gives the two properties.
LEMMA EgressHolds == EgressInv => OnlyPermitted /\ CredentialsStayMasked
BY DEF EgressInv, EgressTypes, AllFit, Fits, OnlyPermitted, E!OnlyPermitted,
   CredentialsStayMasked, E!CredentialsStayMasked

\* A connection nobody uses.
LEMMA NoConnFits ==
    ASSUME NEW m, NEW b, NEW a \in Nat, NEW n \in Nat
    PROVE  E!NoConn \in EgressConn /\ Fits(E!NoConn, m, b, a, n)
<1>1. E!NoConn \in EgressConn
  BY DEF E!NoConn, EgressConn, EgressPcs, EgressKinds, E!Hosts, E!Addrs, E!Creds
<1>2. Fits(E!NoConn, m, b, a, n)
  BY DEF E!NoConn, Fits
<1> QED  BY <1>1, <1>2

\* The first states.
LEMMA EgressInit == Init => EgressInv
<1> SUFFICES ASSUME E!Init  PROVE EgressInv
  BY DEF Init
<1> USE DEF E!Init
<1>1. EgressTypes
  BY NoConnFits DEF EgressTypes, EgressCache, E!NoVerdict
<1>2. Versions
  BY DEF Versions
<1>3. CacheTrue
  BY DEF CacheTrue, E!NoVerdict
<1>4. AllFit
  BY NoConnFits DEF AllFit
<1> QED  BY <1>1, <1>2, <1>3, <1>4 DEF EgressInv

\* A step of one connection.
LEMMA ConnStep ==
    ASSUME EgressInv, NEW c \in Conns, NEW e \in EgressConn,
           Fits(e, cfg.mode, cfg.plain, addrs, central),
           conn' = [conn EXCEPT ![c] = e], UNCHANGED <<cfg, central, names, addrs, sync>>,
           CacheTrue', cache' \in [E!Hosts -> EgressCache]
    PROVE  EgressInv'
<1>1. EgressTypes' /\ Versions'
  BY DEF EgressInv, EgressTypes, Versions
<1>2. AllFit'
  BY DEF EgressInv, EgressTypes, AllFit
<1> QED  BY <1>1, <1>2 DEF EgressInv

\* A refused request leaves nothing, or the session it came in.
LEMMA RefusedStep ==
    ASSUME EgressInv, NEW c \in Conns, E!Refused(c), UNCHANGED <<cfg, central, names, addrs, sync>>,
           CacheTrue', cache' \in [E!Hosts -> EgressCache]
    PROVE  EgressInv'
<1> DEFINE s == [E!NoConn EXCEPT !.pc = "session", !.kind = "session",
                                 !.host = conn[c].host, !.up = conn[c].up]
           e == IF conn[c].kind # "session" THEN E!NoConn ELSE s
<1>1. conn' = [conn EXCEPT ![c] = e]
  BY DEF EgressInv, EgressTypes, E!Refused
<1>2. s \in EgressConn
  BY DEF EgressInv, EgressTypes, EgressConn, EgressPcs, EgressKinds, E!NoConn, E!Hosts, E!Addrs,
     E!Creds
<1>3. Fits(s, cfg.mode, cfg.plain, addrs, central)
  BY DEF EgressInv, EgressTypes, EgressConn, E!NoConn, Fits
<1>4. e \in EgressConn /\ Fits(e, cfg.mode, cfg.plain, addrs, central)
  BY <1>2, <1>3, NoConnFits DEF EgressInv, EgressTypes
<1> HIDE DEF e
<1> QED  BY <1>1, <1>4, ConnStep

\* The verdict of a policy about a name.
LEMMA AllowedStep ==
    ASSUME EgressInv, NEW c \in Conns, NEW v \in Nat, E!Allowed(c, v), E!Decide(v, conn[c].host),
           v >= conn[c].since, conn[c].pc \in {"decide", "redecide", "ask", "reask"},
           UNCHANGED <<cfg, central, names, addrs, sync>>,
           CacheTrue', cache' \in [E!Hosts -> EgressCache]
    PROVE  EgressInv'
<1> DEFINE p == IF conn[c].pc \in {"redecide", "reask"} THEN "vet"
                ELSE IF conn[c].kind = "http" THEN "forward"
                ELSE IF conn[c].kind = "connect" /\ E!Terminating(conn[c].host) THEN "mint"
                ELSE "vet"
           e == [conn[c] EXCEPT !.hv = v, !.pc = p]
<1>1. p \in {"vet", "forward", "mint"} /\ (p = "mint" => conn[c].pc \in {"decide", "ask"})
  BY DEF EgressPcs
<1>2. conn' = [conn EXCEPT ![c].hv = v, ![c].pc = p]
  BY DEF E!Allowed
<1> HIDE DEF p
<1>3. conn' = [conn EXCEPT ![c] = e] /\ conn[c] \in EgressConn
  BY <1>2 DEF EgressInv, EgressTypes, EgressConn
<1>4. e \in EgressConn
  BY <1>1, <1>3 DEF EgressConn, EgressPcs
<1>5. Fits(e, cfg.mode, cfg.plain, addrs, central)
  BY <1>1, <1>3 DEF EgressInv, AllFit, Fits, EgressConn
<1> HIDE DEF e
<1> QED  BY <1>3, <1>4, <1>5, ConnStep

\* The facts a step of a connection starts from.
LEMMA ConnFacts ==
    ASSUME EgressInv, NEW c \in Conns
    PROVE  /\ conn[c] \in EgressConn /\ conn \in [Conns -> EgressConn]
           /\ Fits(conn[c], cfg.mode, cfg.plain, addrs, central)
           /\ central \in Nat /\ names \in Nat /\ addrs \in Nat
           /\ addrs <= names /\ names <= central
           /\ cache \in [E!Hosts -> EgressCache] /\ CacheTrue
BY DEF EgressInv, EgressTypes, AllFit, Versions

\* A step of one connection that leaves the rest alone.
LEMMA MoveStep ==
    ASSUME EgressInv, NEW c \in Conns, NEW e \in EgressConn,
           Fits(e, cfg.mode, cfg.plain, addrs, central),
           conn' = [conn EXCEPT ![c] = e], UNCHANGED <<cfg, central, names, addrs, sync, cache>>
    PROVE  EgressInv'
<1>1. CacheTrue' /\ cache' \in [E!Hosts -> EgressCache]
  BY DEF EgressInv, EgressTypes, CacheTrue
<1> QED  BY <1>1, ConnStep

\* The same for a refusal.
LEMMA TurnStep ==
    ASSUME EgressInv, NEW c \in Conns, E!Refused(c),
           UNCHANGED <<cfg, central, names, addrs, sync, cache>>
    PROVE  EgressInv'
<1>1. CacheTrue' /\ cache' \in [E!Hosts -> EgressCache]
  BY DEF EgressInv, EgressTypes, CacheTrue
<1> QED  BY <1>1, RefusedStep

\* The decisions about the name, by the running server, by a cached verdict and
\* by the control plane.
LEMMA DecisionStep ==
    ASSUME EgressInv, NEW c \in Conns,
           \/ E!DecideLocal(c) \/ E!DecideCached(c) \/ E!DecideAsks(c)
           \/ E!DeciderAnswers(c) \/ E!DeciderFails(c)
    PROVE  EgressInv'
<1> USE ConnFacts
<1>1. CASE E!DecideLocal(c)
  <2>1. CacheTrue' /\ cache' \in [E!Hosts -> EgressCache]
    BY <1>1 DEF E!DecideLocal, CacheTrue
  <2>2. names >= conn[c].since
    BY <1>1 DEF E!DecideLocal, Fits, EgressConn
  <2>3. CASE E!Decide(names, conn[c].host)
    <3>1. E!Allowed(c, names)
      BY <1>1, <2>3 DEF E!DecideLocal, E!Verdict
    <3> QED  BY <1>1, <2>1, <2>2, <2>3, <3>1, AllowedStep DEF E!DecideLocal, E!Deciding,
       E!policyVars
  <2>4. CASE ~E!Decide(names, conn[c].host)
    BY <1>1, <2>1, <2>4, RefusedStep DEF E!DecideLocal, E!Verdict, E!policyVars
  <2> QED  BY <2>3, <2>4
<1>2. CASE E!DecideCached(c)
  <2> DEFINE h == conn[c].host
             t == IF conn[c].since > cache[h].v THEN cache[h].v ELSE conn[c].since
             p == IF conn[c].pc = "decide" /\ conn[c].kind = "http" THEN "forward" ELSE "vet"
             e == [conn[c] EXCEPT !.hv = cache[h].v, !.since = t, !.pc = p]
  <2>1. CASE ~cache[h].allow
    BY <1>2, <2>1, TurnStep DEF E!DecideCached, E!policyVars
  <2>2. CASE cache[h].allow
    <3>1. /\ conn' = [conn EXCEPT ![c].hv = cache[h].v, ![c].since = t, ![c].pc = p]
          /\ cache[h].ok /\ conn[c].pc \in {"decide", "redecide"}
      BY <1>2, <2>2 DEF E!DecideCached, E!Deciding, EgressConn
    <3>2. /\ cache[h].v \in Nat /\ E!Decide(cache[h].v, h)
          /\ t \in Nat /\ t <= cache[h].v /\ t <= conn[c].since
      BY <2>2, <3>1 DEF CacheTrue, EgressConn, EgressCache
    <3>3. p \in {"forward", "vet"}
      OBVIOUS
    <3> HIDE DEF t, p
    <3>4. conn' = [conn EXCEPT ![c] = e]
      BY <3>1 DEF EgressConn
    <3>5. e \in EgressConn
      BY <3>2, <3>3, ZenonT(40) DEF EgressConn, EgressPcs
    <3>6. Fits(e, cfg.mode, cfg.plain, addrs, central)
      BY <3>1, <3>2, <3>3 DEF Fits, EgressConn
    <3> HIDE DEF e
    <3> QED  BY <1>2, <3>4, <3>5, <3>6, MoveStep DEF E!DecideCached, E!policyVars
  <2> QED  BY <2>1, <2>2
<1>3. CASE E!DecideAsks(c)
  <2> DEFINE p == IF conn[c].pc = "decide" THEN "ask" ELSE "reask"
             e == [conn[c] EXCEPT !.pc = p]
  <2>1. /\ conn' = [conn EXCEPT ![c].pc = p] /\ conn[c].pc \in {"decide", "redecide"}
        /\ p \in {"ask", "reask"} /\ (p = "ask" => conn[c].pc = "decide")
    BY <1>3 DEF E!DecideAsks, E!Deciding, E!Goes
  <2> HIDE DEF p
  <2>2. conn' = [conn EXCEPT ![c] = e] /\ e \in EgressConn
    BY <2>1 DEF EgressConn, EgressPcs
  <2>3. Fits(e, cfg.mode, cfg.plain, addrs, central)
    BY <2>1 DEF Fits, EgressConn
  <2> HIDE DEF e
  <2> QED  BY <1>3, <2>2, <2>3, MoveStep DEF E!DecideAsks, E!policyVars
<1>4. CASE E!DeciderAnswers(c)
  <2> DEFINE h == conn[c].host
             x == [ok |-> TRUE, allow |-> E!Decide(central, h), v |-> central]
  <2>1. cache' = [cache EXCEPT ![h] = x] /\ h \in E!Hosts
    BY <1>4 DEF E!DeciderAnswers, EgressConn
  <2>2. x \in EgressCache /\ (x.allow => E!Decide(x.v, h))
    BY DEF EgressCache, E!Decide
  <2> HIDE DEF x
  <2>3. CacheTrue' /\ cache' \in [E!Hosts -> EgressCache]
    BY <2>1, <2>2 DEF CacheTrue
  <2>4. central >= conn[c].since
    BY DEF Fits, EgressConn
  <2>5. CASE E!Decide(central, conn[c].host)
    <3>1. E!Allowed(c, central)
      BY <1>4, <2>5 DEF E!DeciderAnswers, E!Verdict
    <3> QED  BY <1>4, <2>3, <2>4, <2>5, <3>1, AllowedStep DEF E!DeciderAnswers, E!policyVars
  <2>6. CASE ~E!Decide(central, conn[c].host)
    BY <1>4, <2>3, <2>6, RefusedStep DEF E!DeciderAnswers, E!Verdict, E!policyVars
  <2> QED  BY <2>5, <2>6
<1>5. CASE E!DeciderFails(c)
  BY <1>5, TurnStep DEF E!DeciderFails, E!policyVars
<1> QED  BY <1>1, <1>2, <1>3, <1>4, <1>5

\* What is vetted passes the address rules, or is the literal.
LEMMA VettedFacts ==
    ASSUME NEW v, NEW h \in E!Hosts, NEW answer \in SUBSET E!Addrs, NEW a \in E!Vetted(v, h, answer)
    PROVE  /\ a \in E!Addrs
           /\ a \in E!BlockedClass => h = "lit"
           /\ h # "lit" => a \notin E!Policy(v).cidr
BY DEF E!Vetted, E!CheckAddr, E!Addrs

\* The resolution and the dial.
LEMMA DialStep ==
    ASSUME EgressInv, NEW c \in Conns, E!Vet(c) \/ E!Dial(c) \/ E!DialFails(c)
    PROVE  EgressInv'
<1> USE ConnFacts
<1>1. CASE E!Vet(c)
  <2>1. CASE E!Refused(c)
    BY <1>1, <2>1, TurnStep, ZenonT(40) DEF E!Vet, E!policyVars
  <2>2. CASE ~E!Refused(c)
    <3>0. PICK answer \in SUBSET E!Addrs : \E a \in E!Vetted(addrs, conn[c].host, answer) :
             conn' = [conn EXCEPT ![c].pc = "dial", ![c].addr = a, ![c].av = addrs, ![c].fresh = TRUE]
      BY <1>1, <2>2 DEF E!Vet
    <3>1. PICK a \in E!Vetted(addrs, conn[c].host, answer) :
             conn' = [conn EXCEPT ![c].pc = "dial", ![c].addr = a, ![c].av = addrs, ![c].fresh = TRUE]
      BY <3>0
    <3> DEFINE e == [conn[c] EXCEPT !.pc = "dial", !.addr = a, !.av = addrs, !.fresh = TRUE]
    <3>2. /\ a \in E!Addrs /\ (a \in E!BlockedClass => conn[c].host = "lit")
          /\ conn[c].host # "lit" => a \notin E!Policy(addrs).cidr
      BY <3>1, VettedFacts DEF EgressConn
    <3>3. conn' = [conn EXCEPT ![c] = e]
      BY <3>1 DEF EgressConn
    <3>4. e \in EgressConn
      BY <3>2, ZenonT(40) DEF EgressConn, EgressPcs
    <3>5. Fits(e, cfg.mode, cfg.plain, addrs, central)
      <4>1. conn[c].pc = "vet"
        BY <1>1 DEF E!Vet
      <4>2. /\ conn[c].since <= central /\ (cfg.mode # "decider" => conn[c].since <= addrs)
            /\ conn[c].hv >= conn[c].since /\ E!Decide(conn[c].hv, conn[c].host)
            /\ conn[c].real => IF conn[c].kind = "session" THEN conn[c].told ELSE cfg.plain
        BY <4>1 DEF Fits
      <4>3. /\ e.pc = "dial" /\ e.addr = a /\ e.av = addrs /\ e.since = conn[c].since
            /\ e.hv = conn[c].hv /\ e.host = conn[c].host /\ e.kind = conn[c].kind
            /\ (e.told <=> conn[c].told) /\ (e.real <=> conn[c].real)
        BY DEF EgressConn
      <4> HIDE DEF e
      <4> QED  BY <3>2, <4>2, <4>3 DEF Fits, EgressConn
    <3> HIDE DEF e
    <3> QED  BY <1>1, <3>3, <3>4, <3>5, MoveStep, ZenonT(40) DEF E!Vet, E!policyVars
  <2> QED  BY <2>1, <2>2, SMTT(20)
<1>2. CASE E!Dial(c)
  <2> DEFINE p == IF conn[c].kind \in {"http", "session"} THEN "send" ELSE "open"
             e == [conn[c] EXCEPT !.pc = p]
  <2>1. conn' = [conn EXCEPT ![c].pc = p] /\ conn[c].pc = "dial" /\ p \in {"send", "open"}
    BY <1>2 DEF E!Dial, E!Goes
  <2> HIDE DEF p
  <2>2. conn' = [conn EXCEPT ![c] = e] /\ e \in EgressConn
    BY <2>1 DEF EgressConn, EgressPcs
  <2>3. Fits(e, cfg.mode, cfg.plain, addrs, central)
    BY <2>1 DEF Fits, EgressConn
  <2> HIDE DEF e
  <2> QED  BY <1>2, <2>2, <2>3, MoveStep DEF E!Dial, E!policyVars
<1>3. CASE E!DialFails(c)
  BY <1>3, TurnStep DEF E!DialFails, E!policyVars
<1> QED  BY <1>1, <1>2, <1>3

\* A request whose masked credential was replaced, or not, goes on.
LEMMA SentFact ==
    ASSUME NEW k \in EgressConn, NEW r \in BOOLEAN, NEW p \in {"send", "redecide"}
    PROVE  /\ [k EXCEPT !.cred = "none", !.real = r, !.pc = p] \in EgressConn
           /\ [k EXCEPT !.cred = "none", !.real = r, !.told = TRUE, !.pc = p] \in EgressConn
<1>1. p \in EgressPcs /\ "none" \in E!Creds
  BY DEF EgressPcs, E!Creds
<1> QED  BY <1>1 DEF EgressConn

\* A request comes, and the transport of a plain one.
LEMMA PlainStep ==
    ASSUME EgressInv, NEW c \in Conns,
           \/ E!Forward(c) \/ E!RoundTrip(c) \/ E!Closes(c)
           \/ \E k \in {"http", "connect", "socks"}, h \in E!Hosts, cred \in E!Creds : E!Arrive(c, k, h, cred)
    PROVE  EgressInv'
<1> USE ConnFacts
<1>1. CASE E!Forward(c)
  <2>1. CASE E!Refused(c)
    BY <1>1, <2>1, TurnStep DEF E!Forward, E!policyVars
  <2>2. CASE ~E!Refused(c)
    <3> DEFINE r == (conn[c].cred = "masked")
               p == IF conn[c].host \in pool THEN "send" ELSE "redecide"
               e == [conn[c] EXCEPT !.cred = "none", !.real = r, !.pc = p]
    <3>1. /\ conn' = [conn EXCEPT ![c].cred = "none", ![c].real = r, ![c].pc = p]
          /\ r => cfg.plain
      BY <1>1, <2>2 DEF E!Forward, E!Transport
    <3>2. p \in {"send", "redecide"} /\ r \in BOOLEAN /\ conn[c].pc = "forward"
      BY <1>1 DEF E!Forward
    <3> HIDE DEF p, r
    <3>3. conn' = [conn EXCEPT ![c] = e]
      BY <3>1 DEF EgressConn
    <3>4. e \in EgressConn
      BY <3>2, SentFact
    <3>5. Fits(e, cfg.mode, cfg.plain, addrs, central)
      BY <3>1, <3>2 DEF Fits, EgressConn
    <3> HIDE DEF e
    <3> QED  BY <1>1, <3>3, <3>4, <3>5, MoveStep DEF E!Forward, E!policyVars
  <2> QED  BY <2>1, <2>2
<1>2. CASE E!RoundTrip(c) \/ E!Closes(c)
  BY <1>2, NoConnFits, MoveStep DEF E!RoundTrip, E!Closes, E!policyVars
<1>3. ASSUME NEW k \in {"http", "connect", "socks"}, NEW h \in E!Hosts, NEW cred \in E!Creds,
             E!Arrive(c, k, h, cred)
      PROVE  EgressInv'
  <2> DEFINE e == [E!NoConn EXCEPT !.pc = "decide", !.kind = k, !.host = h, !.cred = cred,
                                   !.since = E!InForce]
  <2>1. /\ E!InForce \in Nat /\ E!InForce <= central
        /\ cfg.mode # "decider" => E!InForce <= addrs
    BY DEF E!InForce
  <2>2. conn' = [conn EXCEPT ![c] = e]
    BY <1>3 DEF E!Arrive
  <2>3. e \in EgressConn
    BY <2>1, ZenonT(40) DEF EgressConn, EgressPcs, EgressKinds, E!NoConn, E!Addrs
  <2>4. Fits(e, cfg.mode, cfg.plain, addrs, central)
    BY <2>1 DEF Fits, E!NoConn
  <2> HIDE DEF e
  <2> QED  BY <1>3, <2>2, <2>3, <2>4, MoveStep DEF E!Arrive, E!policyVars
<1> QED  BY <1>1, <1>2, <1>3

\* The sessions in which the proxy ends the TLS of its client.
LEMMA SessionStep ==
    ASSUME EgressInv, NEW c \in Conns,
           \/ E!LeafFor(c) \/ E!ServeTerminated(c) \/ E!SessionRoundTrip(c)
           \/ \E cred \in E!Creds : E!SessionRequest(c, cred)
    PROVE  EgressInv'
<1> USE ConnFacts
<1>1. CASE E!LeafFor(c)
  <2>1. CASE E!Refused(c)
    BY <1>1, <2>1, TurnStep DEF E!LeafFor, E!policyVars
  <2>2. CASE ~E!Refused(c)
    <3> DEFINE e == [conn[c] EXCEPT !.pc = "session", !.kind = "session"]
    <3>1. conn' = [conn EXCEPT ![c].pc = "session", ![c].kind = "session"] /\ conn[c].pc = "mint"
      BY <1>1, <2>2 DEF E!LeafFor
    <3>2. conn' = [conn EXCEPT ![c] = e]
      BY <3>1 DEF EgressConn
    <3>3. e \in EgressConn
      BY ZenonT(40) DEF EgressConn, EgressPcs, EgressKinds
    <3>4. Fits(e, cfg.mode, cfg.plain, addrs, central)
      BY <3>1 DEF Fits, EgressConn
    <3> HIDE DEF e
    <3> QED  BY <1>1, <3>2, <3>3, <3>4, MoveStep DEF E!LeafFor, E!policyVars
  <2> QED  BY <2>1, <2>2
<1>2. CASE E!ServeTerminated(c)
  <2>1. CASE E!Refused(c)
    BY <1>2, <2>1, TurnStep DEF E!ServeTerminated, E!policyVars
  <2>2. CASE ~E!Refused(c)
    <3> DEFINE r == (conn[c].cred # "none")
               p == IF conn[c].up # "none" THEN "send" ELSE "redecide"
               e == [conn[c] EXCEPT !.cred = "none", !.real = r, !.told = TRUE, !.pc = p]
    <3>1. conn' = [conn EXCEPT ![c].cred = "none", ![c].real = r, ![c].told = TRUE, ![c].pc = p]
      BY <1>2, <2>2 DEF E!ServeTerminated, E!SessionTransport
    <3>2. p \in {"send", "redecide"} /\ r \in BOOLEAN /\ conn[c].pc = "subst"
      BY <1>2 DEF E!ServeTerminated
    <3> HIDE DEF p, r
    <3>3. conn' = [conn EXCEPT ![c] = e]
      BY <3>1 DEF EgressConn
    <3>4. e \in EgressConn
      BY <3>2, SentFact
    <3>5. Fits(e, cfg.mode, cfg.plain, addrs, central)
      BY <3>1, <3>2 DEF Fits, EgressConn
    <3> HIDE DEF e
    <3> QED  BY <1>2, <3>3, <3>4, <3>5, MoveStep DEF E!ServeTerminated, E!policyVars
  <2> QED  BY <2>1, <2>2
<1>3. CASE E!SessionRoundTrip(c)
  <2>1. PICK u \in E!Addrs \cup {"none"} :
            conn' = [conn EXCEPT ![c] = [E!NoConn EXCEPT !.pc = "session", !.kind = "session",
                                            !.host = conn[c].host, !.up = u]]
    BY <1>3 DEF E!SessionRoundTrip, EgressConn
  <2> DEFINE e == [E!NoConn EXCEPT !.pc = "session", !.kind = "session",
                                   !.host = conn[c].host, !.up = u]
  <2>2. e \in EgressConn
    BY ZenonT(40) DEF EgressConn, EgressPcs, EgressKinds, E!NoConn, E!Addrs, E!Creds
  <2>3. Fits(e, cfg.mode, cfg.plain, addrs, central)
    BY DEF Fits, E!NoConn
  <2>4. conn' = [conn EXCEPT ![c] = e]
    BY <2>1
  <2> HIDE DEF e
  <2> QED  BY <1>3, <2>2, <2>3, <2>4, MoveStep DEF E!SessionRoundTrip, E!policyVars
<1>4. ASSUME NEW cred \in E!Creds, E!SessionRequest(c, cred)
      PROVE  EgressInv'
  <2> DEFINE t == E!InForce
             e == [conn[c] EXCEPT !.pc = "subst", !.cred = cred, !.since = t,
                                  !.fresh = FALSE, !.told = FALSE, !.real = FALSE]
  <2>1. t \in Nat /\ t <= central /\ (cfg.mode # "decider" => t <= addrs)
    BY DEF E!InForce
  <2>2. conn' = [conn EXCEPT ![c].pc = "subst", ![c].cred = cred, ![c].since = t,
                             ![c].fresh = FALSE, ![c].told = FALSE, ![c].real = FALSE]
    BY <1>4 DEF E!SessionRequest
  <2> HIDE DEF t
  <2>3. conn' = [conn EXCEPT ![c] = e]
    BY <2>2 DEF EgressConn
  <2>4. e \in EgressConn
    BY <2>1, ZenonT(40) DEF EgressConn, EgressPcs
  <2>5. Fits(e, cfg.mode, cfg.plain, addrs, central)
    BY <2>1 DEF Fits, EgressConn
  <2> HIDE DEF e
  <2> QED  BY <1>4, <2>3, <2>4, <2>5, MoveStep DEF E!SessionRequest, E!policyVars
<1> QED  BY <1>1, <1>2, <1>3, <1>4

\* Every step of the part.
LEMMA EgressStep ==
    ASSUME EgressInv, E!Next
    PROVE  EgressInv'
<1>1. ASSUME NEW c \in Conns,
             \/ E!Step(c) \/ E!DeciderAnswers(c) \/ E!Dial(c) \/ E!Closes(c)
             \/ \E k \in {"http", "connect", "socks"}, h \in E!Hosts, cred \in E!Creds : E!Arrive(c, k, h, cred)
             \/ \E cred \in E!Creds : E!SessionRequest(c, cred)
      PROVE  EgressInv'
  BY <1>1, DecisionStep, DialStep, PlainStep, SessionStep DEF E!Step
<1>2. ASSUME NEW h \in E!Hosts, E!CacheExpires(h)
      PROVE  EgressInv'
  <2>1. E!NoVerdict \in EgressCache /\ ~E!NoVerdict.ok
    BY DEF E!NoVerdict, EgressCache
  <2>2. CacheTrue' /\ cache' \in [E!Hosts -> EgressCache]
    BY <1>2, <2>1 DEF E!CacheExpires, EgressInv, EgressTypes, CacheTrue
  <2> QED
    BY <1>2, <2>2 DEF E!CacheExpires, E!policyVars, EgressInv, EgressTypes, Versions, AllFit
<1>3. CASE E!LeafExpires \/ \E h \in E!Hosts : E!IdleCloses(h)
  BY <1>3 DEF E!LeafExpires, E!IdleCloses, E!policyVars, EgressInv, EgressTypes, Versions,
     AllFit, CacheTrue
<1>4. CASE E!PutPolicy \/ E!FetchPolicy \/ E!UpdateNames \/ E!UpdateAddrs
  <2>1. /\ UNCHANGED <<cfg, cache, conn>>
        /\ central' \in Nat /\ names' \in Nat /\ addrs' \in Nat /\ sync' \in Nat
        /\ addrs <= addrs' /\ central <= central' /\ Versions'
    BY <1>4 DEF E!PutPolicy, E!FetchPolicy, E!UpdateNames, E!UpdateAddrs, EgressInv,
       EgressTypes, Versions
  <2>2. AllFit'
    BY <2>1 DEF EgressInv, EgressTypes, AllFit, Fits, EgressConn
  <2> QED  BY <2>1, <2>2 DEF EgressInv, EgressTypes, CacheTrue
<1>5. CASE E!CloseServer
  <2>1. \A c \in Conns : conn'[c] = E!NoConn \/ conn'[c] = conn[c]
    BY <1>5 DEF E!CloseServer
  <2>2. conn' \in [Conns -> EgressConn]
    BY <1>5, NoConnFits DEF E!CloseServer, EgressInv, EgressTypes
  <2>3. AllFit'
    BY <1>5, <2>1, NoConnFits DEF E!CloseServer, E!policyVars, EgressInv, EgressTypes, AllFit
  <2> QED  BY <1>5, <2>2, <2>3 DEF E!CloseServer, E!policyVars, EgressInv, EgressTypes,
     Versions, CacheTrue
<1> QED  BY <1>1, <1>2, <1>3, <1>4, <1>5 DEF E!Next

-----------------------------------------------------------------------------
(* The parts together *)

\* A step of the service is a step of a part or leaves it alone.
LEMMA PartMoves ==
    ASSUME [Next]_vars
    PROVE  /\ E!Next \/ UNCHANGED evars
           /\ S!Next \/ UNCHANGED svars
           /\ I!Next \/ UNCHANGED ivars
           /\ C!Next \/ UNCHANGED cvars
           /\ D!Next \/ UNCHANGED dvars
BY DEF Next, vars

\* A part that is left alone keeps its invariant.
LEMMA PartRests ==
    /\ IdleInv /\ UNCHANGED ivars => IdleInv'
    /\ DirectInv /\ UNCHANGED dvars => DirectInv'
    /\ SidecarInv /\ UNCHANGED svars => SidecarInv'
    /\ CloudInv /\ UNCHANGED cvars => CloudInv'
    /\ EgressInv /\ UNCHANGED evars => EgressInv'
<1>1. IdleInv /\ UNCHANGED ivars => IdleInv'
  BY DEF IdleInv, IdleTypes, IdleAges, ReapedWhenIdle, I!ReapedWhenIdle, ivars
<1>2. DirectInv /\ UNCHANGED dvars => DirectInv'
  BY DEF DirectInv, DirectTypes, OneConnecting, Remembered, dvars
<1>3. SidecarInv /\ UNCHANGED svars => SidecarInv'
  BY DEF SidecarInv, SidecarTypes, Building, LeftOver, svars
<1>4. CloudInv /\ UNCHANGED cvars => CloudInv'
  BY DEF CloudInv, CloudTypes, CloudCommand, CloudKeys, CloudLeft, NoFalseSuccess,
     C!NoFalseSuccess, C!NothingLeft, C!Keyed, C!Stored, cvars
<1>5. EgressInv /\ UNCHANGED evars => EgressInv'
  BY DEF EgressInv, EgressTypes, Versions, CacheTrue, AllFit, evars
<1> QED  BY <1>1, <1>2, <1>3, <1>4, <1>5

\* A reaper that has picked a sandbox (ReapIdleSandboxes) picked one nobody had
\* used for its lifetime, less the interval in which a use is not written down:
\* for any number of servers, and lifetimes and intervals of any length.
THEOREM ReapsOnlyIdle == Spec => []ReapedWhenIdle
<1>1. IdleInv /\ [Next]_vars => IdleInv'
  BY IdleStep, PartMoves, PartRests
<1>2. IdleInv => ReapedWhenIdle
  BY DEF IdleInv
<1> QED  BY <1>1, <1>2, IdleInit, PTL DEF Spec

\* A server that deleted a directly connected machine does not let it in again
\* by itself (the tombstones of the delete handler and the agent's retries):
\* for any number of servers and connections, any window and any retry interval
\* such that the agent is not cut off for a whole window.
THEOREM StaysDeleted == Spec => []NotLetBackIn
<1>1. DirectInv /\ [Next]_vars => DirectInv'
  BY DirectStep, PartMoves, PartRests
<1>2. DirectInv => NotLetBackIn
  BY DEF DirectInv, NotLetBackIn, D!NotLetBackIn
<1> QED  BY <1>1, <1>2, DirectInit, PTL DEF Spec

\* What docker has of a sandbox with an egress policy fits the sandbox: a
\* running one has its sidecar, a deleted one has left nothing that the sweep
\* will not take: for any set of sandboxes and any number of docker errors.
THEOREM SidecarsFit == Spec => []EgressObjects
<1>1. SidecarInv /\ [Next]_vars => SidecarInv'
  BY SidecarStep, PartMoves, PartRests
<1> QED  BY <1>1, SidecarHolds, SidecarInit, PTL DEF Spec

\* ExecuteCommand returns exit 0 only for a command that succeeded, whichever
\* of the eight providers runs it, but for the scripts Azure cannot tell apart.
THEOREM SuccessIsTrue == Spec => []NoFalseSuccess
<1>1. CloudInv /\ [Next]_vars => CloudInv'
  BY CloudStep, PartMoves, PartRests
<1> QED  BY <1>1, CloudHolds, CloudInit, PTL DEF Spec

\* From CreateVM to DeleteVM the key of a machine whose id the caller has is
\* kept, over failed deletes and restarts, and a DeleteVM without error leaves
\* neither resources the cloud would have removed nor the key: for every
\* provider, any number of calls and of faults.
THEOREM MachinesKept == Spec => []MachinesAccounted
<1>1. CloudInv /\ [Next]_vars => CloudInv'
  BY CloudStep, PartMoves, PartRests
<1> QED  BY <1>1, CloudHolds, CloudInit, PTL DEF Spec

\* A tunnel, or a request on a connection dialled for it, reaches only a name
\* and an address that policies at least as new as the one in force when the
\* client asked permit, also while the sync loop replaces the two stores one
\* after the other, the decider's verdicts are cached and DNS answers anew:
\* for any number of connections and any sequence of policies.
THEOREM ReachesOnlyPermitted == Spec => []OnlyPermitted
<1>1. EgressInv /\ [Next]_vars => EgressInv'
  BY EgressStep, PartMoves, PartRests
<1> QED  BY <1>1, EgressHolds, EgressInit, PTL DEF Spec

\* A real credential goes out only in a terminated session after its use was
\* recorded, or in cleartext where the operator asked for that: whatever the
\* requests before it on the same session, and whatever policies change.
THEOREM MaskingHolds == Spec => []CredentialsStayMasked
<1>1. EgressInv /\ [Next]_vars => EgressInv'
  BY EgressStep, PartMoves, PartRests
<1> QED  BY <1>1, EgressHolds, EgressInit, PTL DEF Spec
=============================================================================
