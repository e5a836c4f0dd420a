------------------------------- MODULE Egress -------------------------------
(***************************************************************************)
(* The egress proxy (pkg/egress) as an agent runs it (cmd/agent): what a   *)
(* sandboxed process may reach, decided per connection under a policy that *)
(* is replaced while connections are being made.                           *)
(*                                                                         *)
(* Three kinds of client connection: a forwarded plain HTTP request, a     *)
(* CONNECT and a SOCKS connect.  A CONNECT to a host whose TLS is          *)
(* terminated becomes a session that carries requests of its own.  A       *)
(* request passes a decision about the name, a check of the address it     *)
(* resolves to, and the dial; the transport decides again before it dials  *)
(* and does neither when it reuses a connection.                           *)
(*                                                                         *)
(* Policies are numbered: central is the control plane's newest, names and *)
(* addrs are those the running server decides names and addresses by.      *)
(* They are two stores, written one after the other.  Version 0 denies     *)
(* everything.                                                             *)
(*                                                                         *)
(* Data: api is a name, terminated where masking is on; lit is the literal *)
(* of an address this proxy does not reach unless a policy allows it by    *)
(* that literal.  DNS may answer anything, each time anew.                 *)
(* History, as fields of a connection: since, the policy in force when its *)
(* request came; hv and av, the policies its name and address were decided *)
(* by; fresh, whether it was dialled for this request; told, whether the   *)
(* use of a credential is recorded.                                        *)
(***************************************************************************)
EXTENDS Integers, Sequences

CONSTANTS Conns,        \* client connections
          Policies      \* policy versions 1, 2, ...: [allow, deny, cidr]

Hosts == {"api", "lit"}
Addrs == {"public", "inner", "local"}

VARIABLES cfg, central, names, addrs, sync, cache, leaf, conn, pool, up

vars == <<cfg, central, names, addrs, sync, cache, leaf, conn, pool, up>>

policyVars == <<central, names, addrs, sync>>

-----------------------------------------------------------------------------
(* The policy *)

DenyAll == [allow |-> {}, deny |-> {}, cidr |-> {}]

Policy(v) == IF v = 0 THEN DenyAll ELSE Policies[v]

\* Deny rules first, then allow rules, else no.
Decide(v, h) == h \notin Policy(v).deny /\ h \in Policy(v).allow

AllowsLiteral(v, h) == h = "lit" /\ h \in Policy(v).allow

\* Loopback, link-local, metadata and the host's own addresses.
BlockedClass == {"local"}

CheckAddr(v, a) == a \notin BlockedClass /\ a \notin Policy(v).cidr

\* The addresses one resolution leaves to dial; the first that passes is taken.
Vetted(v, h, answer) ==
    IF h = "lit"
    THEN {a \in {"local"} : AllowsLiteral(v, h) \/ CheckAddr(v, a)}
    ELSE {a \in answer : CheckAddr(v, a)}

-----------------------------------------------------------------------------
(* Start: a policy that is synchronised (a local one is a synchronised one *)
(* that never changes), or a decider.  Masking needs termination; the      *)
(* decider is started without either.                                      *)

Modes == {"server", "decider"}

\* Cleartext is a setting of the masker.
MaskOptions == {c \in [mode : Modes, mask : BOOLEAN, plain : BOOLEAN] : c.plain => c.mask}

StartOptions == {c \in MaskOptions : c.mode = "decider" => ~c.mask}

Terminating(h) == cfg.mask /\ h = "api"

NoVerdict == [ok |-> FALSE, allow |-> FALSE, v |-> 0]

NoConn == [pc |-> "idle", kind |-> "none", host |-> "api", cred |-> "none", addr |-> "none",
           up |-> "none", since |-> 0, hv |-> 0, av |-> 0, fresh |-> FALSE, real |-> FALSE, told |-> FALSE]

-----------------------------------------------------------------------------
(* Decisions *)

\* The newest policy whose update is complete: what a new connection meets.
InForce == IF cfg.mode = "decider" THEN central
           ELSE IF names < addrs THEN names ELSE addrs

\* What a client can send: a placeholder that can be replaced, the key of a
\* SigV4 request, or one that must not be replaced: in a body too large, or in
\* the body of a signed request.
Creds == {"none", "masked", "signed", "unfit"}

Refused(c) ==
    conn' = [conn EXCEPT ![c] = IF @.kind # "session" THEN NoConn ELSE
                [NoConn EXCEPT !.pc = "session", !.kind = "session",
                               !.host = conn[c].host, !.up = conn[c].up]]

Goes(c, pc) == conn' = [conn EXCEPT ![c].pc = pc]

\* A client connects and shows the token; without it, or with a request the
\* proxy does not understand, it is answered at once and nothing changes.
Arrive(c, k, h, cred) ==
    /\ up /\ conn[c].pc = "idle"
    /\ cred \in {"none"} \cup (IF cfg.mask /\ k = "http" THEN {"masked"} ELSE {})
    /\ conn' = [conn EXCEPT ![c] = [NoConn EXCEPT
          !.pc = "decide", !.kind = k, !.host = h, !.cred = cred, !.since = InForce]]
    /\ UNCHANGED <<cfg, policyVars, cache, leaf, pool, up>>

\* Where an allowed request goes next: plain HTTP to the transport, a
\* terminated CONNECT to its certificate, everything else to the dialer.
Allowed(c, v) ==
    conn' = [conn EXCEPT ![c].hv = v, ![c].pc =
        IF conn[c].pc \in {"redecide", "reask"} THEN "vet"
        ELSE IF conn[c].kind = "http" THEN "forward"
        ELSE IF conn[c].kind = "connect" /\ Terminating(conn[c].host) THEN "mint"
        ELSE "vet"]

Verdict(c, v) == IF Decide(v, conn[c].host) THEN Allowed(c, v) ELSE Refused(c)

Deciding(c) == conn[c].pc \in {"decide", "redecide"}

DecideLocal(c) ==
    /\ Deciding(c) /\ cfg.mode # "decider"
    /\ Verdict(c, names)
    /\ UNCHANGED <<cfg, policyVars, cache, leaf, pool, up>>

\* The decider's verdict is cached; a stale one is as old as its entry.
DecideCached(c) ==
    LET e == cache[conn[c].host] IN
    /\ Deciding(c) /\ cfg.mode = "decider" /\ e.ok
    /\ IF ~e.allow THEN Refused(c)
       ELSE conn' = [conn EXCEPT ![c].hv = e.v, ![c].since = IF @ > e.v THEN e.v ELSE @,
                                 ![c].pc = IF conn[c].pc = "decide" /\ conn[c].kind = "http"
                                           THEN "forward" ELSE "vet"]
    /\ UNCHANGED <<cfg, policyVars, cache, leaf, pool, up>>

DecideAsks(c) ==
    /\ Deciding(c) /\ cfg.mode = "decider" /\ ~cache[conn[c].host].ok
    /\ Goes(c, IF conn[c].pc = "decide" THEN "ask" ELSE "reask")
    /\ UNCHANGED <<cfg, policyVars, cache, leaf, pool, up>>

\* The control plane answers by the policy of the sandbox's record, and the
\* answer is kept for ten seconds.
DeciderAnswers(c) ==
    LET h == conn[c].host IN
    /\ conn[c].pc \in {"ask", "reask"}
    /\ Verdict(c, central)
    /\ cache' = [cache EXCEPT ![h] = [ok |-> TRUE, allow |-> Decide(central, h), v |-> central]]
    /\ UNCHANGED <<cfg, policyVars, leaf, pool, up>>

\* No answer in time, or an error: refused, and not cached.
DeciderFails(c) ==
    /\ conn[c].pc \in {"ask", "reask"}
    /\ Refused(c)
    /\ UNCHANGED <<cfg, policyVars, cache, leaf, pool, up>>

CacheExpires(h) ==
    /\ cache[h].ok
    /\ cache' = [cache EXCEPT ![h] = NoVerdict]
    /\ UNCHANGED <<cfg, policyVars, leaf, conn, pool, up>>

-----------------------------------------------------------------------------
(* The dial *)

\* The name is resolved; no answer, or none that passes, refuses.
Vet(c) ==
    /\ conn[c].pc = "vet"
    /\ \E answer \in SUBSET Addrs :
          LET ok == Vetted(addrs, conn[c].host, answer) IN
          IF ok = {} THEN Refused(c)
          ELSE \E a \in ok :
                conn' = [conn EXCEPT ![c].pc = "dial", ![c].addr = a, ![c].av = addrs,
                                     ![c].fresh = TRUE]
    /\ UNCHANGED <<cfg, policyVars, cache, leaf, pool, up>>

\* Mutant of Dial: the dialer is given the name and resolves it once more.
DialByName(c) ==
    /\ conn[c].pc = "dial"
    /\ \E a \in Addrs :
       conn' = [conn EXCEPT ![c].addr = a,
          ![c].pc = IF conn[c].kind \in {"http", "session"} THEN "send" ELSE "open"]
    /\ UNCHANGED <<cfg, policyVars, cache, leaf, pool, up>>

\* The vetted address itself is dialled.  A tunnel is spliced; a request of the
\* transport goes out on the new connection.
Dial(c) ==
    /\ conn[c].pc = "dial"
    /\ Goes(c, IF conn[c].kind \in {"http", "session"} THEN "send" ELSE "open")
    /\ UNCHANGED <<cfg, policyVars, cache, leaf, pool, up>>

\* Unreachable, or for a terminated session a certificate that is not the host's.
DialFails(c) ==
    /\ conn[c].pc = "dial"
    /\ Refused(c)
    /\ UNCHANGED <<cfg, policyVars, cache, leaf, pool, up>>

-----------------------------------------------------------------------------
(* Plain HTTP *)

\* The transport uses an idle connection of the host, or decides and dials.
Transport(c, real) ==
    conn' = [conn EXCEPT ![c].cred = "none", ![c].real = real,
                         ![c].pc = IF conn[c].host \in pool THEN "send" ELSE "redecide"]

\* Mutant of Forward: placeholders are always replaced.
ForwardReplaces(c) ==
    /\ conn[c].pc = "forward"
    /\ Transport(c, conn[c].cred = "masked")
    /\ UNCHANGED <<cfg, policyVars, cache, leaf, pool, up>>

\* A placeholder in a header is refused, or replaced where the operator allowed
\* cleartext; the body is not looked at.
Forward(c) ==
    /\ conn[c].pc = "forward"
    /\ IF conn[c].cred = "masked" /\ ~cfg.plain THEN Refused(c)
       ELSE Transport(c, conn[c].cred = "masked")
    /\ UNCHANGED <<cfg, policyVars, cache, leaf, pool, up>>

\* The request goes out and its answer comes back; the connection stays idle
\* in the pool.
RoundTrip(c) ==
    /\ conn[c].kind = "http" /\ conn[c].pc = "send"
    /\ pool' = pool \cup {conn[c].host}
    /\ conn' = [conn EXCEPT ![c] = NoConn]
    /\ UNCHANGED <<cfg, policyVars, cache, leaf, up>>

IdleCloses(h) ==
    /\ h \in pool /\ pool' = pool \ {h}
    /\ UNCHANGED <<cfg, policyVars, cache, leaf, conn, up>>

-----------------------------------------------------------------------------
(* Terminated sessions *)

\* The leaf for the host is minted once and kept; when it has expired the client
\* gives up, until the process restarts.
LeafFor(c) ==
    /\ conn[c].pc = "mint"
    /\ leaf' = IF leaf = "none" THEN "valid" ELSE leaf
    /\ IF leaf = "expired" THEN Refused(c)
       ELSE conn' = [conn EXCEPT ![c].pc = "session", ![c].kind = "session"]
    /\ UNCHANGED <<cfg, policyVars, cache, pool, up>>

LeafExpires ==
    /\ leaf = "valid" /\ leaf' = "expired"
    /\ UNCHANGED <<cfg, policyVars, cache, conn, pool, up>>

\* A request inside the session; the server Close leaves sessions alone.
SessionRequest(c, cred) ==
    /\ conn[c].pc = "session"
    /\ conn' = [conn EXCEPT ![c].pc = "subst", ![c].cred = cred, ![c].since = InForce,
                            ![c].fresh = FALSE, ![c].told = FALSE, ![c].real = FALSE]
    /\ UNCHANGED <<cfg, policyVars, cache, leaf, pool, up>>

\* The session's own connection is used again, or a new one is dialled.
SessionTransport(c, told) ==
    conn' = [conn EXCEPT ![c].cred = "none", ![c].real = conn[c].cred # "none",
                         ![c].told = told,
                         ![c].pc = IF conn[c].up # "none" THEN "send" ELSE "redecide"]

\* A signed request without its date cannot be signed again.
ResignFails(cred) == cred = "signed"

\* Headers and body are rewritten, a SigV4 request is signed again; a body too
\* large, a signed request whose body changed and one without its date are
\* refused.  The use is recorded before anything leaves.
ServeTerminated(c) ==
    /\ conn[c].pc = "subst"
    /\ \/ (conn[c].cred = "unfit" \/ ResignFails(conn[c].cred)) /\ Refused(c)
       \/ conn[c].cred # "unfit" /\ SessionTransport(c, TRUE)
    /\ UNCHANGED <<cfg, policyVars, cache, leaf, pool, up>>

\* The answer comes back; the upstream connection stays with the session, or
\* has been closed by the server.
SessionRoundTrip(c) ==
    /\ conn[c].kind = "session" /\ conn[c].pc = "send"
    /\ \E keep \in BOOLEAN :
          conn' = [conn EXCEPT ![c] = [NoConn EXCEPT
                !.pc = "session", !.kind = "session", !.host = conn[c].host,
                !.up = IF keep THEN conn[c].addr ELSE "none"]]
    /\ UNCHANGED <<cfg, policyVars, cache, leaf, pool, up>>

\* A tunnel or a session ends when a side closes.
Closes(c) ==
    /\ conn[c].pc \in {"open", "session"}
    /\ conn' = [conn EXCEPT ![c] = NoConn]
    /\ UNCHANGED <<cfg, policyVars, cache, leaf, pool, up>>

-----------------------------------------------------------------------------
(* The policy changes *)

\* PUT or DELETE of the sandbox's policy on the control plane.
PutPolicy ==
    /\ central < Len(Policies)
    /\ central' = central + 1
    /\ UNCHANGED <<cfg, names, addrs, sync, cache, leaf, conn, pool, up>>

\* The sync loop fetches: no answer, a sandbox not known yet and a policy that
\* does not parse keep what is there; so does the policy applied last.
FetchPolicy ==
    /\ cfg.mode = "server" /\ sync = 0 /\ central > addrs
    /\ sync' = central
    /\ UNCHANGED <<cfg, central, names, addrs, cache, leaf, conn, pool, up>>

UpdateNames ==
    /\ sync > names
    /\ names' = sync
    /\ UNCHANGED <<cfg, central, addrs, sync, cache, leaf, conn, pool, up>>

UpdateAddrs ==
    /\ sync > 0 /\ names = sync
    /\ addrs' = sync /\ sync' = 0
    /\ UNCHANGED <<cfg, central, names, cache, leaf, conn, pool, up>>

\* Close ends the listeners, the idle connections and the handlers that have not
\* taken over their connection; tunnels, sessions and SOCKS go on.
CloseServer ==
    /\ up /\ up' = FALSE
    /\ pool' = {}
    /\ conn' = [c \in Conns |-> IF \/ conn[c].kind = "http"
                                   \/ conn[c].kind = "connect" /\ conn[c].pc # "open"
                                THEN NoConn ELSE conn[c]]
    /\ UNCHANGED <<cfg, policyVars, cache, leaf>>

-----------------------------------------------------------------------------
Init ==
    /\ cfg \in StartOptions
    /\ central = 1 /\ sync = 0
    /\ names = 0 /\ addrs = 0
    /\ cache = [h \in Hosts |-> NoVerdict]
    /\ leaf = "none" /\ pool = {} /\ up = TRUE
    /\ conn = [c \in Conns |-> NoConn]

Step(c) ==
    \/ DecideLocal(c) \/ DecideCached(c) \/ DecideAsks(c) \/ DeciderFails(c)
    \/ Vet(c) \/ DialFails(c) \/ Forward(c) \/ RoundTrip(c)
    \/ LeafFor(c) \/ ServeTerminated(c) \/ SessionRoundTrip(c)

Next ==
    \/ \E c \in Conns :
          \/ Step(c) \/ DeciderAnswers(c) \/ Dial(c) \/ Closes(c)
          \/ \E k \in {"http", "connect", "socks"}, h \in Hosts, cred \in Creds : Arrive(c, k, h, cred)
          \/ \E cred \in Creds : SessionRequest(c, cred)
    \/ \E h \in Hosts : CacheExpires(h) \/ IdleCloses(h)
    \/ LeafExpires \/ PutPolicy \/ FetchPolicy \/ UpdateNames \/ UpdateAddrs \/ CloseServer

\* A handler runs on; what it waits for has a timeout.
Fairness == \A c \in Conns : WF_vars(Step(c))

Spec == Init /\ [][Next]_vars /\ Fairness

-----------------------------------------------------------------------------
(* Properties *)

\* A tunnel, or a request on a connection dialled for it, reaches only what the
\* policy permits: the name allowed by a policy at least as new as the one in
\* force when the client asked (the cached verdict's age aside), and the address
\* actually dialled passed by the address rules of one at least as new.
OnlyPermitted ==
    \A c \in Conns :
        LET k == conn[c] IN
        (k.pc \in {"open", "send"} /\ k.fresh) =>
            /\ k.hv >= k.since /\ Decide(k.hv, k.host)
            /\ cfg.mode # "decider" => k.av >= k.since
            /\ k.addr \in BlockedClass => k.host = "lit"
            /\ k.host # "lit" => k.addr \notin Policy(k.av).cidr

\* A real credential leaves only over a verified connection of a terminated
\* session and after its use was recorded, or in cleartext where the operator
\* asked for that.
CredentialsStayMasked ==
    \A c \in Conns :
        conn[c].pc = "send" /\ conn[c].real =>
            IF conn[c].kind = "session" THEN conn[c].told ELSE cfg.plain

\* Every request is answered, or becomes a tunnel.
Answered ==
    \A c \in Conns : conn[c].pc \notin {"idle", "open", "session"}
                        ~> conn[c].pc \in {"idle", "open", "session"}
=============================================================================
