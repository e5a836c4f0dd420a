------------------------------- MODULE Tools -------------------------------
(***************************************************************************)
(* What the MCP bridge shows of its servers and how a call finds its way   *)
(* (pkg/mcpbridge: manager.go from AggregatedTools to DispatchResource,    *)
(* Child.CallTool, ReadResource and GetPrompt, aggregator.go): tools,      *)
(* prompts, resources and resource templates of all servers appear under   *)
(* bridged names, an index leads back, and Shutdown waits for the calls    *)
(* under way.  Bridge has the life of one server; here servers only come   *)
(* and go.                                                                 *)
(*                                                                         *)
(* A name is the sequence of its parts: what "__" joins in the name of a   *)
(* tool or prompt, what "://" and "/" separate in a URI.                   *)
(*                                                                         *)
(*   kid    per server, its registered Child: which one, whether it is     *)
(*          ready, what it exposes; gen 0 if there is none                 *)
(*   index  fqIndex, uriIndex and promptIndex                              *)
(*   sync   the aggregator's callbacks, one per rebuilt index: whether one *)
(*          has yet to read, and the listings read but not yet written     *)
(*   shown  the listing the MCP server answers with                        *)
(*   req    the calls                                                      *)
(*   drain  Shutdown: its step, the children still to wait for, the ones   *)
(*          reported                                                       *)
(* History: moves, the changes of children so far, kept under the bound;   *)
(* overlap, two callbacks have read before either wrote; in req, whether a *)
(* call was in flight when Shutdown began and whether Shutdown cut it.     *)
(***************************************************************************)
EXTENDS Integers, Sequences, FiniteSets

CONSTANTS Words,      \* the parts of names
          Order,      \* the servers in alphabetical order
          AliasOf,    \* their aliases
          Offers,     \* per server, what a new child of it may offer
          Hidden,     \* per server, what a denylist names or an allowlist leaves out
          Reqs,       \* the calls
          MaxMoves    \* bound on changes of children

VARIABLES kid, index, sync, shown, req, drain, moves, overlap

vars == <<kid, index, sync, shown, req, drain, moves, overlap>>

Names   == Seq(Words)
Things  == [kind : {"tool", "prompt", "resource", "template"}, name : Names, ui : Names]
Servers == {Order[i] : i \in DOMAIN Order}
Before(s, t) == \E i, j \in DOMAIN Order : i < j /\ Order[i] = s /\ Order[j] = t
Gone    == [gen |-> 0, ready |-> FALSE, has |-> {}]
NoReq   == [pc |-> "free", kind |-> "tool", ui |-> <<>>, srv |-> <<>>, gen |-> 0,
            name |-> <<>>, early |-> FALSE, cut |-> FALSE]

-----------------------------------------------------------------------------
(* Names *)

\* Where `part` first occurs in u, or 0: strings.Cut.
First(u, part) ==
    IF \E i \in DOMAIN u : u[i] = part
    THEN CHOOSE i \in DOMAIN u : u[i] = part /\ \A j \in 1 .. i - 1 : u[j] # part
    ELSE 0

\* The alias goes in front of a name.
FullyQualifiedName(a, name) == a \o name

\* ... and into the authority of a URI; a URI without one is wrapped.
FullyQualifiedURI(a, u) ==
    LET i == First(u, "://")
    IN  IF i > 0 /\ SubSeq(u, 1, i - 1) # <<"sandrpod">>
        THEN SubSeq(u, 1, i) \o a \o <<"/">> \o SubSeq(u, i + 1, Len(u))
        ELSE <<"sandrpod", "://">> \o a \o <<"/">> \o u

\* The way back: the alias and the URI the server knows, or nothing.
SplitQualifiedURI(fq) ==
    LET i == First(fq, "://")
        rest == SubSeq(fq, i + 1, Len(fq))
        j == First(rest, "/")
        tail == SubSeq(rest, j + 1, Len(rest))
    IN  IF i = 0 \/ j <= 1 THEN {}
        ELSE {[alias |-> SubSeq(rest, 1, j - 1),
               uri |-> IF SubSeq(fq, 1, i - 1) = <<"sandrpod">> THEN tail
                       ELSE SubSeq(fq, 1, i) \o tail]}

\* The name a thing of a server appears under.
Bridged(s, th) ==
    IF th.kind \in {"tool", "prompt"} THEN FullyQualifiedName(AliasOf[s], th.name)
    ELSE FullyQualifiedURI(AliasOf[s], th.name)

\* What a host makes of a template, and what the template's pattern matches.
Expand(u) == [i \in DOMAIN u |-> IF u[i] = "{}" THEN "x" ELSE u[i]]
TemplateMatches(u, v) ==
    Len(u) = Len(v) /\ \A i \in DOMAIN u : u[i] = v[i] \/ (u[i] = "{}" /\ v[i] # "/")

-----------------------------------------------------------------------------
(* The index and the listing *)

Ready(k) == {s \in Servers : k[s].ready}

\* The lists are by name; there is none for templates.
Denied(s, kind, name) == \E h \in Hidden[s] : h.kind = kind /\ h.name = name

\* filterTools, filterResources, filterPrompts: what a child keeps of what its
\* server lists.
Filter(s, offer) == {th \in offer : ~Denied(s, th.kind, th.name)}

\* rebuildIndexLocked: the first server with a name gets it, a later one a
\* name with a suffix.  Templates are not indexed.
RebuildIndex(k) ==
    LET Taken(s, th) == \E t \in Ready(k) : /\ Before(t, s)
                                            /\ \E h \in k[t].has : /\ h.kind = th.kind
                                                                   /\ Bridged(t, h) = Bridged(s, th)
    IN  UNION {{[kind |-> th.kind, srv |-> s, name |-> th.name,
                 fq |-> Bridged(s, th) \o IF Taken(s, th) THEN <<"from", s>> ELSE <<>>] :
                   th \in {h \in k[s].has : h.kind # "template"}} : s \in Ready(k)}

\* AggregatedTools, AggregatedPrompts, AggregatedResources and
\* AggregatedResourceTemplates as the MCP server keeps them, by name: the last
\* of two servers with a name is shown.  A tool that has an interface shows
\* its bridged URI.
Listing(k) ==
    LET Later(s, th) == \E t \in Ready(k) : /\ Before(s, t)
                                            /\ \E h \in k[t].has : /\ h.kind = th.kind
                                                                   /\ Bridged(t, h) = Bridged(s, th)
    IN  UNION {{[kind |-> th.kind, srv |-> s, fq |-> Bridged(s, th),
                 ui |-> IF th.ui = <<>> THEN <<>> ELSE FullyQualifiedURI(AliasOf[s], th.ui)] :
                   th \in {h \in k[s].has : ~Later(s, h)}} : s \in Ready(k)}

-----------------------------------------------------------------------------
(* Children come and go *)

\* Mutant of Rebuild: a change of the index tells nobody.
RebuildSilent(k) ==
    /\ moves < MaxMoves /\ moves' = moves + 1
    /\ kid' = k
    /\ index' = RebuildIndex(k)
    /\ UNCHANGED sync

\* Under m.mu: the children become k, the index is rebuilt and a callback of
\* the aggregator started.
Rebuild(k) ==
    /\ moves < MaxMoves /\ moves' = moves + 1
    /\ kid' = k
    /\ index' = RebuildIndex(k)
    /\ sync' = [sync EXCEPT !.due = TRUE]

\* Before the servers are started, or when all are up.
Init ==
    /\ \/ kid = [s \in Servers |-> Gone]
       \/ \E offer \in [Servers -> UNION {Offers[s] : s \in Servers}] :
             /\ \A s \in Servers : offer[s] \in Offers[s]
             /\ kid = [s \in Servers |-> [gen |-> 1, ready |-> TRUE, has |-> Filter(s, offer[s])]]
    /\ index = RebuildIndex(kid)
    /\ sync = [due |-> FALSE, read |-> {}]
    /\ shown = Listing(kid)
    /\ req = [r \in Reqs |-> NoReq]
    /\ drain = [pc |-> "up", left |-> {}, late |-> {}]
    /\ moves = 0 /\ overlap = FALSE

\* A reload, a restart or the supervisor replaces a child with one that comes
\* up.
Replace(s) ==
    /\ drain.pc # "down"
    /\ \E o \in Offers[s] :
          Rebuild([kid EXCEPT ![s] = [gen |-> moves + 2, ready |-> TRUE, has |-> Filter(s, o)]])
    /\ UNCHANGED <<shown, req, drain, overlap>>

\* DisableServer; a replacement that fails to come up is as good as none.
Disable(s) ==
    /\ drain.pc # "down" /\ kid[s].gen # 0
    /\ Rebuild([kid EXCEPT ![s] = Gone])
    /\ UNCHANGED <<shown, req, drain, overlap>>

\* The aggregator's callback reads the children, and later replaces what is
\* shown.  Each kind is read under a lock of its own; a call is about one.
SyncReads ==
    /\ sync.due
    /\ sync' = [due |-> FALSE, read |-> sync.read \cup {Listing(kid)}]
    /\ overlap' = (overlap \/ sync.read # {})
    /\ UNCHANGED <<kid, index, shown, req, drain, moves>>

SyncWrites ==
    /\ \E list \in sync.read : /\ sync' = [sync EXCEPT !.read = @ \ {list}]
                               /\ shown' = list
    /\ UNCHANGED <<kid, index, req, drain, moves, overlap>>

-----------------------------------------------------------------------------
(* Calls *)

Move(r, from, upd) ==
    /\ req[r].pc = from /\ req' = [req EXCEPT ![r] = upd]
    /\ UNCHANGED <<kid, index, sync, shown, drain, moves, overlap>>

Finished == [NoReq EXCEPT !.pc = "done"]

\* What a host can ask for: a tool, a prompt or a resource it is shown, an
\* expansion of a template, or the interface of a tool.
Asks ==
    {[kind |-> IF e.kind = "template" THEN "resource" ELSE e.kind, fq |-> Expand(e.fq), ui |-> <<>>] :
        e \in shown}
    \cup {[kind |-> "resource", fq |-> e.ui, ui |-> <<e.srv>>] : e \in {f \in shown : f.ui # <<>>}}

\* The child a URI that is in no index leads to: the first ready one that has
\* the alias in the URI, and templates.
ByAlias(fq) ==
    LET fits == {s \in Ready(kid) : /\ \E p \in SplitQualifiedURI(fq) : p.alias = AliasOf[s]
                                    /\ \E th \in kid[s].has : th.kind = "template"}
    IN  {s \in fits : \A t \in fits : ~Before(t, s)}

\* Where a request leads: DispatchResource tries the alias when the index has
\* no entry.
Targets(a) ==
    LET hits == {e \in index : e.kind = a.kind /\ e.fq = a.fq}
    IN  IF hits # {} \/ a.kind # "resource" THEN {[srv |-> e.srv, name |-> e.name] : e \in hits}
        ELSE {[srv |-> s, name |-> p.uri] : s \in ByAlias(a.fq), p \in SplitQualifiedURI(a.fq)}

\* Dispatch, DispatchPrompt and DispatchResource: the target is looked up under
\* the lock, then the permission gate decides.
Dispatch(r) ==
    \E a \in Asks :
       \/ Move(r, "free", Finished)
       \/ \E t \in Targets(a) :
             Move(r, "free", [pc |-> "call", kind |-> a.kind, ui |-> a.ui, srv |-> <<t.srv>>,
                              gen |-> kid[t.srv].gen, name |-> t.name, early |-> FALSE, cut |-> FALSE])

\* The Child the call holds, which may have been stopped meanwhile.
Mine(r) ==
    LET k == kid[req[r].srv[1]] IN IF k.gen = req[r].gen THEN k ELSE Gone

Known(r) ==
    \E th \in Mine(r).has :
       \/ th.kind = req[r].kind /\ th.name = req[r].name
       \/ th.kind = "template" /\ req[r].kind = "resource" /\ TemplateMatches(th.name, req[r].name)

\* CallTool, ReadResource, GetPrompt: the child must be ready and expose it.
CallChecks(r) ==
    IF req[r].pc = "call" /\ Mine(r).ready /\ Known(r)
    THEN Move(r, "call", [req[r] EXCEPT !.pc = "count"])
    ELSE Move(r, "call", Finished)

\* inFlight.Add, and the request goes out.
CallBegins(r) == Move(r, "count", [req[r] EXCEPT !.pc = "flying"])

Out(r) == req[r].pc = "flying"

\* The server answers, or its transport is closed, or the host gives up.
Answers(r) == Move(r, "flying", Finished) /\ Mine(r).ready
Breaks(r)  == Move(r, "flying", Finished) /\ ~Mine(r).ready
Leaves(r)  == Move(r, "flying", Finished)

-----------------------------------------------------------------------------
(* Shutdown *)

InFlight(s, g) == {r \in Reqs : req[r].pc = "flying" /\ req[r].srv = <<s>> /\ req[r].gen = g}

\* The children to wait for are read once.
ShutdownBegins ==
    /\ drain.pc = "up"
    /\ drain' = [pc |-> "drain", left |-> {<<s, kid[s].gen>> : s \in {t \in Servers : kid[t].gen # 0}},
                 late |-> {}]
    /\ req' = [r \in Reqs |-> [req[r] EXCEPT !.early = Out(r) /\ Mine(r).gen # 0]]
    /\ UNCHANGED <<kid, index, sync, shown, moves, overlap>>

\* Mutant of WaitDrain: the calls in flight are not waited for.
WaitDrainNever ==
    /\ drain.pc = "drain"
    /\ \E c \in drain.left : drain' = [drain EXCEPT !.left = @ \ {c}]
    /\ UNCHANGED <<kid, index, sync, shown, req, moves, overlap>>

\* WaitDrain returns for a child without calls in flight.
WaitDrain ==
    /\ drain.pc = "drain"
    /\ \E c \in drain.left : InFlight(c[1], c[2]) = {} /\ drain' = [drain EXCEPT !.left = @ \ {c}]
    /\ UNCHANGED <<kid, index, sync, shown, req, moves, overlap>>

\* drainTimeout: every child with calls in flight is reported.
DrainTimeout ==
    /\ drain.pc = "drain" /\ drain.left # {}
    /\ drain' = [drain EXCEPT !.left = {}, !.late = {c \in drain.left : InFlight(c[1], c[2]) # {}}]
    /\ UNCHANGED <<kid, index, sync, shown, req, moves, overlap>>

\* All children are stopped, drained or not.
ShutdownEnds ==
    /\ drain.pc = "drain" /\ drain.left = {}
    /\ drain' = [drain EXCEPT !.pc = "down"]
    /\ req' = [r \in Reqs |-> [req[r] EXCEPT !.cut = Out(r) /\ Mine(r).ready]]
    /\ kid' = [s \in Servers |-> Gone]
    /\ index' = {}
    /\ UNCHANGED <<sync, shown, moves, overlap>>

-----------------------------------------------------------------------------

Steps(r) == CallChecks(r) \/ CallBegins(r) \/ Breaks(r)
Syncs    == SyncReads \/ SyncWrites
Drains   == WaitDrain \/ DrainTimeout \/ ShutdownEnds

Next ==
    \/ \E s \in Servers : Replace(s) \/ Disable(s)
    \/ Syncs \/ Drains \/ ShutdownBegins
    \/ \E r \in Reqs : Dispatch(r) \/ Steps(r) \/ Answers(r) \/ Leaves(r)

\* The code's own steps are taken; servers need not answer.
Fairness ==
    /\ \A r \in Reqs : WF_vars(Steps(r))
    /\ WF_vars(Syncs) /\ WF_vars(Drains)

Spec == Init /\ [][Next]_vars /\ Fairness

-----------------------------------------------------------------------------
(* What the configuration and the servers owe: the code checks none of it *)

\* The alias of a server is its own and has no "/" in it.
AliasesApart ==
    /\ \A s \in Servers : \A i \in DOMAIN AliasOf[s] : AliasOf[s][i] # "/"
    /\ \A s, t \in Servers : AliasOf[s] = AliasOf[t] => s = t

\* No name ends like one that got a suffix.
SuffixesApart ==
    \A s, t \in Servers : \A o \in Offers[s] : \A th \in o :
        th.kind # "template" =>
            LET fq == Bridged(s, th)
            IN  ~(Len(fq) > 1 /\ fq[Len(fq) - 1] = "from" /\ fq[Len(fq)] = t)

\* No template matches a resource that is denied.
TemplatesApart ==
    \A s \in Servers : \A o \in Offers[s] : \A th \in o : \A h \in Hidden[s] :
        th.kind = "template" /\ h.kind = "resource" => ~TemplateMatches(th.name, h.name)

NamesApart == AliasesApart /\ SuffixesApart /\ TemplatesApart

-----------------------------------------------------------------------------
(* Properties *)

\* Every tool, prompt and resource of a ready server is in the index, once.
Indexed ==
    \A s \in Ready(kid) : \A th \in kid[s].has :
        th.kind # "template" =>
            Cardinality({e \in index : e.kind = th.kind /\ e.srv = s /\ e.name = th.name}) = 1

\* The way back from the bridged URI of a resource or a template is exact.
WayBack ==
    \A s \in Ready(kid) : \A th \in kid[s].has :
        th.kind \in {"resource", "template"} =>
            SplitQualifiedURI(Bridged(s, th)) = {[alias |-> AliasOf[s], uri |-> th.name]}

\* A bridged name stands for one thing.
OneMeaning == \A e, f \in index : e.kind = f.kind /\ e.fq = f.fq => e = f

\* Nothing a denylist names is called.
NothingDenied == \A r \in Reqs : Out(r) => ~Denied(req[r].srv[1], req[r].kind, req[r].name)

\* The interface of a tool is read from the server the tool is from.
InterfaceOwn == \A r \in Reqs : Out(r) /\ req[r].ui # <<>> => req[r].srv = req[r].ui

\* Every tool, prompt and resource of a ready server can be called under one
\* name of its own; the way back from a URI is exact; a call reaches only what
\* the server exposes and the denylists leave; and the interface of a tool
\* leads to the server the tool is from.
Routed == Indexed /\ WayBack /\ OneMeaning /\ NothingDenied /\ InterfaceOwn

\* A call that was in flight on a child when Shutdown began is cut by it only
\* if the child is among those Shutdown reports.
DrainSpares ==
    \A r \in Reqs : req[r].early /\ req[r].cut => <<req[r].srv[1], req[r].gen>> \in drain.late

\* Once the bridge shuts down every call ends; and what is shown becomes what
\* the children offer, unless two callbacks overlapped.
ToolsSettle ==
    /\ \A r \in Reqs : drain.pc # "up" /\ req[r].pc # "free" ~> req[r].pc = "done"
    /\ <>[](overlap \/ drain.pc = "down" \/ shown = Listing(kid))
=============================================================================
