-------------------------------- MODULE Files --------------------------------
(***************************************************************************)
(* File requests to a sandbox (pkg/toolbox, and the E2B file calls that    *)
(* end there): one directory with files in it, one file outside, several   *)
(* clients at once, and a watcher on the directory.                        *)
(*                                                                         *)
(* A file's content has two halves, written one after the other; each is   *)
(* marked with the request that wrote it.  An open file keeps its node     *)
(* when its name is removed, renamed or given to another file.             *)
(*                                                                         *)
(* State: the node of every path; whether the directory exists; the        *)
(* content of every node; what each client is doing and what it was told   *)
(* last; the watcher and its events.                                       *)
(* History: the nodes that were opened for writing while another request   *)
(* was writing to them, and those whose writing failed; the clients that   *)
(* read while somebody wrote; the events that were handed out, and those   *)
(* that happened.                                                          *)
(***************************************************************************)
EXTENDS Integers, Sequences, FiniteSets

CONSTANTS Clients,
          Inside,     \* the paths in the directory
          Outside,    \* one path outside
          MayWrite,   \* the paths neither blacklisted nor refused for writing
          MaxCalls,   \* bound on requests
          MaxFaults   \* bound on writes that fail

VARIABLES node, dir, data, cl, res, watch, calls, faults, hist

vars == <<node, dir, data, cl, res, watch, calls, faults, hist>>

Paths == Inside \cup {Outside}
Old    == 1               \* the file outside, as it was at first
Before == MaxCalls + 1    \* the mark of its content

\* A node lasts while it has a name or is open, so there is always one more.
Nodes == 1..(Cardinality(Paths) + Cardinality(Clients) + 1)

Free == 0
Writing == {"upload", "write", "replace"}
IdleClient == [op |-> "idle", k |-> 0, todo |-> << >>, fd |-> 0, half |-> 0, seen |-> << >>]

Exists(p) == node[p] # Free

Reads(n)  == {c \in Clients : cl[c].fd = n /\ cl[c].op = "download"}
Writes(n) == {c \in Clients : cl[c].fd = n /\ cl[c].op \in Writing}

\* Blacklists and the permission manager, after the path is resolved; reading
\* is free in this tree.
Authorize(p, mode) == mode = "read" \/ p \in MayWrite

Begin(c, op, todo) ==
    /\ cl[c] = IdleClient /\ calls < MaxCalls
    /\ calls' = calls + 1
    /\ cl' = [cl EXCEPT ![c] = [IdleClient EXCEPT !.op = op, !.k = calls + 1, !.todo = todo]]
    /\ res' = [res EXCEPT ![c] = "none"]
    /\ hist' = [hist EXCEPT !.raced = @ \ {c}]

\* Handlers whose one effect is a single call to the file system.
Atomic(c, r) ==
    /\ cl[c] = IdleClient /\ calls < MaxCalls
    /\ calls' = calls + 1
    /\ res' = [res EXCEPT ![c] = r]
    /\ UNCHANGED <<cl, faults>>

\* fsnotify sees a change to the directory while it watches.
Noted(n) ==
    IF watch.on /\ n > 0
    THEN /\ watch' = [watch EXCEPT !.buf = @ + n]
         /\ hist' = [hist EXCEPT !.seen = @ + n]
    ELSE UNCHANGED <<watch, hist>>

-----------------------------------------------------------------------------
(* Requests that only look *)

ListFiles == IF dir THEN "ok" ELSE "error"

FileInfo(p) == IF Exists(p) THEN "ok" ELSE "error"

\* A pattern without a match is not an error.
SearchFiles == "ok"

\* Files that cannot be read are skipped; a directory that is not there too.
FindInFiles == "ok"

FilesHandler(c) ==
    /\ Atomic(c, ListFiles)
    /\ UNCHANGED <<node, dir, data, watch, hist>>

FilesInfoHandler(c) ==
    /\ \E p \in Paths : Atomic(c, FileInfo(p))
    /\ UNCHANGED <<node, dir, data, watch, hist>>

FilesSearchHandler(c) ==
    /\ Atomic(c, SearchFiles)
    /\ UNCHANGED <<node, dir, data, watch, hist>>

FilesFindHandler(c) ==
    /\ Atomic(c, FindInFiles)
    /\ UNCHANGED <<node, dir, data, watch, hist>>

\* Opened by name, then streamed.
Download(c, p) ==
    /\ Begin(c, "download", <<p>>)
    /\ UNCHANGED <<node, dir, data, watch, faults>>

DownloadOpens(c) ==
    LET p == cl[c].todo[1]
        n == node[p]
    IN  /\ cl[c].op = "download" /\ cl[c].fd = 0
        /\ IF Exists(p)
           THEN /\ cl' = [cl EXCEPT ![c].fd = n]
                /\ hist' = [hist EXCEPT !.raced =
                              IF Writes(n) # {} \/ n \in hist.clash
                              THEN @ \cup {c} ELSE @]
                /\ UNCHANGED res
           ELSE /\ cl' = [cl EXCEPT ![c] = IdleClient]
                /\ res' = [res EXCEPT ![c] = "error"]
                /\ UNCHANGED hist
        /\ UNCHANGED <<node, dir, data, watch, calls, faults>>

DownloadReads(c) ==
    LET seen == Append(cl[c].seen, data[cl[c].fd][Len(cl[c].seen) + 1]) IN
    /\ cl[c].op = "download" /\ cl[c].fd # 0
    /\ IF Len(seen) < 2
       THEN cl' = [cl EXCEPT ![c].seen = seen] /\ UNCHANGED res
       ELSE /\ cl' = [cl EXCEPT ![c] = IdleClient]
            /\ res' = [res EXCEPT ![c] = IF seen[1] = seen[2] THEN "whole" ELSE "torn"]
    /\ UNCHANGED <<node, dir, data, watch, calls, faults, hist>>

-----------------------------------------------------------------------------
(* Requests that write contents *)

\* One upload, or a bulk upload of everything in the directory; every file is
\* resolved, authorised and written by itself.
Upload(c, p) ==
    /\ Begin(c, "upload", <<p>>)
    /\ UNCHANGED <<node, dir, data, watch, faults>>

Orders == {s \in [1..Cardinality(Inside) -> Inside] : \A p \in Inside : \E i \in DOMAIN s : s[i] = p}

BulkUpload(c) ==
    /\ \E s \in Orders : Begin(c, "upload", s)
    /\ UNCHANGED <<node, dir, data, watch, faults>>

\* The E2B layer's write of several files: one upload each, up to the first
\* that fails.
E2BWrite(c) ==
    /\ \E s \in Orders : Begin(c, "write", s)
    /\ UNCHANGED <<node, dir, data, watch, faults>>

ReplaceInFiles(c) ==
    /\ \E p \in Paths : Begin(c, "replace", <<p>>)
    /\ UNCHANGED <<node, dir, data, watch, faults>>

\* One file is done: on to the next one, or the request is answered.  A bulk
\* upload says what became of each file, the E2B layer only of the first that
\* failed.
Item(c, ok) ==
    LET r == IF ok THEN "ok" ELSE "error"
        stop == Len(cl[c].todo) = 1 \/ (~ok /\ cl[c].op = "write")
    IN  /\ res' = [res EXCEPT ![c] = IF @ \in {"none", r} \/ cl[c].op = "write" THEN r ELSE "mixed"]
        /\ cl' = [cl EXCEPT ![c] =
                    IF stop THEN IdleClient
                    ELSE [cl[c] EXCEPT !.todo = Tail(cl[c].todo), !.fd = 0, !.half = 0, !.seen = << >>]]

\* Refused, or the file cannot be opened: no such directory, or, for a
\* replacement, no such file.
Refused(c) ==
    LET p == cl[c].todo[1] IN
    /\ cl[c].op \in Writing /\ cl[c].fd = 0
    /\ \/ ~Authorize(p, "write")
       \/ cl[c].op # "replace" /\ p \in Inside /\ ~dir
       \/ cl[c].op = "replace" /\ ~Exists(p)
    /\ Item(c, FALSE)
    /\ UNCHANGED <<node, dir, data, watch, calls, faults, hist>>

\* A replacement reads the file first.
ReplaceReads(c) ==
    LET p == cl[c].todo[1] IN
    /\ cl[c].op = "replace" /\ cl[c].fd = 0 /\ cl[c].seen = << >>
    /\ Authorize(p, "write") /\ Exists(p)
    /\ cl' = [cl EXCEPT ![c].seen = data[node[p]]]
    /\ UNCHANGED <<node, dir, data, res, watch, calls, faults, hist>>

InUse == {node[p] : p \in Paths} \cup {cl[c].fd : c \in Clients}

Fresh == CHOOSE n \in Nodes : n \notin InUse

\* Opened for writing, which empties it, or created.
OpenTruncated(c) ==
    LET p == cl[c].todo[1]
        n == IF Exists(p) THEN node[p] ELSE Fresh
    IN  /\ cl[c].op \in Writing /\ cl[c].fd = 0
        /\ Authorize(p, "write")
        /\ p \in Inside => dir
        /\ cl[c].op = "replace" => cl[c].seen # << >>
        /\ node' = [node EXCEPT ![p] = n]
        /\ data' = [data EXCEPT ![n] = <<0, 0>>]
        /\ cl' = [cl EXCEPT ![c].fd = n]
        /\ watch' = [watch EXCEPT !.buf = IF watch.on /\ p \in Inside THEN @ + 1 ELSE @]
        /\ hist' = [hist EXCEPT
              !.clash = IF Writes(n) # {} THEN @ \cup {n} ELSE @ \ {n},
              !.raced = @ \cup Reads(n),
              !.seen  = IF watch.on /\ p \in Inside THEN @ + 1 ELSE @]
        /\ UNCHANGED <<dir, res, calls, faults>>

\* The next half; after the second the file is closed and the item done.
WriteHalf(c) ==
    LET n == cl[c].fd
        h == cl[c].half + 1
    IN  /\ cl[c].op \in Writing /\ n # 0
        /\ data' = [data EXCEPT ![n][h] = cl[c].k]
        /\ IF h = 1 THEN cl' = [cl EXCEPT ![c].half = 1] /\ UNCHANGED res
           ELSE Item(c, TRUE)
        /\ UNCHANGED <<node, dir, watch, calls, faults, hist>>

\* The copy fails; what is in the file stays.
WriteFails(c) ==
    LET n == cl[c].fd IN
    /\ cl[c].op \in Writing /\ n # 0 /\ faults < MaxFaults
    /\ faults' = faults + 1
    /\ hist' = [hist EXCEPT !.clash = @ \cup {n}]
    /\ Item(c, FALSE)
    /\ UNCHANGED <<node, dir, data, watch, calls>>

-----------------------------------------------------------------------------
(* Requests that change names *)

DeleteFile(c, p) ==
    /\ IF Authorize(p, "write")
       THEN Atomic(c, "ok") /\ node' = [node EXCEPT ![p] = Free]
            /\ Noted(IF p \in Inside /\ Exists(p) THEN 1 ELSE 0)
       ELSE Atomic(c, "error") /\ UNCHANGED <<node, watch, hist>>
    /\ UNCHANGED <<dir, data>>

\* The directory with everything in it; its watch ends with it.
DeleteFolder(c) ==
    /\ Atomic(c, "ok")
    /\ dir' = FALSE
    /\ node' = [p \in Paths |-> IF p \in Inside THEN Free ELSE node[p]]
    /\ Noted(Cardinality({p \in Inside : Exists(p)}) + IF dir THEN 1 ELSE 0)
    /\ UNCHANGED data

\* Both paths are authorised; what was at the destination is replaced.
MoveFile(c, p, q) ==
    /\ p # q
    /\ IF /\ Authorize(p, "write") /\ Authorize(q, "write")
          /\ Exists(p) /\ (q \in Inside => dir)
       THEN /\ Atomic(c, "ok")
            /\ node' = [node EXCEPT ![p] = Free, ![q] = node[p]]
            /\ Noted(Cardinality({p, q} \cap Inside))
       ELSE Atomic(c, "error") /\ UNCHANGED <<node, watch, hist>>
    /\ UNCHANGED <<dir, data>>

CreateFolder(c) ==
    /\ Atomic(c, "ok")
    /\ dir' = TRUE
    /\ UNCHANGED <<node, data, watch, hist>>

-----------------------------------------------------------------------------
(* The watcher *)

WatchCreate ==
    /\ ~watch.on /\ dir /\ calls < MaxCalls
    /\ calls' = calls + 1
    /\ watch' = [on |-> TRUE, buf |-> 0]
    /\ hist' = [hist EXCEPT !.seen = 0, !.drained = 0]
    /\ UNCHANGED <<node, dir, data, cl, res, faults>>

\* Mutant of WatchEvents: the events are read and forgotten in two steps, and
\* one that arrives in between is lost.
WatchEventsLoses ==
    /\ watch.on /\ watch.buf > 0
    /\ hist' = [hist EXCEPT !.drained = @ + watch.buf - 1]
    /\ watch' = [watch EXCEPT !.buf = 0]
    /\ UNCHANGED <<node, dir, data, cl, res, calls, faults>>

\* Everything since the last time.
WatchEvents ==
    /\ watch.on /\ watch.buf > 0
    /\ hist' = [hist EXCEPT !.drained = @ + watch.buf]
    /\ watch' = [watch EXCEPT !.buf = 0]
    /\ UNCHANGED <<node, dir, data, cl, res, calls, faults>>

WatchRemove ==
    /\ watch.on
    /\ watch' = [on |-> FALSE, buf |-> 0]
    /\ hist' = [hist EXCEPT !.seen = 0, !.drained = 0]
    /\ UNCHANGED <<node, dir, data, cl, res, calls, faults>>

-----------------------------------------------------------------------------
Init ==
    /\ node = [p \in Paths |-> IF p = Outside THEN Old ELSE Free]
    /\ dir = TRUE
    /\ data = [n \in Nodes |-> IF n = Old THEN <<Before, Before>> ELSE <<0, 0>>]
    /\ cl = [c \in Clients |-> IdleClient]
    /\ res = [c \in Clients |-> "none"]
    /\ watch = [on |-> FALSE, buf |-> 0]
    /\ faults = 0
    /\ hist = [clash |-> {}, raced |-> {}, seen |-> 0, drained |-> 0]

Server(c) ==
    \/ DownloadOpens(c) \/ DownloadReads(c)
    \/ Refused(c) \/ ReplaceReads(c) \/ OpenTruncated(c) \/ WriteHalf(c)

Next ==
    \/ \E c \in Clients :
          \/ FilesHandler(c) \/ FilesInfoHandler(c) \/ FilesSearchHandler(c) \/ FilesFindHandler(c)
          \/ BulkUpload(c) \/ E2BWrite(c) \/ ReplaceInFiles(c) \/ Server(c) \/ WriteFails(c)
          \/ DeleteFolder(c) \/ CreateFolder(c)
          \/ \E p \in Paths : Download(c, p) \/ Upload(c, p) \/ DeleteFile(c, p)
          \/ \E p, q \in Paths : MoveFile(c, p, q)
    \/ WatchCreate \/ WatchEvents \/ WatchRemove

Fairness == \A c \in Clients : WF_vars(Server(c))

-----------------------------------------------------------------------------
(* Properties *)

\* A file that nobody is writing to holds one request's content, all of it,
\* unless two requests wrote to it at once or a write failed; a download is
\* of one content unless somebody was writing; and no change in a watched
\* directory is lost or reported twice.
FilesWhole ==
    /\ \A p \in Paths :
          Exists(p) /\ Writes(node[p]) = {} /\ node[p] \notin hist.clash =>
              data[node[p]][1] = data[node[p]][2] /\ data[node[p]][1] # 0
    /\ \A c \in Clients : res[c] = "torn" => c \in hist.raced
    /\ watch.on => hist.drained + watch.buf = hist.seen

\* Every file request is answered.
FilesAnswered == \A c \in Clients : []<>(cl[c] = IdleClient)
=============================================================================
