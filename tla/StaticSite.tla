----------------------------- MODULE StaticSite -----------------------------
(***************************************************************************)
(* StaticSiteService of pingoo/services/http_static_site_service.rs: files *)
(* served from a folder, with an in-memory cache, while somebody edits the *)
(* folder.                                                                 *)
(*                                                                         *)
(* A handler looks at the file system and at the cache several times, with *)
(* an await in between each time: other handlers and the editor get in.    *)
(* The content, the size and the modification time of a file are one       *)
(* version number: the service takes it that a file that was modified      *)
(* differs in one of the last two, and for ever (the TODO at line 147).    *)
(* A content is read in two parts.  A file that is replaced while it is    *)
(* read still gives its old content, one that is edited in place the new.  *)
(***************************************************************************)
EXTENDS Naturals

CONSTANTS
    Clients, Urls, Paths, Url, Direct, Index, Html, HasExtension,   \* as in FileServer
    Published,     \* the files there are at the start
    Big,           \* <<path, version>> above CACHING_FILE_SIZE_LIMIT
    Undated,       \* <<path, version>> with a modification time before 1970
    MaxChanges     \* bound: changes of the folder

ASSUME SiteAssumption ==
    /\ Url \in [Clients -> Urls]
    /\ Direct \in [Urls -> Paths] /\ Index \in [Urls -> Paths] /\ Html \in [Urls -> Paths]
    /\ HasExtension \subseteq Urls /\ Published \subseteq Paths
    /\ MaxChanges \in Nat

VARIABLES
    kind, ver,         \* the folder: what each path is, and the versions it has had
    changes,           \* counter of the bound
    cache,             \* the moka cache: stamp (modified_at and size) and data, by path
    req,               \* the handler of each client
    oldest, changed,   \* history: see FileServer
    answer, copy       \* the last response to each client, and the last one with a body

folder == <<kind, ver, changes>>
history == <<oldest, changed>>
siteVars == <<folder, cache, req, history, answer, copy>>

NoEntry == [stamp |-> 0, first |-> 0, rest |-> 0]

Handler(pc, p, stamp) == [pc |-> pc, path |-> p, stamp |-> stamp, first |-> 0, rest |-> 0]

Idle(c) == Handler("idle", Direct[Url[c]], 0)

Busy == {c \in Clients : req[c].pc # "idle"}

FS == INSTANCE FileServer WITH pending <- Busy

NoVersions == [p \in Paths |-> 0]

SiteInit ==
    /\ kind = [p \in Paths |-> IF p \in Published THEN "file" ELSE "absent"]
    /\ ver = [p \in Paths |-> IF p \in Published THEN 1 ELSE 0]
    /\ changes = 0
    /\ cache = [p \in Paths |-> NoEntry]
    /\ req = [c \in Clients |-> Idle(c)]
    /\ oldest = [c \in Clients |-> NoVersions] /\ changed = {}
    /\ answer = [c \in Clients |-> "none"] /\ copy = [c \in Clients |-> FS!NoCopy]

-----------------------------------------------------------------------------
(* handle_http_request *)

Goto(c, next) ==
    /\ req' = [req EXCEPT ![c] = next]
    /\ UNCHANGED <<folder, history, answer, copy>>

\* The handler returns.
Return(c, status) ==
    /\ answer' = [answer EXCEPT ![c] = status]
    /\ req' = [req EXCEPT ![c] = Idle(c)]
    /\ oldest' = [oldest EXCEPT ![c] = NoVersions] /\ changed' = changed \ {c}
    /\ UNCHANGED folder

\* A response without a body of its own.
NoBody(c, status) == Return(c, status) /\ UNCHANGED <<cache, copy>>

\* 200, with the headers of the metadata.
Ok(c, first, rest) ==
    /\ Return(c, "200")
    /\ copy' = [copy EXCEPT ![c] = [path |-> req[c].path, stamp |-> req[c].stamp,
                                    first |-> first, rest |-> rest]]

Receive(c) ==
    /\ req[c].pc = "idle"
    /\ req' = [req EXCEPT ![c] = Handler("received", Direct[Url[c]], 0)]
    /\ answer' = [answer EXCEPT ![c] = "none"]
    /\ oldest' = [oldest EXCEPT ![c] =
                    [p \in Paths |-> IF kind[p] = "file" THEN ver[p] ELSE ver[p] + 1]]
    /\ changed' = changed \ {c}
    /\ UNCHANGED <<folder, cache, copy>>

\* 405 for other methods than GET and HEAD, 404 for a path that could leave the root.
RefuseRequest(c) ==
    /\ req[c].pc = "received"
    /\ NoBody(c, "none")

Cacheable(p, v) == <<p, v>> \notin Big \cup Undated

\* The ETag (path, size and modification time) is the one of the client's copy.
TagMatches(c, p) ==
    /\ <<p, ver[p]>> \notin Undated
    /\ copy[c].path = p /\ copy[c].stamp = ver[p]

\* The headers; the request may have If-None-Match.
Examine(c, p) ==
    \/ TagMatches(c, p) /\ NoBody(c, "304")
    \/ /\ Goto(c, Handler(IF Cacheable(p, ver[p]) THEN "cache" ELSE "read", p, ver[p]))
       /\ UNCHANGED cache

TryNext(c, p) == Goto(c, Handler("second", p, 0)) /\ UNCHANGED cache

\* fs::metadata of the path: a file, a directory, or nothing.
Metadata(c) ==
    LET d == req[c].path IN
    /\ req[c].pc = "received"
    /\ \/ kind[d] = "file" /\ Examine(c, d)
       \/ kind[d] = "dir" /\ TryNext(c, Index[Url[c]])
       \/ kind[d] = "absent" /\ Url[c] \notin HasExtension /\ TryNext(c, Html[Url[c]])
       \/ kind[d] = "absent" /\ Url[c] \in HasExtension /\ NoBody(c, "404")

\* Of index.html, or of the path with .html.
try_metadata(c) ==
    /\ req[c].pc = "second"
    /\ \/ kind[req[c].path] = "file" /\ Examine(c, req[c].path)
       \/ kind[req[c].path] # "file" /\ NoBody(c, "404")

\* Mutant: any entry of the path is served.
HitIfCached(c, entry) == entry # NoEntry

Hit(c, entry) == entry # NoEntry /\ entry.stamp = req[c].stamp

CacheGet(c) ==
    LET entry == cache[req[c].path] IN
    /\ req[c].pc = "cache"
    /\ UNCHANGED cache
    /\ \/ Hit(c, entry) /\ Ok(c, entry.first, entry.rest)
       \/ ~ Hit(c, entry) /\ Goto(c, [req[c] EXCEPT !.pc = IF entry = NoEntry THEN "read" ELSE "remove"])

\* Whatever is cached by now.
CacheRemove(c) ==
    /\ req[c].pc = "remove"
    /\ cache' = [cache EXCEPT ![req[c].path] = NoEntry]
    /\ Goto(c, [req[c] EXCEPT !.pc = "read"])

\* fs::read, or File::open and a ReaderStream: opening the file and reading the first part ...
Read(c) ==
    /\ req[c].pc = "read" /\ kind[req[c].path] = "file"
    /\ Goto(c, [req[c] EXCEPT !.pc = "rest", !.first = ver[req[c].path]])
    /\ UNCHANGED cache

\* What a read finds of a file whose content was at version v last time.
Reads(p, v) == {v} \cup (IF kind[p] = "file" THEN {ver[p]} ELSE {})

\* Mutant: the content ends with the first part.
ReadFirstOnly(c) ==
    /\ req[c].pc = "rest" /\ Cacheable(req[c].path, req[c].stamp)
    /\ Goto(c, [req[c] EXCEPT !.pc = "insert"])
    /\ UNCHANGED cache

\* ... and the rest.
ReadRest(c) ==
    /\ req[c].pc = "rest" /\ Cacheable(req[c].path, req[c].stamp)
    /\ \E v \in Reads(req[c].path, req[c].first) :
        Goto(c, [req[c] EXCEPT !.pc = "insert", !.rest = v])
    /\ UNCHANGED cache

\* A file that is not eligible for caching is streamed.
StreamRest(c) ==
    /\ req[c].pc = "rest" /\ ~ Cacheable(req[c].path, req[c].stamp)
    /\ \E v \in Reads(req[c].path, req[c].first) : Ok(c, req[c].first, v)
    /\ UNCHANGED cache

\* Mutant: the metadata is read once more for the cache.
CachedFileNow(c) ==
    [stamp |-> ver[req[c].path], first |-> req[c].first, rest |-> req[c].rest]

\* The data with the metadata of the beginning.
CachedFile(c) == [stamp |-> req[c].stamp, first |-> req[c].first, rest |-> req[c].rest]

CacheInsert(c) ==
    /\ req[c].pc = "insert"
    /\ cache' = [cache EXCEPT ![req[c].path] = CachedFile(c)]
    /\ Ok(c, req[c].first, req[c].rest)

\* The file system fails a request: 500, or unreachable!() and a panic of the
\* connection's task once a stream has begun.  Always so for a file that is gone.
IoError(c) ==
    /\ req[c].pc \in {"received", "second", "read", "rest"}
    /\ NoBody(c, "none")

Handle(c) ==
    \/ RefuseRequest(c) \/ Metadata(c) \/ try_metadata(c)
    \/ CacheGet(c) \/ CacheRemove(c) \/ Read(c) \/ ReadRest(c) \/ CacheInsert(c)
    \/ StreamRest(c) \/ IoError(c)

-----------------------------------------------------------------------------
(* The cache forgets, and the folder is edited *)

\* 500 files, one hour without use.
Evict(p) ==
    /\ cache[p] # NoEntry
    /\ cache' = [cache EXCEPT ![p] = NoEntry]
    /\ UNCHANGED <<folder, req, history, answer, copy>>

Become(p, k) ==
    /\ changes < MaxChanges /\ changes' = changes + 1
    /\ kind' = [kind EXCEPT ![p] = k]
    /\ changed' = IF kind' = kind THEN changed ELSE changed \cup Busy
    /\ UNCHANGED <<cache, req, oldest, answer, copy>>

\* A file appears, or is edited or replaced.
Write(p) ==
    /\ kind[p] # "dir"
    /\ \A u \in Urls : Index[u] = p => kind[Direct[u]] = "dir"
    /\ Become(p, "file")
    /\ ver' = [ver EXCEPT ![p] = @ + 1]

Delete(p) == kind[p] = "file" /\ Become(p, "absent") /\ UNCHANGED ver

MakeDir(u) ==
    /\ kind[Direct[u]] = "absent" /\ u \notin HasExtension
    /\ Become(Direct[u], "dir") /\ UNCHANGED ver

RemoveDir(u) ==
    /\ kind[Direct[u]] = "dir" /\ kind[Index[u]] = "absent"
    /\ Become(Direct[u], "absent") /\ UNCHANGED ver

EditFolder ==
    \/ \E p \in Paths : Write(p) \/ Delete(p)
    \/ \E u \in Urls : MakeDir(u) \/ RemoveDir(u)

SiteNext ==
    \/ \E c \in Clients : Receive(c) \/ Handle(c)
    \/ \E p \in Paths : Evict(p)
    \/ EditFolder

SiteSafety == SiteInit /\ [][SiteNext]_siteVars

\* tokio runs every handler, and file system calls return.
SiteSpec == SiteSafety /\ \A c \in Clients : WF_siteVars(Handle(c))

-----------------------------------------------------------------------------
(* Properties *)

Versions == Nat \ {0}

\* Every variable has its type; what is cached or answered is a content that was read to its end.
SiteTypeOK ==
    /\ kind \in [Paths -> FS!Kinds] /\ ver \in [Paths -> Nat] /\ changes \in 0..MaxChanges
    /\ cache \in [Paths -> {NoEntry} \cup [stamp : Versions, first : Versions, rest : Versions]]
    /\ req \in [Clients -> [pc : {"idle", "received", "second", "cache", "remove", "read", "rest",
                                  "insert"},
                            path : Paths, stamp : Nat, first : Nat, rest : Nat]]
    /\ oldest \in [Clients -> [Paths -> Nat]] /\ changed \subseteq Clients
    /\ answer \in [Clients -> FS!Answers]
    /\ copy \in [Clients -> {FS!NoCopy} \cup [path : Paths, stamp : Versions,
                                             first : Versions, rest : Versions]]

\* An entry the next request would be answered from holds the whole file as it
\* is now: though the data is read after the metadata it is cached with (lines
\* 99 and 209), and handlers insert and remove in any order.
CacheIsCurrent ==
    \A p \in Paths :
        (kind[p] = "file" /\ cache[p].stamp = ver[p]) =>
            cache[p].first = ver[p] /\ cache[p].rest = ver[p]

\* The service, with its cache, is a file server: see FileServer.
ImplementsFileServer == FS!ServerSpec
=============================================================================
