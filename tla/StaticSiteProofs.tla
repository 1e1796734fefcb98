-------------------------- MODULE StaticSiteProofs --------------------------
(***************************************************************************)
(* The static site implements FileServer, for every site, every number of  *)
(* clients and every bound on the edits.                                   *)
(***************************************************************************)
EXTENDS StaticSite, TLAPS

\* Weaker than SiteTypeOK where a version is not yet known.
Types ==
    /\ kind \in [Paths -> FS!Kinds] /\ ver \in [Paths -> Nat] /\ changes \in 0..MaxChanges
    /\ cache \in [Paths -> [stamp : Nat, first : Nat, rest : Nat]]
    /\ req \in [Clients -> [pc : {"idle", "received", "second", "cache", "remove", "read", "rest",
                                  "insert"},
                            path : Paths, stamp : Nat, first : Nat, rest : Nat]]
    /\ oldest \in [Clients -> [Paths -> Nat]] /\ changed \subseteq Clients
    /\ answer \in [Clients -> FS!Answers]
    /\ copy \in [Clients -> {FS!NoCopy} \cup [path : Paths, stamp : Nat, first : Nat, rest : Nat]]

\* A file has had a version.
FileHasVersion(p) == kind[p] = "file" => ver[p] > 0

\* Data is not older than the metadata it comes with, and of versions there have been.
Ordered(data, v) == 0 < data.stamp /\ data.stamp <= data.first /\ data.first <= data.rest /\ data.rest <= v

CacheOrdered(p) == cache[p] = NoEntry \/ Ordered(cache[p], ver[p])

CopyOrdered(c) == copy[c] = FS!NoCopy \/ (copy[c].path \in Paths /\ Ordered(copy[c], ver[copy[c].path]))

\* A path whose oldest version is still to come is no file yet.
OldestIsKnown(c, p) ==
    req[c].pc # "idle" =>
        oldest[c][p] <= ver[p] \/ (oldest[c][p] = ver[p] + 1 /\ kind[p] # "file")

Examined == {"cache", "remove", "read", "rest", "insert"}

\* Where a handler is, and what it knows of the file it serves.
HandlerKnows(c) ==
    LET r == req[c]
        u == Url[c]
    IN /\ r.pc = "received" => r.path = Direct[u]
       /\ r.pc = "second" =>
            \/ c \in changed
            \/ kind[Direct[u]] = "dir" /\ r.path = Index[u]
            \/ kind[Direct[u]] = "absent" /\ u \notin HasExtension /\ r.path = Html[u]
       /\ r.pc \in Examined =>
            FS!Meant(c, r.path) /\ 0 < r.stamp /\ oldest[c][r.path] <= r.stamp /\ r.stamp <= ver[r.path]
       /\ r.pc \in {"rest", "insert"} => r.stamp <= r.first /\ r.first <= ver[r.path]
       /\ r.pc = "insert" => r.first <= r.rest /\ r.rest <= ver[r.path]

SiteInv ==
    /\ Types
    /\ \A p \in Paths : FileHasVersion(p) /\ CacheOrdered(p)
    /\ \A c \in Clients : CopyOrdered(c) /\ HandlerKnows(c) /\ \A p \in Paths : OldestIsKnown(c, p)

-----------------------------------------------------------------------------
(* The invariant *)

\* A service that has just been created, with an empty cache, satisfies the invariant.
LEMMA InitInv == SiteInit => SiteInv
  BY SiteAssumption
  DEF SiteInit, SiteInv, Types, FileHasVersion, CacheOrdered, CopyOrdered, HandlerKnows, OldestIsKnown,
      Idle, Handler, NoEntry, NoVersions, Examined, FS!Kinds, FS!Answers

\* A handler that goes on takes what it knows along; the rest of the state but the cache stays.
LEMMA GotoInv ==
  ASSUME SiteInv, NEW c \in Clients, NEW next, Goto(c, next), req[c].pc # "idle",
         next \in [pc : {"second"} \cup Examined, path : Paths, stamp : Nat, first : Nat, rest : Nat],
         cache' \in [Paths -> [stamp : Nat, first : Nat, rest : Nat]],
         \A p \in Paths : cache'[p] = NoEntry \/ cache'[p] = cache[p],
         HandlerKnows(c)'
  PROVE  SiteInv'
  <1>1. Types'
    BY DEF SiteInv, Types, Goto, folder, history, Examined, FS!Kinds, FS!Answers
  <1>2. \A p \in Paths : FileHasVersion(p)' /\ CacheOrdered(p)'
    BY DEF SiteInv, Goto, folder, FileHasVersion, CacheOrdered, Ordered
  <1>3. ASSUME NEW o \in Clients PROVE CopyOrdered(o)' /\ HandlerKnows(o)'
    <2>1. CopyOrdered(o)'
      BY DEF SiteInv, Goto, folder, CopyOrdered, Ordered
    <2>2. CASE o = c
      BY <2>1, <2>2
    <2>3. CASE o # c
      <3>1. req'[o] = req[o] /\ ver' = ver /\ kind' = kind /\ changed' = changed /\ oldest' = oldest
        BY <2>3 DEF SiteInv, Types, Goto, folder, history
      <3> QED
        BY <2>1, <3>1 DEF SiteInv, HandlerKnows, FS!Meant, FS!StandsFor
    <2> QED BY <2>2, <2>3
  <1>4. ASSUME NEW o \in Clients, NEW p \in Paths PROVE OldestIsKnown(o, p)'
    BY DEF SiteInv, Types, Goto, folder, history, OldestIsKnown
  <1> QED BY <1>1, <1>2, <1>3, <1>4 DEF SiteInv

\* A handler that returns leaves nothing behind but its answer.
LEMMA ReturnInv ==
  ASSUME SiteInv, NEW c \in Clients, NEW status \in FS!Answers, Return(c, status),
         cache' \in [Paths -> [stamp : Nat, first : Nat, rest : Nat]],
         \A p \in Paths : CacheOrdered(p)',
         copy' \in [Clients -> {FS!NoCopy} \cup [path : Paths, stamp : Nat, first : Nat, rest : Nat]],
         \A o \in Clients : CopyOrdered(o)'
  PROVE  SiteInv'
  <1>1. Types'
    BY SiteAssumption DEF SiteInv, Types, Return, Idle, Handler, NoVersions, folder
  <1>2. \A p \in Paths : FileHasVersion(p)'
    BY DEF SiteInv, Return, folder, FileHasVersion
  <1>3. ASSUME NEW o \in Clients PROVE HandlerKnows(o)' /\ \A p \in Paths : OldestIsKnown(o, p)'
    <2>1. CASE o = c
      <3>1. req'[c].pc = "idle"
        BY DEF SiteInv, Types, Return, Idle, Handler
      <3> QED BY <2>1, <3>1 DEF HandlerKnows, OldestIsKnown, Examined
    <2>2. CASE o # c
      <3>1. /\ req'[o] = req[o] /\ ver' = ver /\ kind' = kind /\ oldest'[o] = oldest[o]
            /\ o \in changed' <=> o \in changed
        BY <2>2 DEF SiteInv, Types, Return, folder
      <3> QED BY <3>1 DEF SiteInv, HandlerKnows, OldestIsKnown, FS!Meant, FS!StandsFor
    <2> QED BY <2>1, <2>2
  <1> QED BY <1>1, <1>2, <1>3 DEF SiteInv

\* An answer without a body changes no cache entry and no copy.
LEMMA NoBodyInv ==
  ASSUME SiteInv, NEW c \in Clients, NEW status \in FS!Answers, NoBody(c, status)
  PROVE  SiteInv'
  <1>1. /\ \A p \in Paths : CacheOrdered(p)'
        /\ \A o \in Clients : CopyOrdered(o)'
    BY DEF SiteInv, NoBody, Return, folder, CacheOrdered, CopyOrdered, Ordered
  <1> QED BY <1>1, ReturnInv DEF SiteInv, Types, NoBody

\* An answer with a body leaves the browser with a copy whose parts are in order.
LEMMA OkInv ==
  ASSUME SiteInv, NEW c \in Clients, NEW first \in Nat, NEW rest \in Nat, Ok(c, first, rest),
         cache' \in [Paths -> [stamp : Nat, first : Nat, rest : Nat]],
         \A p \in Paths : CacheOrdered(p)',
         0 < req[c].stamp, req[c].stamp <= first, first <= rest, rest <= ver[req[c].path]
  PROVE  SiteInv'
  <1>1. copy' \in [Clients -> {FS!NoCopy} \cup [path : Paths, stamp : Nat, first : Nat, rest : Nat]]
    BY DEF SiteInv, Types, Ok
  <1>2. ASSUME NEW o \in Clients PROVE CopyOrdered(o)'
    BY DEF SiteInv, Types, Ok, Return, folder, CopyOrdered, Ordered
  <1> QED BY <1>1, <1>2, ReturnInv DEF Ok, FS!Answers

\* A request begins with the version its file has now.
LEMMA ReceiveInv ==
  ASSUME SiteInv, NEW c \in Clients, Receive(c)
  PROVE  SiteInv'
  <1>1. Types'
    <2>1. [p \in Paths |-> IF kind[p] = "file" THEN ver[p] ELSE ver[p] + 1] \in [Paths -> Nat]
      BY DEF SiteInv, Types
    <2>2. oldest' \in [Clients -> [Paths -> Nat]]
      BY <2>1 DEF SiteInv, Types, Receive
    <2>3. Handler("received", Direct[Url[c]], 0) \in
            [pc : {"idle", "received", "second", "cache", "remove", "read", "rest", "insert"},
             path : Paths, stamp : Nat, first : Nat, rest : Nat]
      BY SiteAssumption DEF Handler
    <2> QED BY <2>2, <2>3 DEF SiteInv, Types, Receive, folder, FS!Answers
  <1>2. /\ \A p \in Paths : FileHasVersion(p)' /\ CacheOrdered(p)'
        /\ \A o \in Clients : CopyOrdered(o)'
    BY DEF SiteInv, Receive, folder, FileHasVersion, CacheOrdered, CopyOrdered, Ordered
  <1>3. ASSUME NEW o \in Clients PROVE HandlerKnows(o)' /\ \A p \in Paths : OldestIsKnown(o, p)'
    <2>1. CASE o = c
      <3>1. /\ req'[c].pc = "received" /\ req'[c].path = Direct[Url[c]]
            /\ \A p \in Paths : oldest'[c][p] = IF kind[p] = "file" THEN ver[p] ELSE ver[p] + 1
            /\ kind' = kind /\ ver' = ver
        BY DEF SiteInv, Types, Receive, Handler, folder
      <3>2. HandlerKnows(c)'
        BY <3>1 DEF HandlerKnows, Examined
      <3>3. \A p \in Paths : OldestIsKnown(c, p)'
        BY <3>1 DEF SiteInv, Types, OldestIsKnown
      <3> QED BY <2>1, <3>2, <3>3
    <2>2. CASE o # c
      <3>1. /\ req'[o] = req[o] /\ ver' = ver /\ kind' = kind /\ oldest'[o] = oldest[o]
            /\ o \in changed' <=> o \in changed
        BY <2>2 DEF SiteInv, Types, Receive, folder
      <3> QED BY <3>1 DEF SiteInv, HandlerKnows, OldestIsKnown, FS!Meant, FS!StandsFor
    <2> QED BY <2>1, <2>2
  <1> QED BY <1>1, <1>2, <1>3 DEF SiteInv

\* The metadata of a file is of a version since the request.
LEMMA ExamineInv ==
  ASSUME SiteInv, NEW c \in Clients, NEW p \in Paths, Examine(c, p),
         req[c].pc # "idle", kind[p] = "file", FS!Meant(c, p)
  PROVE  SiteInv'
  <1>1. CASE NoBody(c, "304")
    BY <1>1, NoBodyInv DEF FS!Answers
  <1>2. CASE /\ Goto(c, Handler(IF Cacheable(p, ver[p]) THEN "cache" ELSE "read", p, ver[p]))
             /\ UNCHANGED cache
    <2> DEFINE next == Handler(IF Cacheable(p, ver[p]) THEN "cache" ELSE "read", p, ver[p])
    <2>1. next \in [pc : {"second"} \cup Examined, path : Paths, stamp : Nat, first : Nat, rest : Nat]
      BY DEF SiteInv, Types, Handler, Examined
    <2>2. /\ next.pc \in {"cache", "read"} /\ next.path = p /\ next.stamp = ver[p]
          /\ req'[c] = next /\ ver' = ver /\ kind' = kind /\ changed' = changed /\ oldest' = oldest
      BY <1>2 DEF SiteInv, Types, Goto, Handler, folder, history
    <2>3. 0 < ver[p] /\ oldest[c][p] <= ver[p]
      BY DEF SiteInv, Types, FileHasVersion, OldestIsKnown
    <2>4. HandlerKnows(c)'
      BY <2>2, <2>3 DEF SiteInv, Types, HandlerKnows, Examined, FS!Meant, FS!StandsFor
    <2> QED
      <3> HIDE DEF next
      <3> QED BY <1>2, <2>1, <2>4, GotoInv DEF SiteInv, Types, next
  <1> QED BY <1>1, <1>2 DEF Examine

\* A second path is tried only if the URL stands for it.
LEMMA TryNextInv ==
  ASSUME SiteInv, NEW c \in Clients, NEW p \in Paths, TryNext(c, p), req[c].pc = "received",
         \/ kind[Direct[Url[c]]] = "dir" /\ p = Index[Url[c]]
         \/ kind[Direct[Url[c]]] = "absent" /\ Url[c] \notin HasExtension /\ p = Html[Url[c]]
  PROVE  SiteInv'
  <1>1. Handler("second", p, 0) \in
            [pc : {"second"} \cup Examined, path : Paths, stamp : Nat, first : Nat, rest : Nat]
    BY DEF Handler
  <1>2. req'[c].pc = "second" /\ req'[c].path = p /\ kind' = kind
    BY DEF SiteInv, Types, TryNext, Goto, Handler, folder
  <1>3. HandlerKnows(c)'
    BY <1>2 DEF HandlerKnows, Examined
  <1> QED BY <1>1, <1>3, GotoInv DEF SiteInv, Types, TryNext

\* The first look at the metadata keeps the invariant.
LEMMA MetadataInv ==
  ASSUME SiteInv, NEW c \in Clients, Metadata(c)
  PROVE  SiteInv'
  <1> DEFINE d == req[c].path
  <1>1. d = Direct[Url[c]] /\ d \in Paths /\ Index[Url[c]] \in Paths /\ Html[Url[c]] \in Paths
    BY SiteAssumption DEF SiteInv, Types, HandlerKnows, Metadata
  <1>2. CASE kind[d] = "file" /\ Examine(c, d)
    BY <1>1, <1>2, ExamineInv DEF Metadata, FS!Meant, FS!StandsFor
  <1>3. CASE kind[d] = "dir" /\ TryNext(c, Index[Url[c]])
    BY <1>1, <1>3, TryNextInv DEF Metadata
  <1>4. CASE kind[d] = "absent" /\ Url[c] \notin HasExtension /\ TryNext(c, Html[Url[c]])
    BY <1>1, <1>4, TryNextInv DEF Metadata
  <1>5. CASE NoBody(c, "404")
    BY <1>5, NoBodyInv DEF FS!Answers
  <1> QED BY <1>2, <1>3, <1>4, <1>5 DEF Metadata

\* The file try_metadata finds is the one the URL stands for.
LEMMA SecondIsMeant ==
  ASSUME SiteInv, NEW c \in Clients, req[c].pc = "second", kind[req[c].path] = "file"
  PROVE  FS!Meant(c, req[c].path)
  BY DEF SiteInv, HandlerKnows, FS!Meant, FS!StandsFor

\* The second look at the metadata keeps the invariant.
LEMMA TryMetadataInv ==
  ASSUME SiteInv, NEW c \in Clients, try_metadata(c)
  PROVE  SiteInv'
  <1>1. req[c].path \in Paths
    BY DEF SiteInv, Types
  <1>2. CASE kind[req[c].path] = "file" /\ Examine(c, req[c].path)
    BY <1>1, <1>2, ExamineInv, SecondIsMeant DEF try_metadata
  <1>3. CASE NoBody(c, "404")
    BY <1>3, NoBodyInv DEF FS!Answers
  <1> QED BY <1>2, <1>3 DEF try_metadata

\* Reading the cache keeps the invariant: an entry with the right stamp is current.
LEMMA CacheGetInv ==
  ASSUME SiteInv, NEW c \in Clients, CacheGet(c)
  PROVE  SiteInv'
  <1> DEFINE entry == cache[req[c].path]
  <1>1. /\ req[c].path \in Paths /\ entry \in [stamp : Nat, first : Nat, rest : Nat]
        /\ cache \in [Paths -> [stamp : Nat, first : Nat, rest : Nat]]
    BY DEF SiteInv, Types
  <1>2. CASE Hit(c, entry) /\ Ok(c, entry.first, entry.rest)
    <2>1. /\ 0 < req[c].stamp /\ req[c].stamp <= entry.first
          /\ entry.first <= entry.rest /\ entry.rest <= ver[req[c].path]
      BY <1>1, <1>2 DEF SiteInv, CacheOrdered, Ordered, Hit
    <2>2. cache' = cache /\ \A p \in Paths : CacheOrdered(p)'
      BY <1>2 DEF SiteInv, CacheGet, Ok, Return, folder, CacheOrdered, Ordered
    <2>3. entry.first \in Nat /\ entry.rest \in Nat
      BY <1>1
    <2> QED
      <3> HIDE DEF entry
      <3> QED BY <1>1, <1>2, <2>1, <2>2, <2>3, OkInv
  <1>3. CASE Goto(c, [req[c] EXCEPT !.pc = IF entry = NoEntry THEN "read" ELSE "remove"])
    <2> DEFINE next == [req[c] EXCEPT !.pc = IF entry = NoEntry THEN "read" ELSE "remove"]
    <2>1. next \in [pc : {"second"} \cup Examined, path : Paths, stamp : Nat, first : Nat, rest : Nat]
      BY DEF SiteInv, Types, Examined
    <2>2. /\ next.pc \in {"read", "remove"} /\ next.path = req[c].path /\ next.stamp = req[c].stamp
          /\ req'[c] = next /\ ver' = ver /\ kind' = kind /\ changed' = changed /\ oldest' = oldest
      BY <1>3 DEF SiteInv, Types, Goto, folder, history
    <2>3. HandlerKnows(c)'
      BY <2>2 DEF SiteInv, HandlerKnows, Examined, CacheGet, FS!Meant, FS!StandsFor
    <2>4. cache' = cache /\ req[c].pc = "cache"
      BY DEF CacheGet
    <2> QED
      <3> HIDE DEF next
      <3> QED BY <1>1, <1>3, <2>1, <2>3, <2>4, GotoInv DEF next
  <1> QED BY <1>2, <1>3 DEF CacheGet

\* Removing an entry that is not current keeps the invariant.
LEMMA CacheRemoveInv ==
  ASSUME SiteInv, NEW c \in Clients, CacheRemove(c)
  PROVE  SiteInv'
  <1> DEFINE next == [req[c] EXCEPT !.pc = "read"]
  <1>1. next \in [pc : {"second"} \cup Examined, path : Paths, stamp : Nat, first : Nat, rest : Nat]
    BY DEF SiteInv, Types, Examined
  <1>2. /\ next.pc = "read" /\ next.path = req[c].path /\ next.stamp = req[c].stamp
        /\ req'[c] = next /\ ver' = ver /\ kind' = kind /\ changed' = changed /\ oldest' = oldest
    BY DEF SiteInv, Types, CacheRemove, Goto, folder, history
  <1>3. HandlerKnows(c)'
    BY <1>2 DEF SiteInv, HandlerKnows, Examined, CacheRemove, FS!Meant, FS!StandsFor
  <1>4. /\ cache' \in [Paths -> [stamp : Nat, first : Nat, rest : Nat]]
        /\ \A p \in Paths : cache'[p] = NoEntry \/ cache'[p] = cache[p]
    BY DEF SiteInv, Types, CacheRemove, NoEntry
  <1> QED
    <2> HIDE DEF next
    <2> QED BY <1>1, <1>3, <1>4, GotoInv DEF CacheRemove, next

\* The first part of a content is no older than the metadata.
LEMMA ReadInv ==
  ASSUME SiteInv, NEW c \in Clients, Read(c)
  PROVE  SiteInv'
  <1> DEFINE next == [req[c] EXCEPT !.pc = "rest", !.first = ver[req[c].path]]
  <1>1. next \in [pc : {"second"} \cup Examined, path : Paths, stamp : Nat, first : Nat, rest : Nat]
    BY DEF SiteInv, Types, Examined
  <1>2. /\ next.pc = "rest" /\ next.path = req[c].path /\ next.stamp = req[c].stamp
        /\ next.first = ver[req[c].path]
        /\ req'[c] = next /\ ver' = ver /\ kind' = kind /\ changed' = changed /\ oldest' = oldest
    BY DEF SiteInv, Types, Read, Goto, folder, history
  <1>3. HandlerKnows(c)'
    BY <1>2 DEF SiteInv, Types, HandlerKnows, Examined, Read, FS!Meant, FS!StandsFor
  <1> QED
    <2> HIDE DEF next
    <2> QED BY <1>1, <1>3, GotoInv DEF SiteInv, Types, Read, next

\* Later parts are not older, nor of versions still to come.
LEMMA ReadsAreOrdered ==
  ASSUME SiteInv, NEW c \in Clients, req[c].pc = "rest",
         NEW v \in Reads(req[c].path, req[c].first)
  PROVE  v \in Nat /\ req[c].first <= v /\ v <= ver[req[c].path]
  BY DEF SiteInv, Types, HandlerKnows, Reads

\* The rest of a content is no older than its first part.
LEMMA ReadRestInv ==
  ASSUME SiteInv, NEW c \in Clients, ReadRest(c)
  PROVE  SiteInv'
  <1>1. PICK v \in Reads(req[c].path, req[c].first) :
            Goto(c, [req[c] EXCEPT !.pc = "insert", !.rest = v])
    BY DEF ReadRest
  <1>2. v \in Nat /\ req[c].first <= v /\ v <= ver[req[c].path]
    BY ReadsAreOrdered DEF ReadRest
  <1> DEFINE next == [req[c] EXCEPT !.pc = "insert", !.rest = v]
  <1>3. next \in [pc : {"second"} \cup Examined, path : Paths, stamp : Nat, first : Nat, rest : Nat]
    BY <1>2 DEF SiteInv, Types, Examined
  <1>4. /\ next.pc = "insert" /\ next.path = req[c].path /\ next.stamp = req[c].stamp
        /\ next.first = req[c].first /\ next.rest = v
        /\ req'[c] = next /\ ver' = ver /\ kind' = kind /\ changed' = changed /\ oldest' = oldest
    BY <1>1 DEF SiteInv, Types, Goto, folder, history
  <1>5. HandlerKnows(c)'
    BY <1>2, <1>4 DEF SiteInv, HandlerKnows, Examined, ReadRest, FS!Meant, FS!StandsFor
  <1> QED
    <2> HIDE DEF next
    <2> QED BY <1>1, <1>3, <1>5, GotoInv DEF SiteInv, Types, ReadRest, next

\* A content that is streamed is answered in order.
LEMMA StreamRestInv ==
  ASSUME SiteInv, NEW c \in Clients, StreamRest(c)
  PROVE  SiteInv'
  <1>1. PICK v \in Reads(req[c].path, req[c].first) : Ok(c, req[c].first, v)
    BY DEF StreamRest
  <1>2. v \in Nat /\ req[c].first <= v /\ v <= ver[req[c].path]
    BY ReadsAreOrdered DEF StreamRest
  <1>3. req[c].first \in Nat /\ 0 < req[c].stamp /\ req[c].stamp <= req[c].first
    BY DEF SiteInv, Types, HandlerKnows, Examined, StreamRest
  <1>4. /\ cache' \in [Paths -> [stamp : Nat, first : Nat, rest : Nat]]
        /\ \A p \in Paths : CacheOrdered(p)'
    BY <1>1 DEF SiteInv, Types, StreamRest, Ok, Return, folder, CacheOrdered, Ordered
  <1> QED BY <1>1, <1>2, <1>3, <1>4, OkInv

\* An entry is inserted with the stamp it was examined with, so in order.
LEMMA CacheInsertInv ==
  ASSUME SiteInv, NEW c \in Clients, CacheInsert(c)
  PROVE  SiteInv'
  <1>1. /\ req[c].path \in Paths /\ req[c].stamp \in Nat /\ req[c].first \in Nat /\ req[c].rest \in Nat
        /\ 0 < req[c].stamp /\ req[c].stamp <= req[c].first
        /\ req[c].first <= req[c].rest /\ req[c].rest <= ver[req[c].path]
    BY DEF SiteInv, Types, HandlerKnows, Examined, CacheInsert
  <1>2. cache' \in [Paths -> [stamp : Nat, first : Nat, rest : Nat]]
    BY <1>1 DEF SiteInv, Types, CacheInsert, CachedFile
  <1>3. ASSUME NEW p \in Paths PROVE CacheOrdered(p)'
    BY <1>1 DEF SiteInv, Types, CacheInsert, CachedFile, Ok, Return, folder, CacheOrdered, Ordered
  <1> QED BY <1>1, <1>2, <1>3, OkInv DEF CacheInsert

\* Every step of a handler keeps the invariant.
LEMMA HandleInv ==
  ASSUME SiteInv, NEW c \in Clients, Handle(c)
  PROVE  SiteInv'
  <1>1. CASE RefuseRequest(c)
    BY <1>1, NoBodyInv DEF RefuseRequest, FS!Answers
  <1>2. CASE IoError(c)
    BY <1>2, NoBodyInv DEF IoError, FS!Answers
  <1> QED
    BY <1>1, <1>2, MetadataInv, TryMetadataInv, CacheGetInv, CacheRemoveInv, ReadInv, ReadRestInv,
       StreamRestInv, CacheInsertInv
    DEF Handle

\* The cache may drop any entry.
LEMMA EvictInv ==
  ASSUME SiteInv, NEW q \in Paths, Evict(q)
  PROVE  SiteInv'
  <1>1. Types'
    BY DEF SiteInv, Types, Evict, NoEntry, folder, history
  <1>2. \A p \in Paths : FileHasVersion(p)' /\ CacheOrdered(p)'
    BY DEF SiteInv, Types, Evict, folder, FileHasVersion, CacheOrdered, Ordered
  <1>3. \A c \in Clients : CopyOrdered(c)' /\ HandlerKnows(c)' /\ \A p \in Paths : OldestIsKnown(c, p)'
    BY DEF SiteInv, Evict, folder, history, CopyOrdered, Ordered, HandlerKnows, OldestIsKnown,
           FS!Meant, FS!StandsFor
  <1> QED BY <1>1, <1>2, <1>3 DEF SiteInv

\* An edit of the folder: versions only grow, and a file that appears is a new version.
LEMMA EditInv ==
  ASSUME SiteInv, NEW q \in Paths, NEW k \in FS!Kinds, Become(q, k),
         \/ k # "file" /\ ver' = ver
         \/ k = "file" /\ ver' = [ver EXCEPT ![q] = @ + 1]
  PROVE  SiteInv'
  <1>1. /\ ver' \in [Paths -> Nat] /\ \A p \in Paths : ver[p] <= ver'[p]
        /\ kind' \in [Paths -> FS!Kinds]
        /\ \A p \in Paths : kind'[p] = "file" => kind[p] = "file" \/ ver'[p] = ver[p] + 1
    <2>1. /\ kind' = [kind EXCEPT ![q] = k]
          /\ kind \in [Paths -> FS!Kinds] /\ ver \in [Paths -> Nat]
      BY DEF SiteInv, Types, Become
    <2>2. CASE k # "file" /\ ver' = ver
      BY <2>1, <2>2
    <2>3. CASE k = "file" /\ ver' = [ver EXCEPT ![q] = @ + 1]
      BY <2>1, <2>3
    <2> QED BY <2>2, <2>3
  <1>2. Types'
    <2>1. changes' \in 0..MaxChanges
      BY SiteAssumption DEF SiteInv, Types, Become
    <2>2. changed' \subseteq Clients
      BY DEF SiteInv, Types, Become, Busy
    <2> QED BY <1>1, <2>1, <2>2 DEF SiteInv, Types, Become
  <1>3. \A p \in Paths : FileHasVersion(p)' /\ CacheOrdered(p)'
    <2>1. \A p \in Paths : FileHasVersion(p)'
      BY <1>1 DEF SiteInv, Types, FileHasVersion
    <2>2. ASSUME NEW p \in Paths PROVE CacheOrdered(p)'
      BY <1>1 DEF SiteInv, Types, Become, CacheOrdered, Ordered
    <2> QED BY <2>1, <2>2
  <1>4. ASSUME NEW c \in Clients PROVE CopyOrdered(c)'
    <2>1. CASE copy[c] = FS!NoCopy
      BY <2>1 DEF Become, CopyOrdered, FS!NoCopy, FS!AnyPath
    <2>2. CASE copy[c].path \in Paths /\ Ordered(copy[c], ver[copy[c].path]) /\ copy[c] # FS!NoCopy
      <3>1. copy[c] \in [path : Paths, stamp : Nat, first : Nat, rest : Nat]
        BY <2>2 DEF SiteInv, Types
      <3>2. ver[copy[c].path] <= ver'[copy[c].path] /\ ver[copy[c].path] \in Nat /\ ver'[copy[c].path] \in Nat
        BY <1>1, <2>2 DEF SiteInv, Types
      <3>3. Ordered(copy[c], ver'[copy[c].path])
        BY <2>2, <3>1, <3>2 DEF Ordered
      <3>4. copy' = copy
        BY DEF Become
      <3> QED BY <2>2, <3>3, <3>4 DEF CopyOrdered, Ordered
    <2> QED BY <2>1, <2>2 DEF SiteInv, CopyOrdered
  <1>5. ASSUME NEW c \in Clients, NEW p \in Paths PROVE OldestIsKnown(c, p)'
    BY <1>1 DEF SiteInv, Types, Become, OldestIsKnown
  <1>6. ASSUME NEW c \in Clients PROVE HandlerKnows(c)'
    <2>1. CASE kind' = kind
      <3>1. req' = req /\ changed' = changed /\ oldest' = oldest
        BY <2>1 DEF Become
      <3> QED BY <1>1, <2>1, <3>1 DEF SiteInv, Types, HandlerKnows, Examined, FS!Meant, FS!StandsFor
    <2>2. CASE kind' # kind
      <3>1. req' = req /\ oldest' = oldest /\ (req[c].pc # "idle" => c \in changed')
        BY <2>2 DEF Become, Busy
      <3> QED BY <1>1, <3>1 DEF SiteInv, Types, HandlerKnows, Examined, FS!Meant
    <2> QED BY <2>1, <2>2
  <1> QED BY <1>2, <1>3, <1>4, <1>5, <1>6 DEF SiteInv

\* Every step of the service, its clients and the folder keeps the invariant.
LEMMA StepInv == SiteInv /\ [SiteNext]_siteVars => SiteInv'
  <1> SUFFICES ASSUME SiteInv, [SiteNext]_siteVars PROVE SiteInv'
    OBVIOUS
  <1>1. CASE \E c \in Clients : Receive(c) \/ Handle(c)
    BY <1>1, ReceiveInv, HandleInv
  <1>2. CASE \E p \in Paths : Evict(p)
    BY <1>2, EvictInv
  <1>3. CASE \E p \in Paths : Write(p)
    BY <1>3, EditInv DEF Write, FS!Kinds
  <1>4. CASE \E p \in Paths : Delete(p)
    BY <1>4, EditInv DEF Delete, FS!Kinds
  <1>5. CASE \E u \in Urls : MakeDir(u)
    BY <1>5, SiteAssumption, EditInv DEF MakeDir, FS!Kinds
  <1>6. CASE \E u \in Urls : RemoveDir(u)
    BY <1>6, SiteAssumption, EditInv DEF RemoveDir, FS!Kinds
  <1>7. CASE UNCHANGED siteVars
    BY <1>7 DEF SiteInv, Types, siteVars, folder, history, FileHasVersion, CacheOrdered, CopyOrdered, Ordered,
                HandlerKnows, OldestIsKnown, FS!Meant, FS!StandsFor, FS!Kinds, FS!Answers, FS!NoCopy, FS!AnyPath
  <1> QED BY <1>1, <1>2, <1>3, <1>4, <1>5, <1>6, <1>7 DEF SiteNext, EditFolder

\* The invariant holds in every reachable state.
LEMMA InvHolds == SiteSpec => []SiteInv
  BY InitInv, StepInv, PTL DEF SiteSpec, SiteSafety

\* Every variable of the static site keeps its type: in particular nothing is
\* cached or sent that was not read to its end from versions the file has had.
THEOREM SiteTypes == SiteSpec => []SiteTypeOK
  <1>1. SiteInv => SiteTypeOK
    <2> SUFFICES ASSUME SiteInv PROVE SiteTypeOK
      OBVIOUS
    <2>1. ASSUME NEW p \in Paths
          PROVE  cache[p] \in {NoEntry} \cup [stamp : Versions, first : Versions, rest : Versions]
      BY DEF SiteInv, Types, CacheOrdered, Ordered, Versions
    <2>2. ASSUME NEW c \in Clients
          PROVE  copy[c] \in {FS!NoCopy} \cup
                             [path : Paths, stamp : Versions, first : Versions, rest : Versions]
      BY DEF SiteInv, Types, CopyOrdered, Ordered, Versions
    <2>3. cache \in [Paths -> {NoEntry} \cup [stamp : Versions, first : Versions, rest : Versions]]
      BY <2>1 DEF SiteInv, Types
    <2>4. copy \in [Clients -> {FS!NoCopy} \cup
                               [path : Paths, stamp : Versions, first : Versions, rest : Versions]]
      BY <2>2 DEF SiteInv, Types
    <2> QED BY <2>3, <2>4 DEF SiteInv, Types, SiteTypeOK
  <1> QED BY <1>1, InvHolds, PTL

\* The cache never answers with stale or mixed data: an entry whose metadata is
\* that of the file now holds the file as it is now.
THEOREM CacheCurrent == SiteSpec => []CacheIsCurrent
  <1>1. SiteInv => CacheIsCurrent
    <2> SUFFICES ASSUME SiteInv, NEW p \in Paths, kind[p] = "file", cache[p].stamp = ver[p]
                 PROVE  cache[p].first = ver[p] /\ cache[p].rest = ver[p]
      BY DEF CacheIsCurrent
    <2>1. cache[p] # NoEntry
      BY DEF SiteInv, Types, FileHasVersion, NoEntry
    <2>2. Ordered(cache[p], ver[p])
      BY <2>1 DEF SiteInv, CacheOrdered
    <2>3. cache[p].first \in Nat /\ cache[p].rest \in Nat /\ ver[p] \in Nat
      BY DEF SiteInv, Types
    <2> QED BY <2>2, <2>3 DEF Ordered
  <1> QED BY <1>1, InvHolds, PTL

-----------------------------------------------------------------------------
(* The refinement *)

\* A handler that goes on is invisible to the visitors.
LEMMA GotoStutters ==
  ASSUME SiteInv, NEW c \in Clients, NEW next, Goto(c, next), req[c].pc # "idle", next.pc # "idle"
  PROVE  UNCHANGED FS!serverVars
  <1>1. Busy' = Busy
    BY DEF SiteInv, Types, Goto, Busy
  <1> QED BY <1>1 DEF Goto, folder, history, FS!serverVars

\* The end of a handler is the end of the request in FileServer.
LEMMA ReturnIsDone ==
  ASSUME SiteInv, NEW c \in Clients, NEW status, Return(c, status), req[c].pc # "idle"
  PROVE  FS!Done(c, status)
  <1>1. c \in Busy /\ Busy' = Busy \ {c}
    BY DEF SiteInv, Types, Return, Idle, Handler, Busy
  <1>2. \A o \in Clients \ {c} : oldest'[o] = oldest[o] /\ (o \in changed' <=> o \in changed)
    BY DEF SiteInv, Types, Return
  <1> QED BY <1>1, <1>2 DEF Return, folder, FS!Done

\* An error of the handler is FileServer's failure.
LEMMA NoBodyFails ==
  ASSUME SiteInv, NEW c \in Clients, NoBody(c, "none"), req[c].pc # "idle"
  PROVE  FS!Fail(c)
  BY ReturnIsDone DEF NoBody, FS!Fail

\* A body with parts in order is one FileServer may serve.
LEMMA OkServes ==
  ASSUME SiteInv, NEW c \in Clients, NEW first \in Nat, NEW rest \in Nat, Ok(c, first, rest),
         req[c].pc \in Examined, req[c].stamp <= first, first <= rest, rest <= ver[req[c].path]
  PROVE  FS!Serve(c)
  <1> DEFINE p == req[c].path
  <1>1. p \in Paths /\ FS!Meant(c, p)
    BY DEF SiteInv, Types, HandlerKnows
  <1>2. req[c].stamp \in FS!During(c, p) /\ first \in FS!During(c, p) /\ rest \in FS!During(c, p)
    BY DEF SiteInv, Types, HandlerKnows, FS!During
  <1>3. FS!Done(c, "200")
    BY ReturnIsDone DEF Ok, Examined
  <1> QED BY <1>1, <1>2, <1>3 DEF Ok, FS!Serve

\* Looking at the metadata answers 304 as FileServer may, or is no step of it.
LEMMA ExamineRefines ==
  ASSUME SiteInv, NEW c \in Clients, NEW p \in Paths, Examine(c, p),
         req[c].pc # "idle", kind[p] = "file", FS!Meant(c, p)
  PROVE  FS!NotModified(c) \/ UNCHANGED FS!serverVars
  <1>1. CASE TagMatches(c, p) /\ NoBody(c, "304")
    <2>1. 0 < ver[p] /\ oldest[c][p] <= ver[p] /\ copy[c].path = p /\ copy[c].stamp = ver[p]
      BY <1>1 DEF SiteInv, Types, FileHasVersion, OldestIsKnown, TagMatches
    <2>2. copy[c] # FS!NoCopy
      BY <2>1 DEF FS!NoCopy
    <2>3. copy[c].first = ver[p] /\ copy[c].rest = ver[p]
      <3>1. copy[c].first \in Nat /\ copy[c].rest \in Nat /\ ver[p] \in Nat
        BY <2>2 DEF SiteInv, Types
      <3>2. Ordered(copy[c], ver[p])
        BY <2>1, <2>2 DEF SiteInv, CopyOrdered
      <3> QED BY <2>1, <3>1, <3>2 DEF Ordered
    <2>4. copy[c].stamp \in FS!During(c, copy[c].path)
      BY <2>1 DEF SiteInv, Types, FS!During
    <2> QED BY <1>1, <2>1, <2>3, <2>4, ReturnIsDone DEF NoBody, FS!NotModified
  <1>2. CASE Goto(c, Handler(IF Cacheable(p, ver[p]) THEN "cache" ELSE "read", p, ver[p]))
    BY <1>2, GotoStutters DEF Handler
  <1> QED BY <1>1, <1>2 DEF Examine

\* Every step of a handler is a step of FileServer or none.
LEMMA HandleRefines ==
  ASSUME SiteInv, NEW c \in Clients, Handle(c)
  PROVE  FS!Respond(c) \/ UNCHANGED FS!serverVars
  <1> USE DEF FS!Respond
  <1>1. CASE RefuseRequest(c)
    BY <1>1, NoBodyFails DEF RefuseRequest
  <1>2. CASE IoError(c)
    BY <1>2, NoBodyFails DEF IoError
  <1>3. CASE Metadata(c)
    <2> DEFINE d == req[c].path
    <2>1. d = Direct[Url[c]] /\ d \in Paths
      BY <1>3 DEF SiteInv, Types, HandlerKnows, Metadata
    <2>2. CASE kind[d] = "file" /\ Examine(c, d)
      BY <1>3, <2>1, <2>2, ExamineRefines DEF Metadata, FS!Meant, FS!StandsFor
    <2>3. ASSUME NEW p, TryNext(c, p) PROVE UNCHANGED FS!serverVars
      BY <1>3, <2>3, GotoStutters DEF Metadata, TryNext, Handler
    <2>4. CASE kind[d] = "absent" /\ Url[c] \in HasExtension /\ NoBody(c, "404")
      <3>1. \A p \in Paths : ~ FS!StandsFor(Url[c], p)
        BY <2>1, <2>4 DEF FS!StandsFor
      <3> QED BY <1>3, <2>4, <3>1, ReturnIsDone DEF Metadata, NoBody, FS!NotFound
    <2> QED BY <1>3, <2>2, <2>3, <2>4 DEF Metadata
  <1>4. CASE try_metadata(c)
    <2>1. req[c].path \in Paths
      BY DEF SiteInv, Types
    <2>2. CASE kind[req[c].path] = "file" /\ Examine(c, req[c].path)
      BY <1>4, <2>1, <2>2, ExamineRefines, SecondIsMeant DEF try_metadata
    <2>3. CASE kind[req[c].path] # "file" /\ NoBody(c, "404")
      <3>1. c \in changed \/ \A p \in Paths : ~ FS!StandsFor(Url[c], p)
        BY <1>4, <2>3 DEF SiteInv, HandlerKnows, try_metadata, FS!StandsFor
      <3> QED BY <1>4, <2>3, <3>1, ReturnIsDone DEF try_metadata, NoBody, FS!NotFound
    <2> QED BY <1>4, <2>2, <2>3 DEF try_metadata
  <1>5. CASE CacheGet(c)
    <2> DEFINE entry == cache[req[c].path]
    <2>1. entry \in [stamp : Nat, first : Nat, rest : Nat] /\ req[c].path \in Paths
      BY DEF SiteInv, Types
    <2>2. CASE Hit(c, entry) /\ Ok(c, entry.first, entry.rest)
      <3>1. /\ entry.first \in Nat /\ entry.rest \in Nat /\ req[c].stamp <= entry.first
            /\ entry.first <= entry.rest /\ entry.rest <= ver[req[c].path]
        BY <2>1, <2>2 DEF SiteInv, CacheOrdered, Ordered, Hit
      <3>2. req[c].pc \in Examined
        BY <1>5 DEF CacheGet, Examined
      <3> HIDE DEF entry
      <3> QED BY <2>2, <3>1, <3>2, OkServes
    <2>3. CASE Goto(c, [req[c] EXCEPT !.pc = IF entry = NoEntry THEN "read" ELSE "remove"])
      BY <1>5, <2>3, GotoStutters DEF SiteInv, Types, CacheGet
    <2> QED BY <1>5, <2>2, <2>3 DEF CacheGet
  <1>6. CASE CacheRemove(c)
    BY <1>6, GotoStutters DEF SiteInv, Types, CacheRemove
  <1>7. CASE Read(c)
    BY <1>7, GotoStutters DEF SiteInv, Types, Read
  <1>8. CASE ReadRest(c)
    BY <1>8, GotoStutters DEF SiteInv, Types, ReadRest
  <1>9. CASE StreamRest(c)
    <2>1. PICK v \in Reads(req[c].path, req[c].first) : Ok(c, req[c].first, v)
      BY <1>9 DEF StreamRest
    <2>2. v \in Nat /\ req[c].first <= v /\ v <= ver[req[c].path]
      BY <1>9, ReadsAreOrdered DEF StreamRest
    <2>3. req[c].first \in Nat /\ req[c].stamp <= req[c].first /\ req[c].pc \in Examined
      BY <1>9 DEF SiteInv, Types, HandlerKnows, Examined, StreamRest
    <2> QED BY <2>1, <2>2, <2>3, OkServes
  <1>10. CASE CacheInsert(c)
    <2>1. /\ req[c].first \in Nat /\ req[c].rest \in Nat /\ req[c].stamp <= req[c].first
          /\ req[c].first <= req[c].rest /\ req[c].rest <= ver[req[c].path] /\ req[c].pc \in Examined
      BY <1>10 DEF SiteInv, Types, HandlerKnows, Examined, CacheInsert
    <2> QED BY <1>10, <2>1, OkServes DEF CacheInsert
  <1> QED
    BY <1>1, <1>2, <1>3, <1>4, <1>5, <1>6, <1>7, <1>8, <1>9, <1>10 DEF Handle

\* Every change of the folder is one of FileServer.
LEMMA EditRefines ==
  ASSUME SiteInv, NEW q \in Paths, NEW k, Become(q, k),
         ver' = ver \/ ver' = [ver EXCEPT ![q] = @ + 1]
  PROVE  FS!Edit
  <1>1. \A p \in Paths : ver'[p] >= ver[p]
    BY DEF SiteInv, Types
  <1>2. Busy' = Busy
    BY DEF Become, Busy
  <1> QED BY <1>1, <1>2 DEF Become, FS!Edit

\* Every step of the service is a step of FileServer or leaves its variables alone.
LEMMA StepRefines ==
  ASSUME SiteInv, [SiteNext]_siteVars
  PROVE  [FS!ServerNext]_(FS!serverVars)
  <1> USE DEF FS!ServerNext
  <1>1. CASE \E c \in Clients : Receive(c)
    <2>1. PICK c \in Clients : Receive(c)
      BY <1>1
    <2>2. c \notin Busy /\ Busy' = Busy \cup {c}
      BY <2>1 DEF SiteInv, Types, Receive, Handler, Busy
    <2>3. FS!Ask(c)
      BY <2>1, <2>2 DEF Receive, folder, FS!Ask
    <2> QED BY <2>3
  <1>2. CASE \E c \in Clients : Handle(c)
    BY <1>2, HandleRefines
  <1>3. CASE \E p \in Paths : Evict(p)
    <2>1. Busy' = Busy
      BY <1>3 DEF Evict, Busy
    <2> QED BY <1>3, <2>1 DEF Evict, folder, history, FS!serverVars
  <1>4. CASE EditFolder
    <2>1. FS!Edit
      BY <1>4, SiteAssumption, EditRefines DEF EditFolder, Write, Delete, MakeDir, RemoveDir
    <2> QED BY <2>1
  <1>5. CASE UNCHANGED siteVars
    BY <1>5 DEF siteVars, folder, history, Busy, FS!serverVars
  <1> QED BY <1>1, <1>2, <1>3, <1>4, <1>5 DEF SiteNext

\* The static site, cache and all, is a file server: whatever handlers and
\* edits interleave, every answer is one FileServer allows.
THEOREM SiteImplementsFileServer == SiteSpec => FS!ServerSafety
  <1>1. SiteInit => FS!ServerInit
    <2> SUFFICES ASSUME SiteInit PROVE FS!ServerInit
      OBVIOUS
    <2>1. Busy = {}
      BY DEF SiteInit, Busy, Idle, Handler
    <2>2. kind \in [Paths -> FS!Kinds] /\ ver \in [Paths -> Nat]
      BY DEF SiteInit, FS!Kinds
    <2>3. oldest \in [Clients -> [Paths -> Nat]]
      BY DEF SiteInit, NoVersions
    <2> QED BY <2>1, <2>2, <2>3 DEF SiteInit, FS!ServerInit
  <1>2. SiteInv /\ [SiteNext]_siteVars => [FS!ServerNext]_(FS!serverVars)
    BY StepRefines
  <1> QED BY <1>1, <1>2, InvHolds, PTL DEF SiteSpec, SiteSafety, FS!ServerSafety
=============================================================================
