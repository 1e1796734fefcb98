----------------------------- MODULE FileServer -----------------------------
(***************************************************************************)
(* What a static site promises its visitors, whatever it caches and        *)
(* however the site is edited meanwhile: an answer is made of what the     *)
(* files were while the request was being handled, from the file the URL   *)
(* stands for, and 304 is only said of a copy that is such a content.      *)
(*                                                                         *)
(* A version of a file is a content with a modification time and a size of *)
(* its own; ver counts the versions a path has had.  A body is given by    *)
(* the versions its first part and its rest were read from; the headers    *)
(* (Content-Length, ETag) by the version in stamp.                         *)
(***************************************************************************)
EXTENDS Naturals

CONSTANTS
    Clients, Urls, Paths,
    Url,                    \* what each client asks for
    Direct, Index, Html,    \* of a URL: its path, path/index.html, path.html
    HasExtension            \* URLs whose path has an extension

VARIABLES
    kind, ver,         \* the file system
    pending,           \* the clients whose requests are being handled
    oldest, changed,   \* the oldest version each path had since; whether a path appeared or vanished since
    answer, copy       \* the last answer to each client, and the last body it got

serverVars == <<kind, ver, pending, oldest, changed, answer, copy>>

Kinds == {"absent", "dir", "file"}

\* "none": no answer yet, or an error, which says nothing of the site.
Answers == {"none", "200", "304", "404"}

AnyPath == CHOOSE p \in Paths : TRUE
NoCopy == [path |-> AnyPath, stamp |-> 0, first |-> 0, rest |-> 0]

\* The path is the file a URL stands for.
StandsFor(u, p) ==
    /\ kind[p] = "file"
    /\ \/ p = Direct[u]
       \/ kind[Direct[u]] = "dir" /\ p = Index[u]
       \/ kind[Direct[u]] = "absent" /\ u \notin HasExtension /\ p = Html[u]

\* The versions a path has had since the client asked.
During(c, p) == oldest[c][p] .. ver[p]

Meant(c, p) == c \in changed \/ StandsFor(Url[c], p)

ServerInit ==
    /\ kind \in [Paths -> Kinds] /\ ver \in [Paths -> Nat]
    /\ pending = {}
    /\ oldest \in [Clients -> [Paths -> Nat]] /\ changed = {}
    /\ answer = [c \in Clients |-> "none"] /\ copy = [c \in Clients |-> NoCopy]

\* The site is edited.
Edit ==
    /\ \A p \in Paths : ver'[p] >= ver[p]
    /\ changed' = IF kind' = kind THEN changed ELSE changed \cup pending
    /\ UNCHANGED <<pending, oldest, answer, copy>>

Ask(c) ==
    /\ c \notin pending /\ pending' = pending \cup {c}
    /\ oldest' = [oldest EXCEPT ![c] =
                    [p \in Paths |-> IF kind[p] = "file" THEN ver[p] ELSE ver[p] + 1]]
    /\ changed' = changed \ {c}
    /\ answer' = [answer EXCEPT ![c] = "none"]
    /\ UNCHANGED <<kind, ver, copy>>

\* What is known of a request is of no interest once it is answered.
Done(c, status) ==
    /\ c \in pending /\ pending' = pending \ {c}
    /\ answer' = [answer EXCEPT ![c] = status]
    /\ \A o \in Clients \ {c} : oldest'[o] = oldest[o] /\ (o \in changed' <=> o \in changed)
    /\ UNCHANGED <<kind, ver>>

\* The body is not older than the headers.
Serve(c) ==
    \E p \in Paths : \E s, a, b \in During(c, p) :
        /\ Meant(c, p) /\ s <= a /\ a <= b
        /\ copy' = [copy EXCEPT ![c] = [path |-> p, stamp |-> s, first |-> a, rest |-> b]]
        /\ Done(c, "200")

\* The client's copy is a whole file, as it was at some moment of the request.
NotModified(c) ==
    /\ copy[c].stamp \in During(c, copy[c].path) /\ Meant(c, copy[c].path)
    /\ copy[c].first = copy[c].stamp /\ copy[c].rest = copy[c].stamp
    /\ Done(c, "304")
    /\ UNCHANGED copy

\* Never said of a URL that stands for a file all along.
NotFound(c) ==
    /\ c \in changed \/ \A p \in Paths : ~ StandsFor(Url[c], p)
    /\ Done(c, "404")
    /\ UNCHANGED copy

Fail(c) == Done(c, "none") /\ UNCHANGED copy

Respond(c) == Serve(c) \/ NotModified(c) \/ NotFound(c) \/ Fail(c)

ServerNext == Edit \/ \E c \in Clients : Ask(c) \/ Respond(c)

ServerSafety == ServerInit /\ [][ServerNext]_serverVars

\* Every request is answered.
EveryRequestIsAnswered == \A c \in Clients : c \in pending ~> c \notin pending

ServerSpec == ServerSafety /\ EveryRequestIsAnswered
=============================================================================
