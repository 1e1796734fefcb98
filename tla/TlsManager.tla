----------------------------- MODULE TlsManager -----------------------------
(***************************************************************************)
(* Certificates on disk and in memory: pingoo/tls/tls_manager.rs and       *)
(* certificate.rs, with the account file of acme.rs.                       *)
(*                                                                         *)
(* A certificate is a pair of files, <name>.pem and <name>.key.  Content   *)
(* is the serial of the key pair it belongs to: two files load together if *)
(* their serials agree.  Serial 1 is a pair that was in the folder before  *)
(* the first start, or the self-signed default certificate; the others are *)
(* issued by the ACME directory.  TlsManager::new reads the folder,        *)
(* creates the default certificate and the ACME account if they do not     *)
(* exist, and fails on any file it cannot use.  fs::write truncates a file *)
(* before it fills it: cut short, it leaves the old content or a partial   *)
(* file.                                                                   *)
(***************************************************************************)
EXTENDS Integers, FiniteSets, SequencesExt

CONSTANTS
    Domains,       \* host names with a certificate of their own (acme.domains)
    Operator,      \* other certificates the operator may have put into the folder
    Matches,       \* wildcard pattern -> the host names it matches
    Folders,       \* what the folder may hold before the first start
    MaxStops,      \* bound: exits and crashes
    MaxFailures    \* bound: failed requests to the ACME directory, failed reads and writes

Default == "default"
Names == Domains \cup Operator \cup {Default}

Absent == 0
Partial == -1      \* cut short, or nothing that parses or fits the other file

Patterns == DOMAIN Matches

\* A folder: the content of its files and the names in the certificates with
\* serial 1, those without a wildcard (hostnames) and those with one (patterns).
Folder ==
    [pems : [Names -> {Absent, Partial, 1}], keys : [Names -> {Absent, Partial, 1}],
     account : {Absent, Partial, 1},
     hostnames : [Names -> SUBSET Domains], patterns : [Names -> SUBSET Patterns]]

\* What load_or_create_default_certificate asks of a default certificate, and
\* generate_self_signed_certificates makes.
IsDefault(hostnames, patterns) == hostnames = {} /\ patterns = {"*"}

ASSUME TlsAssumption ==
    /\ IsFiniteSet(Domains) /\ IsFiniteSet(Operator)
    /\ "*" \in Patterns /\ Matches \in [Patterns -> SUBSET Domains] /\ Matches["*"] = Domains
    /\ Folders \subseteq Folder
    /\ \A f \in Folders :
        f.pems[Default] = Absent => IsDefault(f.hostnames[Default], f.patterns[Default])
    /\ Default \notin Domains \cup Operator
    /\ "account" \notin Domains \cup Operator    \* suspect's mark for acme.json, no certificate's name
    /\ MaxStops \in Nat /\ MaxFailures \in Nat

VARIABLES
    folder,                  \* what the folder held before the first start
    pems, keys,              \* content of <name>.pem and <name>.key
    account,                 \* content of acme.json
    proc,                    \* "down", the step TlsManager::new is at, "up" or "failed"
    certificates,            \* memory: the certificate inserted for a domain
    wildcard_certificates,   \* memory: names of wildcard certificates, in directory order
    own,                     \* domains whose own pair this process has read, and no other
                             \* certificate for them, or has had issued (not in the code)
    stops, failures,
    suspect                  \* pairs that may not load: saves cut short and not repeated
                             \* since, and what the operator left so (not in the code)

files == <<folder, pems, keys, account>>
memory == <<certificates, wildcard_certificates, own>>
bounds == <<stops, failures>>
tlsVars == <<files, proc, memory, bounds, suspect>>

NoCertificate == [name |-> "none", serial |-> Absent]
NoCertificates == [d \in Domains |-> NoCertificate]

\* parse_certificate_and_private_key: both files are whole and belong together.
Loads(n) == pems[n] > 0 /\ keys[n] = pems[n]

DefaultIsValid == IsDefault(folder.hostnames[Default], folder.patterns[Default])

\* The first start, on an empty folder or on what the operator or an earlier
\* installation left in it, pairs that cannot be used included.
TlsInit ==
    /\ folder \in Folders
    /\ pems = folder.pems /\ keys = folder.keys /\ account = folder.account
    /\ proc = "down"
    /\ certificates = NoCertificates
    /\ wildcard_certificates = <<>>
    /\ own = {}
    /\ stops = 0 /\ failures = 0
    /\ suspect = {n \in Names : pems[n] # Absent /\ ~ Loads(n)}
                  \cup (IF DefaultIsValid THEN {} ELSE {Default})
                  \cup (IF account = Partial THEN {"account"} ELSE {})

\* What a write that is cut short may leave of a file.
Cut(content) == {content, Partial}

\* load_certificates takes every *.pem file: the test at line 155 compares
\* "default.pem" with "default" and never excludes a file.
Listed == {n \in Names : pems[n] # Absent}

\* metadata.hostnames and wildcard_matchers of the certificate in <name>.pem;
\* the ACME directory issues for one domain.
hostnames(n) == IF pems[n] = 1 THEN folder.hostnames[n] ELSE {n}
wildcard_matchers(n) == IF pems[n] = 1 THEN folder.patterns[n] ELSE {}

is_match(w, sni) == \E p \in folder.patterns[w] : sni \in Matches[p]

\* ResolvesServerCert::resolve, the name of the certificate for a server name:
\* an exact match, the first wildcard certificate that matches, the default.
resolve(sni) ==
    LET matching == SelectSeq(wildcard_certificates, LAMBDA w : is_match(w, sni))
    IN  IF certificates[sni] # NoCertificate THEN certificates[sni].name
        ELSE IF matching # <<>> THEN Head(matching) ELSE Default

-----------------------------------------------------------------------------
(* TlsManager::new *)

Naming(read, d) == {n \in read : d \in hostnames(n)}

\* Of several certificates for one host name the last insert stays.
LastOf(place, ns) == CHOOSE n \in ns : \A m \in ns : place[m] <= place[n]

\* load_certificates on the files it has listed, in directory order, and the
\* first half of load_or_create_default_certificate, whose look-up of
\* default.pem does not depend on the listing.
Load(read) ==
    /\ proc = "down"
    /\ \A n \in read \cup (Listed \cap {Default}) : Loads(n)
    /\ DefaultIsValid
    /\ \E place \in Injection(read, 1 .. Cardinality(read)) :
        /\ certificates' = [d \in Domains |->
                IF Naming(read, d) = {} THEN NoCertificate
                ELSE LET n == LastOf(place, Naming(read, d)) IN [name |-> n, serial |-> pems[n]]]
        /\ wildcard_certificates' \in
                {w \in SetToSeqs({n \in read : wildcard_matchers(n) # {}}) :
                    \A i, j \in DOMAIN w : i < j => place[w[i]] < place[w[j]]}
    /\ own' = {d \in Domains : Naming(read, d) = {d}}
    /\ proc' = IF Default \in Listed THEN "account" ELSE "default_pem"
    /\ UNCHANGED <<files, stops, suspect>>

LoadCertificates == Load(Listed) /\ UNCHANGED failures

\* An error of next_entry() ends the listing like the end of the directory.
LoadCutShort ==
    /\ failures < MaxFailures
    /\ failures' = failures + 1
    /\ \E read \in SUBSET Listed : Load(read)

\* A pair cannot be used, or default.pem is not a certificate for "*" alone:
\* the error ends the process, and every later start that reads the same files.
LoadFails ==
    /\ proc = "down"
    /\ (\E n \in Listed : ~ Loads(n)) \/ ~ DefaultIsValid
    /\ proc' = "failed"
    /\ UNCHANGED <<files, memory, bounds, suspect>>

\* A file or the folder cannot be created, read or given its permissions this
\* time: new() returns the error before it has written anything.
ReadFails ==
    /\ proc = "down"
    /\ failures < MaxFailures
    /\ failures' = failures + 1
    /\ UNCHANGED <<files, proc, memory, stops, suspect>>

Forget ==
    /\ proc' = "down"
    /\ certificates' = NoCertificates
    /\ wildcard_certificates' = <<>>
    /\ own' = {}

\* generate_self_signed_certificates fails before anything is written: on a
\* 29th of February its end of validity, a year later, is no date and it panics.
GenerateFails ==
    /\ proc = "default_pem" /\ failures < MaxFailures
    /\ failures' = failures + 1
    /\ Forget
    /\ UNCHANGED <<files, stops, suspect>>

\* The self-signed default certificate is saved, first the certificate ...
WriteDefaultPem ==
    /\ proc = "default_pem"
    /\ pems' = [pems EXCEPT ![Default] = 1]
    /\ proc' = "default_key"
    /\ UNCHANGED <<folder, keys, account, memory, bounds, suspect>>

\* ... and then its key.
WriteDefaultKey ==
    /\ proc = "default_key"
    /\ keys' = [keys EXCEPT ![Default] = 1]
    /\ proc' = "account"
    /\ suspect' = suspect \ {Default}
    /\ UNCHANGED <<folder, pems, account, memory, bounds>>

\* load_or_create_acme_account: an account is read, or created and saved.
LoadOrCreateAccount ==
    /\ proc = "account"
    /\ account # Partial
    /\ account' = 1
    /\ proc' = "up"
    /\ suspect' = suspect \ {"account"}
    /\ UNCHANGED <<folder, pems, keys, memory, bounds>>

\* acme.json is not valid JSON.
AccountFails ==
    /\ proc = "account"
    /\ account = Partial
    /\ proc' = "failed"
    /\ UNCHANGED <<files, memory, bounds, suspect>>

\* What is left of the files a start was writing when it ends early.
CutStart ==
    \/ /\ proc = "default_pem"
       /\ \E c \in Cut(pems[Default]) : pems' = [pems EXCEPT ![Default] = c]
       /\ UNCHANGED <<folder, keys, account>>
       /\ suspect' = suspect \cup {Default}
    \/ /\ proc = "default_key"
       /\ \E c \in Cut(keys[Default]) : keys' = [keys EXCEPT ![Default] = c]
       /\ UNCHANGED <<folder, pems, account>>
       /\ suspect' = suspect \cup {Default}
    \/ /\ proc = "account" /\ account = Absent
       /\ account' \in Cut(account)
       /\ UNCHANGED <<folder, pems, keys>>
       /\ suspect' = suspect \cup {"account"}
    \/ /\ proc = "account" /\ account # Absent
       /\ UNCHANGED <<files, suspect>>

\* A write fails, or the directory does not create the account: new() returns
\* the error and the process ends.
StartFails ==
    /\ failures < MaxFailures
    /\ CutStart
    /\ failures' = failures + 1
    /\ Forget
    /\ UNCHANGED stops

\* The process is stopped while it starts.
StopStart ==
    /\ stops < MaxStops
    /\ CutStart
    /\ stops' = stops + 1
    /\ Forget
    /\ UNCHANGED failures

Start ==
    \/ LoadCertificates \/ LoadCutShort \/ LoadFails \/ ReadFails
    \/ GenerateFails \/ WriteDefaultPem \/ WriteDefaultKey
    \/ LoadOrCreateAccount \/ AccountFails
    \/ StartFails \/ StopStart
=============================================================================
