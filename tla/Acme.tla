-------------------------------- MODULE Acme --------------------------------
(***************************************************************************)
(* Automatic certificates: pingoo/tls/acme.rs on top of TlsManager.        *)
(*                                                                         *)
(* A background loop starts a task for every domain whose certificate is   *)
(* missing or expires within 30 days.  A task orders a certificate, puts   *)
(* the challenge of its order where the TLS listeners answer tls-alpn-01   *)
(* from, waits for the directory, replaces the certificate in memory and   *)
(* saves the pair.  The n-th order has key authorization n and, if it      *)
(* succeeds, the certificate with serial n + 1.                            *)
(*                                                                         *)
(* The loop sleeps six hours; the polls of a task give up after the 30     *)
(* seconds of RetryPolicy and its save after five attempts, so that the    *)
(* tasks of one scan are over before the next.                             *)
(***************************************************************************)
EXTENDS TlsManager

CONSTANTS
    Retries,       \* attempts to save a pair, 5 in acme.rs
    MaxRenewals    \* bound: certificates that come close to their expiry

ASSUME AcmeAssumption == Retries \in Nat \ {0} /\ MaxRenewals \in Nat

VARIABLES
    task,          \* [pc, n, attempt] of each domain's task
    challenges,    \* the challenge store: an order's number, 0 for none
    orders,        \* orders placed so far
    expiring,      \* certificates that expire within 30 days
    renewals,
    saved          \* the last serial reported as saved (not in the code)

acmeVars == <<task, challenges, orders, expiring, renewals, saved>>
allVars == <<tlsVars, acmeVars>>

Idle == [pc |-> "idle", n |-> 0, attempt |-> 0]
NoTasks == [d \in Domains |-> Idle]
NoChallenges == [d \in Domains |-> 0]

AcmeInit ==
    /\ TlsInit
    /\ task = NoTasks
    /\ challenges = NoChallenges
    /\ orders = 0
    /\ expiring = {}
    /\ renewals = 0
    /\ saved = [d \in Domains |->
                    IF Loads(d) /\ d \in folder.hostnames[d] THEN 1 ELSE Absent]

Serial(n) == n + 1

\* Mutant: only domains without a certificate are ordered.
OnlyMissing == {d \in Domains : certificates[d] = NoCertificate}

domains_to_order == {d \in Domains : certificates[d] \in expiring \cup {NoCertificate}}

-----------------------------------------------------------------------------
\* One turn of the loop; a turn with nothing to order changes nothing.
Scan ==
    /\ proc = "up"
    /\ task = NoTasks
    /\ domains_to_order # {}
    /\ task' = [d \in Domains |->
                    IF d \in domains_to_order THEN [Idle EXCEPT !.pc = "spawned"] ELSE Idle]
    /\ UNCHANGED <<tlsVars, challenges, orders, expiring, renewals, saved>>

\* Mutant: the challenge of an earlier order is kept.
PlaceOrderKeeping(d) ==
    /\ task[d].pc = "spawned"
    /\ orders' = orders + 1
    /\ task' = [task EXCEPT ![d].pc = "polling", ![d].n = orders']
    /\ challenges' = [challenges EXCEPT ![d] = IF @ = 0 THEN orders' ELSE @]
    /\ UNCHANGED <<tlsVars, expiring, renewals, saved>>

\* order_certificate up to set_ready.
PlaceOrder(d) ==
    /\ task[d].pc = "spawned"
    /\ orders' = orders + 1
    /\ task' = [task EXCEPT ![d].pc = "polling", ![d].n = orders']
    /\ challenges' = [challenges EXCEPT ![d] = orders']
    /\ UNCHANGED <<tlsVars, expiring, renewals, saved>>

\* Any error of order_certificate: the task ends, the challenge stays.
OrderFails(d) ==
    /\ task[d].pc \in {"spawned", "polling", "finalizing"}
    /\ failures < MaxFailures
    /\ failures' = failures + 1
    /\ task' = [task EXCEPT ![d] = Idle]
    /\ UNCHANGED <<files, proc, memory, stops, suspect, challenges, orders, expiring, renewals, saved>>

\* get_tls_alpn_01_cert: the key authorization a validator of the domain sees.
AlpnAnswer(d) == challenges[d]

\* The directory connects with the acme-tls/1 protocol; poll_ready returns Ready.
Validate(d) ==
    /\ task[d].pc = "polling"
    /\ AlpnAnswer(d) = task[d].n
    /\ task' = [task EXCEPT ![d].pc = "finalizing"]
    /\ UNCHANGED <<tlsVars, challenges, orders, expiring, renewals, saved>>

\* Mutant: the new certificate is only saved.
FinalizeOnDisk(d) ==
    /\ task[d].pc = "finalizing"
    /\ challenges' = [challenges EXCEPT ![d] = 0]
    /\ task' = [task EXCEPT ![d].pc = "key"]
    /\ UNCHANGED <<tlsVars, orders, expiring, renewals, saved>>

\* finalize and poll_certificate; the certificate replaces the old one in memory.
Finalize(d) ==
    /\ task[d].pc = "finalizing"
    /\ challenges' = [challenges EXCEPT ![d] = 0]
    /\ certificates' = [certificates EXCEPT ![d] = [name |-> d, serial |-> Serial(task[d].n)]]
    /\ own' = own \cup {d}
    /\ task' = [task EXCEPT ![d].pc = "key"]
    /\ UNCHANGED <<files, proc, wildcard_certificates, bounds, suspect, orders, expiring, renewals, saved>>

\* Mutant: an existing key is kept.
WriteKeyOnce(d) ==
    /\ task[d].pc = "key"
    /\ keys' = [keys EXCEPT ![d] = IF @ = Absent THEN Serial(task[d].n) ELSE @]
    /\ task' = [task EXCEPT ![d].pc = "pem"]
    /\ UNCHANGED <<folder, pems, account, proc, memory, bounds, suspect, challenges, orders, expiring, renewals, saved>>

\* The save: first the key ...
WriteKey(d) ==
    /\ task[d].pc = "key"
    /\ keys' = [keys EXCEPT ![d] = Serial(task[d].n)]
    /\ task' = [task EXCEPT ![d].pc = "pem"]
    /\ UNCHANGED <<folder, pems, account, proc, memory, bounds, suspect, challenges, orders, expiring, renewals, saved>>

\* ... and then the certificate chain.
WritePem(d) ==
    /\ task[d].pc = "pem"
    /\ pems' = [pems EXCEPT ![d] = Serial(task[d].n)]
    /\ task' = [task EXCEPT ![d] = Idle]
    /\ suspect' = suspect \ {d}
    /\ saved' = [saved EXCEPT ![d] = Serial(task[d].n)]
    /\ UNCHANGED <<folder, keys, account, proc, memory, bounds, challenges, orders, expiring, renewals>>

\* What is left of the pairs of ds, whose tasks are writing, when the writes are cut.
CutPairs(ds) ==
    \E cut \in SUBSET ds :
        /\ keys' = [n \in Names |-> IF n \in cut /\ task[n].pc = "key" THEN Partial ELSE keys[n]]
        /\ pems' = [n \in Names |-> IF n \in cut /\ task[n].pc = "pem" THEN Partial ELSE pems[n]]

Saving == {d \in Domains : task[d].pc \in {"key", "pem"}}

\* Mutant: one attempt too many.
RetriesLeftPlusOne(d) == task[d].attempt < Retries

\* The condition of retry() for another attempt.
RetriesLeft(d) == task[d].attempt + 1 < Retries

\* A write fails: retry() starts over with the key, or gives up.
WriteFails(d) ==
    /\ failures < MaxFailures
    /\ d \in Saving
    /\ CutPairs({d})
    /\ failures' = failures + 1
    /\ IF RetriesLeft(d)
       THEN /\ task' = [task EXCEPT ![d].pc = "key", ![d].attempt = @ + 1]
            /\ UNCHANGED suspect
       ELSE /\ task' = [task EXCEPT ![d] = Idle]
            /\ suspect' = suspect \cup {d}
    /\ UNCHANGED <<folder, account, proc, memory, stops, challenges, orders, expiring, renewals, saved>>

\* Nobody waits for the tasks when the process exits, in an orderly shutdown
\* or by a crash; the tasks that are saving leave what they have written.
Stop ==
    /\ proc = "up"
    /\ stops < MaxStops
    /\ stops' = stops + 1
    /\ CutPairs(Saving)
    /\ suspect' = suspect \cup Saving
    /\ Forget
    /\ task' = NoTasks
    /\ challenges' = NoChallenges
    /\ UNCHANGED <<folder, account, failures, orders, expiring, renewals, saved>>

\* A certificate in use comes within 30 days of its expiry.
ComesToExpire(d) ==
    /\ proc = "up"
    /\ renewals < MaxRenewals
    /\ certificates[d] \notin expiring \cup {NoCertificate}
    /\ expiring' = expiring \cup {certificates[d]}
    /\ renewals' = renewals + 1
    /\ UNCHANGED <<tlsVars, task, challenges, orders, saved>>

Task(d) ==
    \/ PlaceOrder(d) \/ OrderFails(d) \/ Validate(d) \/ Finalize(d)
    \/ WriteKey(d) \/ WritePem(d) \/ WriteFails(d)

AcmeNext ==
    \/ Start /\ UNCHANGED acmeVars
    \/ Scan
    \/ Stop
    \/ \E d \in Domains : Task(d) \/ ComesToExpire(d)

AcmeSpec == AcmeInit /\ [][AcmeNext]_allVars

\* The loop's timer fires and spawned tasks run.  Nothing makes an operator
\* start Pingoo again.
FairAcmeSpec ==
    /\ AcmeSpec
    /\ WF_allVars(Scan)
    /\ \A d \in Domains : WF_allVars(Task(d))

-----------------------------------------------------------------------------
(* Properties *)

\* Files, memory, tasks and store have their types.
AcmeTypeOK ==
    LET Content == {Absent, Partial} \cup 1 .. orders + 1
        Certificate == [name : Names, serial : 1 .. orders + 1]
    IN
    /\ folder \in Folders
    /\ pems \in [Names -> Content] /\ keys \in [Names -> Content]
    /\ account \in {Absent, Partial, 1}
    /\ proc \in {"down", "default_pem", "default_key", "account", "up", "failed"}
    /\ certificates \in [Domains -> {NoCertificate} \cup Certificate]
    /\ \A i \in DOMAIN wildcard_certificates : wildcard_certificates[i] \in Names
    /\ own \subseteq Domains
    /\ suspect \subseteq Names \cup {"account"}
    /\ task \in [Domains -> [pc : {"idle", "spawned", "polling", "finalizing", "key", "pem"},
                            n : 0 .. orders, attempt : 0 .. Retries - 1]]
    /\ challenges \in [Domains -> 0 .. orders]
    /\ expiring \subseteq Certificate

\* A pair whose last save was completed, and is not being replaced, loads
\* (tls_manager.rs 163), unless the operator left it unusable and it has not
\* been replaced since; and only a pair of these two kinds, or an acme.json cut
\* short, makes a start fail for good.  A read, a write or a request that fails
\* ends one start and not the next.
CompleteSavesLoad ==
    /\ \A n \in Listed \ (suspect \cup Saving) :
        Loads(n) \/ (n = Default /\ proc = "default_key")
    /\ proc = "failed" => suspect # {}

\* Once a certificate is reported as saved, its domain is served with it or a
\* newer one, through failed renewals and restarts, never with a wildcard or the
\* default certificate and never with an older one.  There are two exceptions,
\* both until the next order for the domain succeeds: a start whose listing was
\* cut short before the domain's file (tls_manager.rs 143), and one that has read
\* another certificate with the same host name (165-169).
SavedIsServed ==
    proc = "up" =>
        \A d \in own : saved[d] # Absent => resolve(d) = d /\ certificates[d].serial >= saved[d]

\* While the directory validates an order, the listeners answer with the
\* challenge of that very order, though failed orders leave theirs in the
\* store (acme.rs 276, 303).
ChallengeIsTheOrders ==
    \A d \in Domains : task[d].pc \in {"polling", "finalizing"} => challenges[d] = task[d].n

\* As long as Pingoo runs, failed orders are repeated and certificates renewed:
\* every domain comes to have a certificate that does not expire soon.
DomainsGetCertificates ==
    <>[](proc = "up" =>
            \A d \in Domains : certificates[d] \notin expiring \cup {NoCertificate})

\* What docs/tls.md 23 says: the default certificate is for names that no
\* certificate has been found for.
DefaultIsTheLastResort ==
    proc = "up" =>
        \A d \in Domains :
            (\E i \in DOMAIN wildcard_certificates :
                wildcard_certificates[i] # Default /\ is_match(wildcard_certificates[i], d))
            => resolve(d) # Default
=============================================================================
