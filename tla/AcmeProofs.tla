----------------------------- MODULE AcmeProofs -----------------------------
(***************************************************************************)
(* Proofs about modules TlsManager and Acme, for all sets of domains, any  *)
(* certificates left in the folder, any number of stops, failures, retries *)
(* and renewals.                                                           *)
(*                                                                         *)
(* The inductive invariant (AcmeInv) follows a certificate from its order  *)
(* to the disk and back: an order's serial is newer than what was saved    *)
(* for its domain, memory has it before the disk, and the disk is never    *)
(* behind what was reported as saved unless the file is visibly partial,   *)
(* which load_certificates refuses.                                        *)
(***************************************************************************)
EXTENDS Acme, FiniteSetTheorems, NaturalsInduction, WellFoundedInduction, TLAPS

Content == {Absent, Partial} \cup 1 .. orders + 1
Certificate == [name : Names, serial : 1 .. orders + 1]
TaskState == [pc : {"idle", "spawned", "polling", "finalizing", "key", "pem"},
              n : 0 .. orders, attempt : 0 .. Retries - 1]

FileTypes ==
    /\ folder \in Folders
    /\ pems \in [Names -> Content] /\ keys \in [Names -> Content]
    /\ account \in {Absent, Partial, 1}
    /\ suspect \subseteq Names \cup {"account"}

MemoryTypes ==
    /\ proc \in {"down", "default_pem", "default_key", "account", "up", "failed"}
    /\ certificates \in [Domains -> {NoCertificate} \cup Certificate]
    /\ \A i \in DOMAIN wildcard_certificates : wildcard_certificates[i] \in Names
    /\ own \subseteq Domains

TaskTypes ==
    /\ orders \in Nat
    /\ task \in [Domains -> TaskState]
    /\ challenges \in [Domains -> 0 .. orders]
    /\ expiring \subseteq Certificate
    /\ saved \in [Domains -> 0 .. orders + 1]

\* Tasks are of this process: none runs before TlsManager::new has returned.
TasksRunWhenUp == proc # "up" => \A d \in Domains : task[d].pc = "idle"

\* The serial of an order is not older than what is saved for its domain; once
\* issued it is in memory, and once written it is in the key file.
OrdersAreNewer ==
    \A d \in Domains :
        /\ task[d].pc \in {"polling", "finalizing", "key", "pem"} => saved[d] <= Serial(task[d].n)
        /\ task[d].pc \in {"key", "pem"} =>
            d \in own /\ certificates[d] = [name |-> d, serial |-> Serial(task[d].n)]
        /\ task[d].pc = "pem" => keys[d] = Serial(task[d].n)

\* The certificate file holds what was reported as saved or a newer one, or is partial.
DiskHasSaved == \A d \in Domains : pems[d] = Partial \/ saved[d] <= pems[d]

\* So does memory, from the moment the files are loaded, for the domains whose
\* own pair was read and no other for them.
MemoryHasSaved ==
    proc \in {"default_pem", "default_key", "account", "up"} =>
        \A d \in own : certificates[d].name = d /\ saved[d] <= certificates[d].serial

\* The steps of the start that write, and what tells a partial acme.json.
StartSteps ==
    /\ proc = "default_pem" => pems[Default] = Absent
    /\ proc = "default_key" => pems[Default] = 1
    /\ account = Partial => "account" \in suspect

\* A default.pem that is not the default certificate keeps every start from
\* getting past it, and is never replaced.
ForeignDefault ==
    ~ DefaultIsValid =>
        Default \in suspect /\ pems[Default] # Absent /\ proc \in {"down", "failed"}

\* CompleteSavesLoad, file by file.
PairsLoad ==
    \A n \in Names :
        \/ pems[n] = Absent \/ n \in suspect
        \/ n \in Domains /\ task[n].pc \in {"key", "pem"}
        \/ n = Default /\ proc = "default_key"
        \/ pems[n] > 0 /\ keys[n] = pems[n]

FailedIsSuspect == proc = "failed" => suspect # {}

\* The inductive invariant.
AcmeInv ==
    /\ FileTypes /\ MemoryTypes /\ TaskTypes
    /\ TasksRunWhenUp /\ OrdersAreNewer /\ DiskHasSaved /\ MemoryHasSaved /\ StartSteps
    /\ ChallengeIsTheOrders /\ ForeignDefault /\ PairsLoad /\ FailedIsSuspect

-----------------------------------------------------------------------------
(* Lemmas about names, serials and tasks. *)

\* The names of the files, and of suspect's mark for acme.json.
LEMMA NameFacts ==
    /\ Domains \subseteq Names /\ Default \in Names /\ "account" \notin Names
    /\ Default # "account"
BY TlsAssumption DEF Names, Default

\* What a task's record becomes.
LEMMA TaskFacts ==
    ASSUME NEW m \in Nat, NEW t \in [pc : {"idle", "spawned", "polling", "finalizing", "key", "pem"},
                                     n : 0 .. m, attempt : 0 .. Retries - 1],
           NEW p \in {"idle", "spawned", "polling", "finalizing", "key", "pem"}
    PROVE  /\ [t EXCEPT !.pc = p] \in [pc : {"idle", "spawned", "polling", "finalizing", "key", "pem"},
                                       n : 0 .. m, attempt : 0 .. Retries - 1]
           /\ [t EXCEPT !.pc = p].pc = p /\ [t EXCEPT !.pc = p].n = t.n
           /\ t.n \in 0 .. m /\ t.attempt \in 0 .. Retries - 1
BY AcmeAssumption

\* What it becomes when retry() starts the next attempt.
LEMMA RetryFacts ==
    ASSUME NEW m \in Nat, NEW t \in [pc : {"idle", "spawned", "polling", "finalizing", "key", "pem"},
                                     n : 0 .. m, attempt : 0 .. Retries - 1],
           t.attempt + 1 < Retries, NEW u, u = [t EXCEPT !.pc = "key", !.attempt = @ + 1]
    PROVE  /\ u \in [pc : {"idle", "spawned", "polling", "finalizing", "key", "pem"},
                     n : 0 .. m, attempt : 0 .. Retries - 1]
           /\ u.pc = "key" /\ u.n = t.n
<1>1. t.attempt \in 0 .. Retries - 1 /\ Retries \in Nat
      BY AcmeAssumption
<1>2. t.attempt + 1 \in 0 .. Retries - 1
      BY <1>1
<1> QED BY <1>2

\* The invariant's parts that only read what a step of TlsManager::new leaves alone.
LEMMA StartTasks ==
    ASSUME AcmeInv, proc # "up", UNCHANGED acmeVars
    PROVE  /\ TaskTypes' /\ TasksRunWhenUp' /\ OrdersAreNewer' /\ ChallengeIsTheOrders'
           /\ Content' = Content /\ Certificate' = Certificate
<1>1. \A d \in Domains : task[d].pc = "idle"
      BY DEF AcmeInv, TasksRunWhenUp
<1>2. TaskTypes' /\ Content' = Content /\ Certificate' = Certificate
      BY DEF AcmeInv, TaskTypes, acmeVars, TaskState, Content, Certificate
<1> QED BY <1>1, <1>2 DEF TasksRunWhenUp, OrdersAreNewer, ChallengeIsTheOrders, acmeVars

\* A process that has got past default.pem has the default certificate.
LEMMA ForeignStays ==
    ASSUME AcmeInv, proc \notin {"down", "failed"}, folder' = folder
    PROVE  ForeignDefault'
BY DEF AcmeInv, ForeignDefault, DefaultIsValid

\* Every nonempty set of files has one with the last place.
LEMMA LastExists ==
    ASSUME NEW ns, ns # {}, NEW N \in Nat, NEW place, \A n \in ns : place[n] \in 1 .. N
    PROVE  LastOf(place, ns) \in ns
<1> DEFINE S == {k \in Nat : \E n \in ns : k = N - place[n]}
<1>1. PICK x \in ns : TRUE
      OBVIOUS
<1>2. N - place[x] \in S
      BY <1>1
<1>3. S \subseteq Nat /\ S # {}
      BY <1>2
<1>4. PICK k \in S : \A m \in S : ~ (<<m, k>> \in OpToRel(<, Nat))
  <2> HIDE DEF S
  <2> QED BY <1>3, WFMin, NatLessThanWellFounded
<1>5. \A m \in S : k <= m
  <2>1. \A m \in S : ~ (m < k)
        BY <1>3, <1>4 DEF OpToRel
  <2> QED BY <1>3, <2>1
<1>6. PICK n \in ns : k = N - place[n]
      BY <1>4
<1>7. \A m \in ns : place[m] <= place[n]
  <2>1. SUFFICES ASSUME NEW m \in ns PROVE place[m] <= place[n]
        OBVIOUS
  <2>2. N - place[m] \in S
        OBVIOUS
  <2>3. k <= N - place[m]
    <3> HIDE DEF S
    <3> QED BY <1>5, <2>2
  <2> QED BY <1>6, <2>3
<1> QED BY <1>7 DEF LastOf

\* load_certificates succeeds, whatever part of the folder it has listed.
LEMMA LoadPreserves ==
    ASSUME AcmeInv, NEW read \in SUBSET Listed, IsFiniteSet(read), Load(read), UNCHANGED acmeVars
    PROVE  AcmeInv'
<1>1. /\ proc = "down" /\ (\A n \in read : Loads(n)) /\ DefaultIsValid
      /\ proc' = IF Default \in Listed THEN "account" ELSE "default_pem"
      /\ own' = {d \in Domains : Naming(read, d) = {d}}
      /\ UNCHANGED <<folder, pems, keys, account, suspect>> /\ UNCHANGED <<orders, task, challenges, saved, expiring>>
      BY DEF Load, files, acmeVars
<1>2. PICK place \in Injection(read, 1 .. Cardinality(read)) :
        /\ certificates' = [d \in Domains |->
                IF Naming(read, d) = {} THEN NoCertificate
                ELSE LET n == LastOf(place, Naming(read, d)) IN [name |-> n, serial |-> pems[n]]]
        /\ wildcard_certificates' \in
                {w \in SetToSeqs({n \in read : wildcard_matchers(n) # {}}) :
                    \A i, j \in DOMAIN w : i < j => place[w[i]] < place[w[j]]}
      BY DEF Load
<1>3. /\ TaskTypes' /\ TasksRunWhenUp' /\ OrdersAreNewer' /\ ChallengeIsTheOrders'
      /\ Content' = Content /\ Certificate' = Certificate
      BY <1>1, StartTasks
<1>4. \A i \in DOMAIN wildcard_certificates' : wildcard_certificates'[i] \in Names
  <2>1. wildcard_certificates' \in SetToSeqs({n \in read : wildcard_matchers(n) # {}})
        BY <1>2
  <2>2. \A i \in DOMAIN wildcard_certificates' : wildcard_certificates'[i] \in read
        BY <2>1 DEF SetToSeqs
  <2> QED BY <2>2 DEF Listed
<1>5. /\ \A n \in read : n \in Names /\ pems[n] \in 1 .. orders + 1 /\ pems[n] # Partial
      /\ orders \in Nat
  <2>1. \A n \in read : n \in Names /\ pems[n] \in Content /\ pems[n] > 0
        BY <1>1 DEF AcmeInv, FileTypes, Listed, Loads
  <2>2. orders \in Nat
        BY DEF AcmeInv, TaskTypes
  <2> QED BY <2>1, <2>2 DEF Content, Absent, Partial
<1>6. \A d \in Domains : Naming(read, d) # {} => LastOf(place, Naming(read, d)) \in Naming(read, d)
  <2>1. Cardinality(read) \in Nat /\ \A n \in read : place[n] \in 1 .. Cardinality(read)
        BY FS_CardinalityType DEF Injection
  <2>2. \A d \in Domains : \A n \in Naming(read, d) : place[n] \in 1 .. Cardinality(read)
        BY <2>1 DEF Naming
  <2> QED BY <2>1, <2>2, LastExists
<1>7. \A d \in Domains :
        \/ Naming(read, d) = {} /\ certificates'[d] = NoCertificate
        \/ \E n \in Naming(read, d) : n \in read /\ certificates'[d] = [name |-> n, serial |-> pems[n]]
  <2>1. SUFFICES ASSUME NEW d \in Domains, Naming(read, d) # {}
                 PROVE  \E n \in Naming(read, d) : n \in read /\ certificates'[d] = [name |-> n, serial |-> pems[n]]
        BY <1>2
  <2>2. LastOf(place, Naming(read, d)) \in Naming(read, d)
        BY <1>6, <2>1
  <2>3. certificates'[d] = [name |-> LastOf(place, Naming(read, d)),
                            serial |-> pems[LastOf(place, Naming(read, d))]]
        BY <1>2, <2>1
  <2> QED BY <2>2, <2>3 DEF Naming
<1>8. certificates' \in [Domains -> {NoCertificate} \cup Certificate]
  <2>1. \A d \in Domains : certificates'[d] \in {NoCertificate} \cup Certificate
    <3>1. \A n \in read : [name |-> n, serial |-> pems[n]] \in Certificate
          BY <1>5 DEF Certificate
    <3> QED BY <1>7, <3>1
  <2>2. certificates' = [d \in Domains |-> certificates'[d]]
        BY <1>2
  <2> QED BY <2>1, <2>2
<1>9. FileTypes' /\ MemoryTypes'
      BY <1>1, <1>3, <1>4, <1>8 DEF AcmeInv, FileTypes, MemoryTypes
<1>10. DiskHasSaved' /\ PairsLoad' /\ FailedIsSuspect'
      BY <1>1 DEF AcmeInv, DiskHasSaved, PairsLoad, FailedIsSuspect
<1>11. MemoryHasSaved'
  <2>1. SUFFICES ASSUME NEW d \in Domains, Naming(read, d) = {d}
                 PROVE  certificates'[d].name = d /\ saved[d] <= certificates'[d].serial
        BY <1>1 DEF MemoryHasSaved
  <2>2. d \in read /\ certificates'[d] = [name |-> d, serial |-> pems[d]]
        BY <1>7, <2>1 DEF Naming
  <2>3. saved[d] <= pems[d]
        BY <1>5, <2>2 DEF AcmeInv, DiskHasSaved
  <2> QED BY <2>2, <2>3
<1>12. StartSteps' /\ ForeignDefault'
      BY <1>1, NameFacts DEF AcmeInv, StartSteps, Listed, ForeignDefault, DefaultIsValid
<1> QED BY <1>3, <1>9, <1>10, <1>11, <1>12 DEF AcmeInv

\* load_certificates lists the whole folder, or a part of it.
LEMMA LoadCertificatesPreserves ==
    ASSUME AcmeInv, LoadCertificates \/ LoadCutShort, UNCHANGED acmeVars
    PROVE  AcmeInv'
<1>1. PICK read \in SUBSET Listed : Load(read)
      BY DEF LoadCertificates, LoadCutShort
<1>2. IsFiniteSet(read)
  <2>1. IsFiniteSet(Domains \cup Operator) /\ IsFiniteSet({Default})
        BY TlsAssumption, FS_Union, FS_Singleton
  <2>2. IsFiniteSet(Names)
        BY <2>1, FS_Union DEF Names
  <2> QED BY <2>2, FS_Subset DEF Listed
<1> QED BY <1>1, <1>2, LoadPreserves

\* A pair or the default certificate cannot be used.
LEMMA LoadFailsPreserves ==
    ASSUME AcmeInv, LoadFails, UNCHANGED acmeVars
    PROVE  AcmeInv'
<1>1. /\ proc = "down" /\ proc' = "failed"
      /\ (\E n \in Listed : ~ Loads(n)) \/ ~ DefaultIsValid
      /\ UNCHANGED <<folder, pems, keys, account, suspect>>
      /\ UNCHANGED <<certificates, wildcard_certificates, own>>
      /\ UNCHANGED <<orders, task, challenges, saved>>
      BY DEF LoadFails, files, memory, acmeVars
<1>2. /\ TaskTypes' /\ TasksRunWhenUp' /\ OrdersAreNewer' /\ ChallengeIsTheOrders'
      /\ Content' = Content /\ Certificate' = Certificate
      BY <1>1, StartTasks
<1>3. suspect # {}
  <2>1. ASSUME NEW n \in Listed, ~ Loads(n) PROVE n \in suspect
        BY <1>1, <2>1 DEF AcmeInv, PairsLoad, TasksRunWhenUp, Listed, Loads
  <2>2. ~ DefaultIsValid => Default \in suspect
        BY DEF AcmeInv, ForeignDefault
  <2> QED BY <1>1, <2>1, <2>2
<1>4. FileTypes' /\ MemoryTypes'
      BY <1>1, <1>2 DEF AcmeInv, FileTypes, MemoryTypes
<1>5. DiskHasSaved' /\ PairsLoad' /\ FailedIsSuspect' /\ MemoryHasSaved' /\ StartSteps'
      BY <1>1, <1>3 DEF AcmeInv, DiskHasSaved, PairsLoad, FailedIsSuspect, MemoryHasSaved, StartSteps
<1>6. ForeignDefault'
      BY <1>1 DEF AcmeInv, ForeignDefault, DefaultIsValid
<1> QED BY <1>2, <1>4, <1>5, <1>6 DEF AcmeInv

\* A read fails; nothing has changed.
LEMMA ReadFailsPreserves ==
    ASSUME AcmeInv, ReadFails, UNCHANGED acmeVars
    PROVE  AcmeInv'
<1>1. /\ proc = "down" /\ proc' = "down" /\ UNCHANGED <<folder, pems, keys, account, suspect>>
      /\ UNCHANGED <<certificates, wildcard_certificates, own>>
      /\ UNCHANGED <<orders, task, challenges, saved>>
      BY DEF ReadFails, files, memory, acmeVars
<1>2. /\ TaskTypes' /\ TasksRunWhenUp' /\ OrdersAreNewer' /\ ChallengeIsTheOrders'
      /\ Content' = Content /\ Certificate' = Certificate
      BY <1>1, StartTasks
<1>3. FileTypes' /\ MemoryTypes'
      BY <1>1, <1>2 DEF AcmeInv, FileTypes, MemoryTypes
<1>4. DiskHasSaved' /\ PairsLoad' /\ FailedIsSuspect' /\ MemoryHasSaved' /\ StartSteps'
      BY <1>1 DEF AcmeInv, DiskHasSaved, PairsLoad, FailedIsSuspect, MemoryHasSaved, StartSteps
<1>5. ForeignDefault'
      BY <1>1 DEF AcmeInv, ForeignDefault, DefaultIsValid
<1> QED BY <1>2, <1>3, <1>4, <1>5 DEF AcmeInv

\* The process ends, or the start of it, and memory goes.
LEMMA ForgetPreserves ==
    ASSUME AcmeInv, Forget, orders' = orders
    PROVE  MemoryTypes'
<1>1. /\ proc' = "down" /\ certificates' = [d \in Domains |-> NoCertificate]
      /\ wildcard_certificates' = <<>> /\ own' = {}
      BY DEF Forget, NoCertificates
<1>2. certificates' \in [Domains -> {NoCertificate} \cup Certificate']
      BY <1>1
<1> QED BY <1>1, <1>2 DEF MemoryTypes, Certificate

\* The default certificate cannot be generated; nothing was written.
LEMMA GenerateFailsPreserves ==
    ASSUME AcmeInv, GenerateFails, UNCHANGED acmeVars
    PROVE  AcmeInv'
<1>1. /\ proc = "default_pem" /\ proc' = "down" /\ UNCHANGED <<folder, pems, keys, account, suspect>>
      /\ UNCHANGED <<orders, task, challenges, saved>> /\ Forget
      BY DEF GenerateFails, Forget, files, acmeVars
<1>2. /\ TaskTypes' /\ TasksRunWhenUp' /\ OrdersAreNewer' /\ ChallengeIsTheOrders'
      /\ Content' = Content /\ Certificate' = Certificate
      BY <1>1, StartTasks
<1>3. FileTypes' /\ MemoryTypes'
      BY <1>1, <1>2, ForgetPreserves DEF AcmeInv, FileTypes
<1>4. DiskHasSaved' /\ PairsLoad' /\ FailedIsSuspect' /\ MemoryHasSaved' /\ StartSteps'
      BY <1>1 DEF AcmeInv, DiskHasSaved, PairsLoad, FailedIsSuspect, MemoryHasSaved, StartSteps
<1>5. ForeignDefault'
      BY <1>1, ForeignStays
<1> QED BY <1>2, <1>3, <1>4, <1>5 DEF AcmeInv

\* The default certificate's first file.
LEMMA WriteDefaultPemPreserves ==
    ASSUME AcmeInv, WriteDefaultPem, UNCHANGED acmeVars
    PROVE  AcmeInv'
<1>1. /\ proc = "default_pem" /\ proc' = "default_key" /\ pems' = [pems EXCEPT ![Default] = 1]
      /\ UNCHANGED <<folder, keys, account, suspect>> /\ UNCHANGED <<certificates, wildcard_certificates, own>>
      /\ UNCHANGED <<orders, task, challenges, saved>>
      BY DEF WriteDefaultPem, memory, acmeVars
<1>2. /\ TaskTypes' /\ TasksRunWhenUp' /\ OrdersAreNewer' /\ ChallengeIsTheOrders'
      /\ Content' = Content /\ Certificate' = Certificate
      BY <1>1, StartTasks
<1>3. 1 \in Content /\ pems \in [Names -> Content] /\ pems[Default] = 0
      BY <1>1 DEF AcmeInv, FileTypes, TaskTypes, Content, Certificate, StartSteps, Absent
<1>4. /\ pems' \in [Names -> Content] /\ pems'[Default] = 1
      /\ \A n \in Names : n # Default => pems'[n] = pems[n]
      BY <1>1, <1>3, NameFacts
<1>5. FileTypes' /\ MemoryTypes'
      BY <1>1, <1>2, <1>4 DEF AcmeInv, FileTypes, MemoryTypes
<1>6. DiskHasSaved'
  <2>1. SUFFICES ASSUME NEW d \in Domains PROVE pems'[d] = Partial \/ saved[d] <= pems'[d]
        BY <1>1 DEF DiskHasSaved
  <2>2. /\ d \in Names /\ (pems[d] = Partial \/ saved[d] <= pems[d])
        /\ saved[d] \in Nat
        BY NameFacts DEF AcmeInv, DiskHasSaved, TaskTypes
  <2> QED BY <1>3, <1>4, <2>2 DEF Partial
<1>7. PairsLoad' /\ FailedIsSuspect' /\ MemoryHasSaved' /\ StartSteps'
      BY <1>1, <1>4 DEF AcmeInv, PairsLoad, FailedIsSuspect, MemoryHasSaved, StartSteps
<1>8. ForeignDefault'
      BY <1>1, ForeignStays
<1> QED BY <1>2, <1>5, <1>6, <1>7, <1>8 DEF AcmeInv

\* Its second file.
LEMMA WriteDefaultKeyPreserves ==
    ASSUME AcmeInv, WriteDefaultKey, UNCHANGED acmeVars
    PROVE  AcmeInv'
<1>1. /\ proc = "default_key" /\ proc' = "account" /\ keys' = [keys EXCEPT ![Default] = 1]
      /\ UNCHANGED <<folder, pems, account>> /\ UNCHANGED <<certificates, wildcard_certificates, own>>
      /\ UNCHANGED <<orders, task, challenges, saved>> /\ suspect' = suspect \ {Default}
      BY DEF WriteDefaultKey, memory, acmeVars
<1>2. /\ TaskTypes' /\ TasksRunWhenUp' /\ OrdersAreNewer' /\ ChallengeIsTheOrders'
      /\ Content' = Content /\ Certificate' = Certificate
      BY <1>1, StartTasks
<1>3. 1 \in Content /\ keys \in [Names -> Content] /\ pems[Default] = 1
      BY <1>1 DEF AcmeInv, FileTypes, TaskTypes, Content, Certificate, StartSteps
<1>4. /\ keys' \in [Names -> Content] /\ keys'[Default] = 1
      /\ \A n \in Names : n # Default => keys'[n] = keys[n]
      BY <1>1, <1>3, NameFacts
<1>5. FileTypes' /\ MemoryTypes'
      BY <1>1, <1>2, <1>4 DEF AcmeInv, FileTypes, MemoryTypes
<1>6. DiskHasSaved' /\ FailedIsSuspect' /\ MemoryHasSaved'
      BY <1>1 DEF AcmeInv, DiskHasSaved, FailedIsSuspect, MemoryHasSaved
<1>7. PairsLoad'
      BY <1>1, <1>3, <1>4 DEF AcmeInv, PairsLoad
<1>8. StartSteps'
      BY <1>1, NameFacts DEF AcmeInv, StartSteps
<1>9. ForeignDefault'
      BY <1>1, ForeignStays
<1> QED BY <1>2, <1>5, <1>6, <1>7, <1>8, <1>9 DEF AcmeInv

\* The account is read or created; the process is up.
LEMMA LoadOrCreateAccountPreserves ==
    ASSUME AcmeInv, LoadOrCreateAccount, UNCHANGED acmeVars
    PROVE  AcmeInv'
<1>1. /\ proc = "account" /\ proc' = "up" /\ account' = 1
      /\ UNCHANGED <<folder, pems, keys>> /\ UNCHANGED <<certificates, wildcard_certificates, own>>
      /\ UNCHANGED <<orders, task, challenges, saved>> /\ suspect' = suspect \ {"account"}
      BY DEF LoadOrCreateAccount, memory, acmeVars
<1>2. /\ TaskTypes' /\ TasksRunWhenUp' /\ OrdersAreNewer' /\ ChallengeIsTheOrders'
      /\ Content' = Content /\ Certificate' = Certificate
      BY <1>1, StartTasks
<1>3. FileTypes' /\ MemoryTypes'
      BY <1>1, <1>2 DEF AcmeInv, FileTypes, MemoryTypes
<1>4. DiskHasSaved' /\ FailedIsSuspect' /\ MemoryHasSaved'
      BY <1>1 DEF AcmeInv, DiskHasSaved, FailedIsSuspect, MemoryHasSaved
<1>5. PairsLoad'
      BY <1>1, NameFacts DEF AcmeInv, PairsLoad
<1>6. StartSteps'
      BY <1>1 DEF StartSteps, Partial
<1>7. ForeignDefault'
      BY <1>1, ForeignStays
<1> QED BY <1>2, <1>3, <1>4, <1>5, <1>6, <1>7 DEF AcmeInv

\* acme.json cannot be read.
LEMMA AccountFailsPreserves ==
    ASSUME AcmeInv, AccountFails, UNCHANGED acmeVars
    PROVE  AcmeInv'
<1>1. /\ proc = "account" /\ proc' = "failed" /\ account = Partial
      /\ UNCHANGED <<folder, pems, keys, account, suspect>> /\ UNCHANGED <<certificates, wildcard_certificates, own>>
      /\ UNCHANGED <<orders, task, challenges, saved>>
      BY DEF AccountFails, memory, files, acmeVars
<1>2. /\ TaskTypes' /\ TasksRunWhenUp' /\ OrdersAreNewer' /\ ChallengeIsTheOrders'
      /\ Content' = Content /\ Certificate' = Certificate
      BY <1>1, StartTasks
<1>3. FileTypes' /\ MemoryTypes'
      BY <1>1, <1>2 DEF AcmeInv, FileTypes, MemoryTypes
<1>4. DiskHasSaved' /\ PairsLoad' /\ FailedIsSuspect' /\ MemoryHasSaved' /\ StartSteps'
      BY <1>1 DEF AcmeInv, DiskHasSaved, PairsLoad, FailedIsSuspect, MemoryHasSaved, StartSteps
<1>5. ForeignDefault'
      BY <1>1, ForeignStays
<1> QED BY <1>2, <1>3, <1>4, <1>5 DEF AcmeInv

\* A start that is cut short leaves files that are as before, or marked as suspect.
LEMMA CutStartPreserves ==
    ASSUME AcmeInv, CutStart, Forget, UNCHANGED acmeVars
    PROVE  AcmeInv'
<1>1. /\ proc \in {"default_pem", "default_key", "account"} /\ proc' = "down"
      /\ UNCHANGED <<orders, task, challenges, saved>>
      BY DEF CutStart, Forget, acmeVars
<1>2. /\ TaskTypes' /\ TasksRunWhenUp' /\ OrdersAreNewer' /\ ChallengeIsTheOrders'
      /\ Content' = Content /\ Certificate' = Certificate /\ MemoryTypes'
      BY <1>1, StartTasks, ForgetPreserves
<1>3. /\ Partial \in Content /\ pems \in [Names -> Content] /\ keys \in [Names -> Content]
      /\ suspect \subseteq Names \cup {"account"} /\ account \in {Absent, Partial, 1}
      BY DEF AcmeInv, FileTypes, Content, Certificate
<1>4. FailedIsSuspect' /\ MemoryHasSaved' /\ ForeignDefault' /\ folder' = folder /\ folder \in Folders
  <2>1. folder' = folder
        BY DEF CutStart, files
  <2> QED BY <1>1, <2>1, ForeignStays DEF FailedIsSuspect, MemoryHasSaved, AcmeInv, FileTypes
<1>5. CASE /\ proc = "default_pem" /\ UNCHANGED <<folder, keys, account>> /\ suspect' = suspect \cup {Default}
           /\ \E c \in Cut(pems[Default]) : pems' = [pems EXCEPT ![Default] = c]
  <2>1. /\ pems' \in [Names -> Content] /\ pems'[Default] \in {pems[Default], Partial}
        /\ \A n \in Names : n # Default => pems'[n] = pems[n]
        BY <1>3, <1>5, NameFacts DEF Cut
  <2>2. FileTypes'
        BY <1>2, <1>3, <1>4, <1>5, <2>1, NameFacts DEF FileTypes
  <2>3. DiskHasSaved'
        BY <1>1, <2>1, NameFacts DEF AcmeInv, DiskHasSaved
  <2>4. PairsLoad'
        BY <1>1, <1>5, <2>1 DEF AcmeInv, PairsLoad
  <2>5. StartSteps'
        BY <1>1, <1>5 DEF AcmeInv, StartSteps
  <2> QED BY <1>2, <1>4, <2>2, <2>3, <2>4, <2>5 DEF AcmeInv
<1>6. CASE /\ proc = "default_key" /\ UNCHANGED <<folder, pems, account>> /\ suspect' = suspect \cup {Default}
           /\ \E c \in Cut(keys[Default]) : keys' = [keys EXCEPT ![Default] = c]
  <2>1. /\ keys' \in [Names -> Content]
        /\ \A n \in Names : n # Default => keys'[n] = keys[n]
        BY <1>3, <1>6, NameFacts DEF Cut
  <2>2. FileTypes'
        BY <1>2, <1>3, <1>4, <1>6, <2>1, NameFacts DEF FileTypes
  <2>3. DiskHasSaved'
        BY <1>1, <1>6 DEF AcmeInv, DiskHasSaved
  <2>4. PairsLoad'
        BY <1>1, <1>6, <2>1 DEF AcmeInv, PairsLoad
  <2>5. StartSteps'
        BY <1>1, <1>6 DEF AcmeInv, StartSteps
  <2> QED BY <1>2, <1>4, <2>2, <2>3, <2>4, <2>5 DEF AcmeInv
<1>7. CASE /\ proc = "account" /\ account' \in {account, Partial} /\ UNCHANGED <<folder, pems, keys>>
           /\ suspect' = suspect \cup {"account"} \/ UNCHANGED <<account, suspect>>
           /\ suspect \subseteq suspect'
  <2>1. suspect' \subseteq Names \cup {"account"}
        BY <1>3, <1>7
  <2>2. FileTypes'
        BY <1>2, <1>3, <1>4, <1>7, <2>1 DEF FileTypes
  <2>3. DiskHasSaved'
        BY <1>1, <1>7 DEF AcmeInv, DiskHasSaved
  <2>4. PairsLoad'
        BY <1>1, <1>7 DEF AcmeInv, PairsLoad
  <2>5. StartSteps'
        BY <1>1, <1>7 DEF AcmeInv, StartSteps
  <2> QED BY <1>2, <1>4, <2>2, <2>3, <2>4, <2>5 DEF AcmeInv
<1> QED BY <1>5, <1>6, <1>7 DEF CutStart, Cut, files

\* The steps of TlsManager::new.
LEMMA StartPreserves ==
    ASSUME AcmeInv, Start, UNCHANGED acmeVars
    PROVE  AcmeInv'
<1>1. CASE StartFails \/ StopStart
      BY <1>1, CutStartPreserves DEF StartFails, StopStart
<1> QED BY <1>1, LoadCertificatesPreserves, LoadFailsPreserves, ReadFailsPreserves, GenerateFailsPreserves,
           WriteDefaultPemPreserves, WriteDefaultKeyPreserves, LoadOrCreateAccountPreserves,
           AccountFailsPreserves DEF Start

-----------------------------------------------------------------------------
(* The loop and its tasks. *)

\* A task's fields; a task that is not idle runs in a process that is up.
LEMMA OfTask ==
    ASSUME AcmeInv, NEW d \in Domains
    PROVE  /\ task[d] \in TaskState /\ task[d].n \in 0 .. orders /\ task[d].n \in Nat
           /\ orders \in Nat /\ d \in Names
           /\ saved[d] \in 0 .. orders + 1 /\ certificates[d] \in {NoCertificate} \cup Certificate
           /\ task[d].pc # "idle" => proc = "up"
<1>1. task[d] \in TaskState /\ orders \in Nat /\ d \in Names
      BY NameFacts DEF AcmeInv, TaskTypes
<1>2. task[d].n \in 0 .. orders
      BY <1>1 DEF TaskState
<1> QED BY <1>1, <1>2 DEF AcmeInv, TaskTypes, MemoryTypes, TasksRunWhenUp

\* The loop spawns tasks.
LEMMA ScanPreserves ==
    ASSUME AcmeInv, Scan
    PROVE  AcmeInv'
<1>1. /\ proc = "up" /\ task = NoTasks /\ UNCHANGED <<folder, pems, keys, account, suspect>>
      /\ UNCHANGED <<proc, certificates, wildcard_certificates, own>>
      /\ UNCHANGED <<orders, challenges, saved, expiring>>
      /\ task' = [d \in Domains |->
                    IF d \in domains_to_order THEN [Idle EXCEPT !.pc = "spawned"] ELSE Idle]
      BY DEF Scan, tlsVars, files, memory
<1>2. /\ [Idle EXCEPT !.pc = "spawned"] \in TaskState /\ Idle \in TaskState
      /\ [Idle EXCEPT !.pc = "spawned"].pc = "spawned" /\ Idle.pc = "idle"
      BY AcmeAssumption DEF Idle, TaskState, AcmeInv, TaskTypes
<1>3. /\ task' \in [Domains -> TaskState]
      /\ \A d \in Domains : task'[d].pc \in {"spawned", "idle"} /\ task[d].pc = "idle"
      BY <1>1, <1>2 DEF NoTasks
<1>4. TaskState' = TaskState /\ Content' = Content /\ Certificate' = Certificate
      BY <1>1 DEF TaskState, Content, Certificate
<1>5. FileTypes' /\ MemoryTypes' /\ TaskTypes'
      BY <1>1, <1>3, <1>4 DEF AcmeInv, FileTypes, MemoryTypes, TaskTypes
<1>6. TasksRunWhenUp' /\ OrdersAreNewer' /\ ChallengeIsTheOrders'
      BY <1>1, <1>3 DEF TasksRunWhenUp, OrdersAreNewer, ChallengeIsTheOrders
<1>7. DiskHasSaved' /\ MemoryHasSaved' /\ StartSteps' /\ FailedIsSuspect'
      BY <1>1 DEF AcmeInv, DiskHasSaved, MemoryHasSaved, StartSteps, FailedIsSuspect
<1>8. PairsLoad'
      BY <1>1, <1>3 DEF AcmeInv, PairsLoad
<1>9. ForeignDefault'
      BY <1>1, ForeignStays
<1> QED BY <1>5, <1>6, <1>7, <1>8, <1>9 DEF AcmeInv

\* An order is placed: its number is newer than every certificate so far.
LEMMA PlaceOrderPreserves ==
    ASSUME AcmeInv, NEW d \in Domains, PlaceOrder(d)
    PROVE  AcmeInv'
<1>1. /\ task[d].pc = "spawned" /\ orders' = orders + 1
      /\ UNCHANGED <<folder, pems, keys, account, suspect>>
      /\ UNCHANGED <<proc, certificates, wildcard_certificates, own>>
      /\ UNCHANGED <<saved, expiring>>
      /\ task' = [task EXCEPT ![d].pc = "polling", ![d].n = orders']
      /\ challenges' = [challenges EXCEPT ![d] = orders']
      BY DEF PlaceOrder, tlsVars, files, memory
<1>2. /\ orders \in Nat /\ task \in [Domains -> TaskState] /\ proc = "up"
      /\ challenges \in [Domains -> 0 .. orders]
      BY <1>1, OfTask DEF AcmeInv, TaskTypes
<1>3. TaskState \subseteq TaskState' /\ 0 .. orders \subseteq 0 .. orders' /\ Content \subseteq Content'
      /\ Certificate \subseteq Certificate' /\ 0 .. orders + 1 \subseteq 0 .. orders' + 1
      BY <1>1, <1>2 DEF TaskState, Content, Certificate
<1>4. /\ task'[d] \in TaskState' /\ task'[d].pc = "polling" /\ task'[d].n = orders + 1
      /\ \A e \in Domains : e # d => task'[e] = task[e]
      /\ task' \in [Domains -> TaskState']
  <2>1. /\ task'[d] = [task[d] EXCEPT !.pc = "polling", !.n = orders']
        /\ \A e \in Domains : e # d => task'[e] = task[e]
        /\ DOMAIN task' = Domains
        BY <1>1, <1>2
  <2>2. task[d] \in TaskState'
        BY <1>2, <1>3
  <2>3. /\ task'[d] \in TaskState' /\ task'[d].pc = "polling" /\ task'[d].n = orders'
        BY <1>1, <1>2, <2>1, <2>2 DEF TaskState
  <2>4. task' = [e \in Domains |-> task'[e]]
        BY <1>1, <1>2
  <2> QED BY <1>1, <1>2, <1>3, <2>1, <2>3, <2>4
<1>5. /\ challenges' \in [Domains -> 0 .. orders'] /\ challenges'[d] = orders + 1
      /\ \A e \in Domains : e # d => challenges'[e] = challenges[e]
      BY <1>1, <1>2, <1>3
<1>6. /\ pems' \in [Names -> Content'] /\ keys' \in [Names -> Content']
      /\ certificates' \in [Domains -> {NoCertificate} \cup Certificate']
      /\ saved' \in [Domains -> 0 .. orders' + 1] /\ expiring' \subseteq Certificate'
      BY <1>1, <1>3 DEF AcmeInv, FileTypes, MemoryTypes, TaskTypes
<1>7. FileTypes' /\ MemoryTypes' /\ TaskTypes'
      BY <1>1, <1>2, <1>4, <1>5, <1>6 DEF AcmeInv, FileTypes, MemoryTypes, TaskTypes
<1>8. OrdersAreNewer'
  <2>1. saved[d] <= orders + 2
        BY <1>2 DEF AcmeInv, TaskTypes
  <2> QED BY <1>1, <1>2, <1>4, <2>1 DEF AcmeInv, OrdersAreNewer, Serial
<1>9. TasksRunWhenUp' /\ ChallengeIsTheOrders'
      BY <1>1, <1>2, <1>4, <1>5 DEF AcmeInv, TasksRunWhenUp, ChallengeIsTheOrders
<1>10. DiskHasSaved' /\ MemoryHasSaved' /\ StartSteps' /\ FailedIsSuspect'
      BY <1>1 DEF AcmeInv, DiskHasSaved, MemoryHasSaved, StartSteps, FailedIsSuspect
<1>11. PairsLoad'
      BY <1>1, <1>4 DEF AcmeInv, PairsLoad
<1>12. ForeignDefault'
      BY <1>1, OfTask, ForeignStays
<1> QED BY <1>7, <1>8, <1>9, <1>10, <1>11, <1>12 DEF AcmeInv

\* A step of one task to its next program point, with the same order.
LEMMA TaskMoves ==
    ASSUME AcmeInv, NEW d \in Domains, orders' = orders,
           NEW p \in {"idle", "spawned", "polling", "finalizing", "key", "pem"},
           task' = [task EXCEPT ![d].pc = p]
    PROVE  /\ task' \in [Domains -> TaskState'] /\ task'[d].pc = p /\ task'[d].n = task[d].n
           /\ \A e \in Domains : e # d => task'[e] = task[e]
<1>1. /\ orders \in Nat /\ task \in [Domains -> TaskState] /\ TaskState' = TaskState
      BY DEF AcmeInv, TaskTypes, TaskState
<1>2. task'[d] = [task[d] EXCEPT !.pc = p] /\ \A e \in Domains : e # d => task'[e] = task[e]
      BY <1>1
<1>3. task[d] \in TaskState
      BY <1>1
<1>4. task'[d] \in TaskState /\ task'[d].pc = p /\ task'[d].n = task[d].n
      BY <1>1, <1>2, <1>3, TaskFacts DEF TaskState
<1>5. task' = [e \in Domains |-> task'[e]]
      BY <1>1
<1> QED BY <1>1, <1>2, <1>4, <1>5

\* A task ends.
LEMMA TaskEnds ==
    ASSUME AcmeInv, NEW d \in Domains, orders' = orders, task' = [task EXCEPT ![d] = Idle]
    PROVE  /\ task' \in [Domains -> TaskState'] /\ task'[d].pc = "idle"
           /\ \A e \in Domains : e # d => task'[e] = task[e]
<1>1. /\ orders \in Nat /\ task \in [Domains -> TaskState] /\ TaskState' = TaskState
      BY DEF AcmeInv, TaskTypes, TaskState
<1>2. Idle \in TaskState /\ Idle.pc = "idle"
      BY <1>1, AcmeAssumption DEF Idle, TaskState
<1> QED BY <1>1, <1>2

\* An order fails: the task ends, nothing else changes.
LEMMA OrderFailsPreserves ==
    ASSUME AcmeInv, NEW d \in Domains, OrderFails(d)
    PROVE  AcmeInv'
<1>1. /\ task[d].pc \in {"spawned", "polling", "finalizing"}
      /\ UNCHANGED <<folder, pems, keys, account, suspect>>
      /\ UNCHANGED <<proc, certificates, wildcard_certificates, own>>
      /\ UNCHANGED <<orders, challenges, saved, expiring>> /\ task' = [task EXCEPT ![d] = Idle]
      BY DEF OrderFails, files, memory
<1>2. /\ task' \in [Domains -> TaskState'] /\ task'[d].pc = "idle"
      /\ \A e \in Domains : e # d => task'[e] = task[e]
      BY <1>1, TaskEnds
<1>3. FileTypes' /\ MemoryTypes' /\ TaskTypes'
      BY <1>1, <1>2 DEF AcmeInv, FileTypes, MemoryTypes, TaskTypes, Content, Certificate
<1>4. TasksRunWhenUp' /\ OrdersAreNewer' /\ ChallengeIsTheOrders'
      BY <1>1, <1>2 DEF AcmeInv, TasksRunWhenUp, OrdersAreNewer, ChallengeIsTheOrders
<1>5. DiskHasSaved' /\ MemoryHasSaved' /\ StartSteps' /\ FailedIsSuspect'
      BY <1>1 DEF AcmeInv, DiskHasSaved, MemoryHasSaved, StartSteps, FailedIsSuspect
<1>6. PairsLoad'
      BY <1>1, <1>2 DEF AcmeInv, PairsLoad
<1>7. ForeignDefault'
      BY <1>1, OfTask, ForeignStays
<1> QED BY <1>3, <1>4, <1>5, <1>6, <1>7 DEF AcmeInv

\* The directory has validated the order.
LEMMA ValidatePreserves ==
    ASSUME AcmeInv, NEW d \in Domains, Validate(d)
    PROVE  AcmeInv'
<1>1. /\ task[d].pc = "polling" /\ UNCHANGED <<folder, pems, keys, account, suspect>>
      /\ UNCHANGED <<proc, certificates, wildcard_certificates, own>>
      /\ UNCHANGED <<orders, challenges, saved, expiring>>
      /\ task' = [task EXCEPT ![d].pc = "finalizing"]
      BY DEF Validate, tlsVars, files, memory
<1>2. /\ task' \in [Domains -> TaskState'] /\ task'[d].pc = "finalizing" /\ task'[d].n = task[d].n
      /\ \A e \in Domains : e # d => task'[e] = task[e]
      BY <1>1, TaskMoves
<1>3. FileTypes' /\ MemoryTypes' /\ TaskTypes'
      BY <1>1, <1>2 DEF AcmeInv, FileTypes, MemoryTypes, TaskTypes, Content, Certificate
<1>4. TasksRunWhenUp' /\ OrdersAreNewer' /\ ChallengeIsTheOrders'
      BY <1>1, <1>2 DEF AcmeInv, TasksRunWhenUp, OrdersAreNewer, ChallengeIsTheOrders
<1>5. DiskHasSaved' /\ MemoryHasSaved' /\ StartSteps' /\ FailedIsSuspect'
      BY <1>1 DEF AcmeInv, DiskHasSaved, MemoryHasSaved, StartSteps, FailedIsSuspect
<1>6. PairsLoad'
      BY <1>1, <1>2 DEF AcmeInv, PairsLoad
<1>7. ForeignDefault'
      BY <1>1, OfTask, ForeignStays
<1> QED BY <1>3, <1>4, <1>5, <1>6, <1>7 DEF AcmeInv

\* The certificate is issued and replaces the one in memory.
LEMMA FinalizePreserves ==
    ASSUME AcmeInv, NEW d \in Domains, Finalize(d)
    PROVE  AcmeInv'
<1>1. /\ task[d].pc = "finalizing" /\ UNCHANGED <<folder, pems, keys, account, suspect>>
      /\ UNCHANGED <<proc, wildcard_certificates>> /\ UNCHANGED <<orders, saved, expiring>>
      /\ challenges' = [challenges EXCEPT ![d] = 0]
      /\ certificates' = [certificates EXCEPT ![d] = [name |-> d, serial |-> Serial(task[d].n)]]
      /\ own' = own \cup {d}
      /\ task' = [task EXCEPT ![d].pc = "key"]
      BY DEF Finalize, files
<1>2. /\ task' \in [Domains -> TaskState'] /\ task'[d].pc = "key" /\ task'[d].n = task[d].n
      /\ \A e \in Domains : e # d => task'[e] = task[e]
      BY <1>1, TaskMoves
<1>3. /\ Serial(task[d].n) \in 1 .. orders + 1 /\ saved[d] <= Serial(task[d].n) /\ proc = "up"
      /\ orders \in Nat /\ [name |-> d, serial |-> Serial(task[d].n)] \in Certificate
      /\ Certificate' = Certificate
  <2>1. task[d].n \in 0 .. orders /\ orders \in Nat /\ proc = "up" /\ d \in Names
        BY <1>1, OfTask
  <2>2. saved[d] <= Serial(task[d].n)
        BY <1>1 DEF AcmeInv, OrdersAreNewer
  <2> QED BY <1>1, <2>1, <2>2 DEF Serial, Certificate
<1>4. /\ certificates' \in [Domains -> {NoCertificate} \cup Certificate]
      /\ certificates'[d] = [name |-> d, serial |-> Serial(task[d].n)]
      /\ \A e \in Domains : e # d => certificates'[e] = certificates[e]
      BY <1>1, <1>3 DEF AcmeInv, MemoryTypes
<1>5. /\ challenges' \in [Domains -> 0 .. orders]
      /\ \A e \in Domains : e # d => challenges'[e] = challenges[e]
      BY <1>1, <1>3 DEF AcmeInv, TaskTypes
<1>6. FileTypes' /\ MemoryTypes' /\ TaskTypes'
      BY <1>1, <1>2, <1>4, <1>5 DEF AcmeInv, FileTypes, MemoryTypes, TaskTypes, Content, Certificate
<1>7. OrdersAreNewer'
      BY <1>1, <1>2, <1>3, <1>4 DEF AcmeInv, OrdersAreNewer, Serial
<1>8. TasksRunWhenUp' /\ ChallengeIsTheOrders'
      BY <1>1, <1>2, <1>3, <1>5 DEF AcmeInv, TasksRunWhenUp, ChallengeIsTheOrders
<1>9. DiskHasSaved' /\ StartSteps' /\ FailedIsSuspect'
      BY <1>1 DEF AcmeInv, DiskHasSaved, StartSteps, FailedIsSuspect
<1>10. MemoryHasSaved'
      BY <1>1, <1>3, <1>4 DEF AcmeInv, MemoryHasSaved
<1>11. PairsLoad'
      BY <1>1, <1>2 DEF AcmeInv, PairsLoad
<1>12. ForeignDefault'
      BY <1>1, OfTask, ForeignStays
<1> QED BY <1>6, <1>7, <1>8, <1>9, <1>10, <1>11, <1>12 DEF AcmeInv

\* The key file is written.
LEMMA WriteKeyPreserves ==
    ASSUME AcmeInv, NEW d \in Domains, WriteKey(d)
    PROVE  AcmeInv'
<1>1. /\ task[d].pc = "key" /\ UNCHANGED <<folder, pems, account, suspect>>
      /\ UNCHANGED <<proc, certificates, wildcard_certificates, own>>
      /\ UNCHANGED <<orders, challenges, saved, expiring>>
      /\ keys' = [keys EXCEPT ![d] = Serial(task[d].n)]
      /\ task' = [task EXCEPT ![d].pc = "pem"]
      BY DEF WriteKey, memory
<1>2. /\ task' \in [Domains -> TaskState'] /\ task'[d].pc = "pem" /\ task'[d].n = task[d].n
      /\ \A e \in Domains : e # d => task'[e] = task[e]
      BY <1>1, TaskMoves
<1>3. /\ Serial(task[d].n) \in Content /\ saved[d] <= Serial(task[d].n) /\ proc = "up"
      /\ d \in Names /\ Content' = Content /\ Certificate' = Certificate
  <2>1. task[d].n \in 0 .. orders /\ orders \in Nat /\ proc = "up" /\ d \in Names
        BY <1>1, OfTask
  <2>2. saved[d] <= Serial(task[d].n)
        BY <1>1 DEF AcmeInv, OrdersAreNewer
  <2> QED BY <1>1, <2>1, <2>2 DEF Serial, Content, Certificate
<1>4. /\ keys' \in [Names -> Content] /\ keys'[d] = Serial(task[d].n)
      /\ \A n \in Names : n # d => keys'[n] = keys[n]
      BY <1>1, <1>3 DEF AcmeInv, FileTypes
<1>5. FileTypes' /\ MemoryTypes' /\ TaskTypes'
      BY <1>1, <1>2, <1>3, <1>4 DEF AcmeInv, FileTypes, MemoryTypes, TaskTypes
<1>6. OrdersAreNewer'
      BY <1>1, <1>2, <1>3, <1>4, NameFacts DEF AcmeInv, OrdersAreNewer, Serial
<1>7. TasksRunWhenUp' /\ ChallengeIsTheOrders'
      BY <1>1, <1>2, <1>3 DEF AcmeInv, TasksRunWhenUp, ChallengeIsTheOrders
<1>8. DiskHasSaved' /\ StartSteps' /\ FailedIsSuspect' /\ MemoryHasSaved'
      BY <1>1 DEF AcmeInv, DiskHasSaved, StartSteps, FailedIsSuspect, MemoryHasSaved
<1>9. PairsLoad'
      BY <1>1, <1>2, <1>4 DEF AcmeInv, PairsLoad
<1>10. ForeignDefault'
      BY <1>1, OfTask, ForeignStays
<1> QED BY <1>5, <1>6, <1>7, <1>8, <1>9, <1>10 DEF AcmeInv

\* The certificate file is written: the pair is complete, and reported as saved.
LEMMA WritePemPreserves ==
    ASSUME AcmeInv, NEW d \in Domains, WritePem(d)
    PROVE  AcmeInv'
<1>1. /\ task[d].pc = "pem" /\ UNCHANGED <<folder, keys, account>>
      /\ UNCHANGED <<proc, certificates, wildcard_certificates, own>>
      /\ UNCHANGED <<orders, challenges, expiring>>
      /\ pems' = [pems EXCEPT ![d] = Serial(task[d].n)]
      /\ saved' = [saved EXCEPT ![d] = Serial(task[d].n)]
      /\ suspect' = suspect \ {d}
      /\ task' = [task EXCEPT ![d] = Idle]
      BY DEF WritePem, memory
<1>2. /\ task' \in [Domains -> TaskState'] /\ task'[d].pc = "idle"
      /\ \A e \in Domains : e # d => task'[e] = task[e]
      BY <1>1, TaskEnds
<1>3. /\ Serial(task[d].n) \in Content /\ Serial(task[d].n) \in 1 .. orders + 1 /\ proc = "up"
      /\ d \in Names /\ Content' = Content /\ Certificate' = Certificate /\ certificates[d] = [name |-> d, serial |-> Serial(task[d].n)]
      /\ keys[d] = Serial(task[d].n) /\ orders \in Nat /\ d # "account"
      BY <1>1, OfTask, NameFacts DEF AcmeInv, OrdersAreNewer, Serial, Content, Certificate
<1>4. /\ pems' \in [Names -> Content] /\ pems'[d] = Serial(task[d].n)
      /\ \A n \in Names : n # d => pems'[n] = pems[n]
      BY <1>1, <1>3 DEF AcmeInv, FileTypes
<1>5. /\ saved' \in [Domains -> 0 .. orders + 1] /\ saved'[d] = Serial(task[d].n)
      /\ \A e \in Domains : e # d => saved'[e] = saved[e]
      BY <1>1, <1>3 DEF AcmeInv, TaskTypes
<1>6. FileTypes' /\ MemoryTypes' /\ TaskTypes'
      BY <1>1, <1>2, <1>3, <1>4, <1>5 DEF AcmeInv, FileTypes, MemoryTypes, TaskTypes
<1>7. OrdersAreNewer'
      BY <1>1, <1>2, <1>5 DEF AcmeInv, OrdersAreNewer
<1>8. TasksRunWhenUp' /\ ChallengeIsTheOrders' /\ StartSteps' /\ FailedIsSuspect'
      BY <1>1, <1>2, <1>3 DEF AcmeInv, TasksRunWhenUp, ChallengeIsTheOrders, StartSteps, FailedIsSuspect
<1>9. DiskHasSaved'
      BY <1>3, <1>4, <1>5, NameFacts DEF AcmeInv, DiskHasSaved
<1>10. MemoryHasSaved'
      BY <1>1, <1>3, <1>5 DEF AcmeInv, MemoryHasSaved
<1>11. PairsLoad'
      BY <1>1, <1>2, <1>3, <1>4 DEF AcmeInv, PairsLoad
<1>12. ForeignDefault'
      BY <1>1, OfTask, ForeignStays
<1> QED BY <1>6, <1>7, <1>8, <1>9, <1>10, <1>11, <1>12 DEF AcmeInv

\* What cut writes leave: every file as it was, but those being written.
LEMMA CutPairsFacts ==
    ASSUME AcmeInv, NEW ds \in SUBSET Saving, CutPairs(ds)
    PROVE  /\ pems' \in [Names -> Content] /\ keys' \in [Names -> Content]
           /\ \A n \in Names : n \notin ds => pems'[n] = pems[n] /\ keys'[n] = keys[n]
           /\ \A d \in ds : /\ pems'[d] \in {pems[d], Partial}
                            /\ task[d].pc = "key" => pems'[d] = pems[d]
                            /\ task[d].pc = "pem" => keys'[d] = keys[d]
<1>1. PICK cut \in SUBSET ds :
        /\ keys' = [n \in Names |-> IF n \in cut /\ task[n].pc = "key" THEN Partial ELSE keys[n]]
        /\ pems' = [n \in Names |-> IF n \in cut /\ task[n].pc = "pem" THEN Partial ELSE pems[n]]
      BY DEF CutPairs
<1>2. /\ Partial \in Content /\ pems \in [Names -> Content] /\ keys \in [Names -> Content]
      /\ ds \subseteq Names
      BY NameFacts DEF AcmeInv, FileTypes, Content, Certificate, Saving
<1> QED BY <1>1, <1>2

\* A write fails: the next attempt begins with the key, or the task gives up.
LEMMA WriteFailsPreserves ==
    ASSUME AcmeInv, NEW d \in Domains, WriteFails(d)
    PROVE  AcmeInv'
<1>1. /\ d \in Saving /\ CutPairs({d}) /\ UNCHANGED <<folder, account>>
      /\ UNCHANGED <<proc, certificates, wildcard_certificates, own>>
      /\ UNCHANGED <<orders, challenges, saved, expiring>>
      BY DEF WriteFails, memory
<1>2. /\ pems' \in [Names -> Content] /\ keys' \in [Names -> Content]
      /\ \A n \in Names : n # d => pems'[n] = pems[n] /\ keys'[n] = keys[n]
      /\ pems'[d] \in {pems[d], Partial}
      BY <1>1, CutPairsFacts
<1>3. /\ task[d].pc \in {"key", "pem"} /\ proc = "up" /\ Content' = Content /\ Certificate' = Certificate /\ orders \in Nat
      /\ d \in Names /\ task \in [Domains -> TaskState] /\ TaskState' = TaskState
      /\ certificates[d] = [name |-> d, serial |-> Serial(task[d].n)] /\ saved[d] <= Serial(task[d].n)
      BY <1>1, OfTask DEF AcmeInv, Saving, Content, Certificate, TaskTypes, TaskState, OrdersAreNewer
<1>4. /\ task' \in [Domains -> TaskState]
      /\ \A e \in Domains : e # d => task'[e] = task[e]
      /\ \/ task'[d].pc = "key" /\ task'[d].n = task[d].n /\ suspect' = suspect
         \/ task'[d].pc = "idle" /\ suspect' = suspect \cup {d}
  <2>1. CASE RetriesLeft(d)
    <3>1. task' = [task EXCEPT ![d].pc = "key", ![d].attempt = @ + 1] /\ suspect' = suspect
          BY <2>1 DEF WriteFails
    <3>2. /\ task'[d] = [task[d] EXCEPT !.pc = "key", !.attempt = @ + 1]
          /\ \A e \in Domains : e # d => task'[e] = task[e]
          /\ task' = [e \in Domains |-> task'[e]]
          BY <1>3, <3>1
    <3>3. task[d] \in TaskState /\ task[d].attempt + 1 < Retries
          BY <1>3, <2>1 DEF RetriesLeft
    <3>4. task'[d] \in TaskState /\ task'[d].pc = "key" /\ task'[d].n = task[d].n
          BY <1>3, <3>2, <3>3, RetryFacts DEF TaskState
    <3> QED BY <1>3, <3>1, <3>2, <3>4
  <2>2. CASE ~ RetriesLeft(d)
    <3>1. task' = [task EXCEPT ![d] = Idle] /\ suspect' = suspect \cup {d}
          BY <2>2 DEF WriteFails
    <3> QED BY <1>1, <1>3, <3>1, TaskEnds
  <2> QED BY <2>1, <2>2
<1>5. FileTypes' /\ MemoryTypes' /\ TaskTypes'
      BY <1>1, <1>2, <1>3, <1>4 DEF AcmeInv, FileTypes, MemoryTypes, TaskTypes
<1>6. OrdersAreNewer'
      BY <1>1, <1>2, <1>3, <1>4, NameFacts DEF AcmeInv, OrdersAreNewer
<1>7. TasksRunWhenUp' /\ ChallengeIsTheOrders'
      BY <1>1, <1>3, <1>4 DEF AcmeInv, TasksRunWhenUp, ChallengeIsTheOrders
<1>8. DiskHasSaved'
      BY <1>1, <1>2, NameFacts DEF AcmeInv, DiskHasSaved
<1>9. MemoryHasSaved'
      BY <1>1 DEF AcmeInv, MemoryHasSaved
<1>10. StartSteps' /\ FailedIsSuspect'
      BY <1>1, <1>3, <1>4 DEF AcmeInv, StartSteps, FailedIsSuspect
<1>11. PairsLoad'
      BY <1>1, <1>2, <1>4 DEF AcmeInv, PairsLoad
<1>12. ForeignDefault'
      BY <1>1, <1>3, ForeignStays
<1> QED BY <1>5, <1>6, <1>7, <1>8, <1>9, <1>10, <1>11, <1>12 DEF AcmeInv

\* The process exits: the pairs being saved are suspect.
LEMMA StopPreserves ==
    ASSUME AcmeInv, Stop
    PROVE  AcmeInv'
<1>1. /\ proc = "up" /\ CutPairs(Saving) /\ UNCHANGED <<folder, account>> /\ Forget
      /\ UNCHANGED <<orders, saved, expiring>> /\ suspect' = suspect \cup Saving
      /\ task' = NoTasks /\ challenges' = NoChallenges /\ proc' = "down"
      BY DEF Stop, Forget
<1>2. /\ pems' \in [Names -> Content] /\ keys' \in [Names -> Content]
      /\ \A n \in Names : n \notin Saving => pems'[n] = pems[n] /\ keys'[n] = keys[n]
      /\ \A d \in Saving : pems'[d] \in {pems[d], Partial}
      BY <1>1, CutPairsFacts
<1>3. /\ Content' = Content /\ Certificate' = Certificate /\ TaskState' = TaskState /\ orders \in Nat
      /\ Saving \subseteq Names
      BY <1>1, NameFacts DEF AcmeInv, Content, Certificate, TaskTypes, TaskState, Saving
<1>4. Idle \in TaskState /\ Idle.pc = "idle"
      BY <1>3, AcmeAssumption DEF Idle, TaskState
<1>5. /\ task' \in [Domains -> TaskState] /\ challenges' \in [Domains -> 0 .. orders]
      /\ \A d \in Domains : task'[d].pc = "idle"
      BY <1>1, <1>3, <1>4 DEF NoTasks, NoChallenges
<1>6. MemoryTypes'
      BY <1>1, ForgetPreserves
<1>7. FileTypes' /\ TaskTypes'
      BY <1>1, <1>2, <1>3, <1>5 DEF AcmeInv, FileTypes, TaskTypes
<1>8. TasksRunWhenUp' /\ OrdersAreNewer' /\ ChallengeIsTheOrders'
      BY <1>5 DEF TasksRunWhenUp, OrdersAreNewer, ChallengeIsTheOrders
<1>9. DiskHasSaved'
      BY <1>1, <1>2, NameFacts DEF AcmeInv, DiskHasSaved
<1>10. MemoryHasSaved' /\ StartSteps' /\ FailedIsSuspect'
      BY <1>1 DEF AcmeInv, MemoryHasSaved, StartSteps, FailedIsSuspect
<1>11. PairsLoad'
      BY <1>1, <1>2 DEF AcmeInv, PairsLoad, Saving
<1>12. ForeignDefault'
      BY <1>1, ForeignStays
<1> QED BY <1>6, <1>7, <1>8, <1>9, <1>10, <1>11, <1>12 DEF AcmeInv

\* A certificate comes close to its expiry.
LEMMA ComesToExpirePreserves ==
    ASSUME AcmeInv, NEW d \in Domains, ComesToExpire(d)
    PROVE  AcmeInv'
<1>1. /\ UNCHANGED <<folder, pems, keys, account, suspect>>
      /\ UNCHANGED <<proc, certificates, wildcard_certificates, own>>
      /\ UNCHANGED <<orders, task, challenges, saved>>
      /\ expiring' = expiring \cup {certificates[d]} /\ certificates[d] # NoCertificate
      /\ proc = "up"
      BY DEF ComesToExpire, tlsVars, files, memory
<1>2. expiring' \subseteq Certificate
  <2>1. certificates[d] \in Certificate
        BY <1>1, OfTask
  <2> QED BY <1>1, <2>1 DEF AcmeInv, TaskTypes
<1>3. FileTypes' /\ MemoryTypes' /\ TaskTypes'
      BY <1>1, <1>2 DEF AcmeInv, FileTypes, MemoryTypes, TaskTypes, Content, Certificate, TaskState
<1>4. TasksRunWhenUp' /\ OrdersAreNewer' /\ ChallengeIsTheOrders'
      BY <1>1 DEF AcmeInv, TasksRunWhenUp, OrdersAreNewer, ChallengeIsTheOrders
<1>5. DiskHasSaved' /\ MemoryHasSaved' /\ StartSteps' /\ FailedIsSuspect' /\ PairsLoad'
      BY <1>1 DEF AcmeInv, DiskHasSaved, MemoryHasSaved, StartSteps, FailedIsSuspect, PairsLoad
<1>6. ForeignDefault'
      BY <1>1, ForeignStays
<1> QED BY <1>3, <1>4, <1>5, <1>6 DEF AcmeInv

\* Nothing changes.
LEMMA AcmeStutters ==
    ASSUME AcmeInv, UNCHANGED allVars
    PROVE  AcmeInv'
<1>1. /\ UNCHANGED <<folder, pems, keys, account, suspect>>
      /\ UNCHANGED <<proc, certificates, wildcard_certificates, own>>
      /\ UNCHANGED <<orders, task, challenges, saved, expiring>>
      BY DEF allVars, tlsVars, acmeVars, files, memory
<1>2. FileTypes' /\ MemoryTypes' /\ TaskTypes'
      BY <1>1 DEF AcmeInv, FileTypes, MemoryTypes, TaskTypes, Content, Certificate, TaskState
<1>3. TasksRunWhenUp' /\ OrdersAreNewer' /\ ChallengeIsTheOrders'
      BY <1>1 DEF AcmeInv, TasksRunWhenUp, OrdersAreNewer, ChallengeIsTheOrders
<1>4. DiskHasSaved' /\ MemoryHasSaved' /\ StartSteps' /\ FailedIsSuspect' /\ PairsLoad'
      BY <1>1 DEF AcmeInv, DiskHasSaved, MemoryHasSaved, StartSteps, FailedIsSuspect, PairsLoad
<1>5. ForeignDefault'
      BY <1>1 DEF AcmeInv, ForeignDefault, DefaultIsValid
<1> QED BY <1>2, <1>3, <1>4, <1>5 DEF AcmeInv

\* The first start, on an empty folder or one with certificates.
LEMMA AcmeInitEstablishes == AcmeInit => AcmeInv
<1>1. SUFFICES ASSUME AcmeInit PROVE AcmeInv
      OBVIOUS
<1>2. /\ folder \in Folders /\ pems = folder.pems /\ keys = folder.keys /\ account = folder.account
      /\ proc = "down" /\ certificates = [d \in Domains |-> NoCertificate] /\ own = {}
      /\ wildcard_certificates = <<>> /\ task = NoTasks
      /\ challenges = [d \in Domains |-> 0] /\ orders = 0 /\ expiring = {}
      /\ saved = [d \in Domains |-> IF Loads(d) /\ d \in folder.hostnames[d] THEN 1 ELSE 0]
      BY <1>1 DEF AcmeInit, TlsInit, NoCertificates, NoChallenges, Absent
<1>3. /\ \A n \in Names : n \in suspect \/ pems[n] = Absent \/ Loads(n)
      /\ DefaultIsValid \/ Default \in suspect
      /\ account = Partial => "account" \in suspect
      /\ suspect \subseteq Names \cup {"account"}
  <2>1. suspect = {n \in Names : pems[n] # Absent /\ ~ Loads(n)}
                  \cup (IF DefaultIsValid THEN {} ELSE {Default})
                  \cup (IF account = Partial THEN {"account"} ELSE {})
        BY <1>1 DEF AcmeInit, TlsInit
  <2> QED BY <2>1, NameFacts
<1>4. /\ pems \in [Names -> {Absent, Partial, 1}] /\ keys \in [Names -> {Absent, Partial, 1}]
      /\ account \in {Absent, Partial, 1}
      /\ pems[Default] = Absent => DefaultIsValid
      BY <1>2, TlsAssumption DEF Folder, DefaultIsValid
<1>5. Idle \in TaskState /\ Idle.pc = "idle"
      BY <1>2, AcmeAssumption DEF Idle, TaskState
<1>6. pems \in [Names -> Content] /\ keys \in [Names -> Content]
  <2>1. {Absent, Partial, 1} \subseteq Content
        BY <1>2 DEF Content
  <2> QED BY <1>4, <2>1
<1>7. FileTypes /\ MemoryTypes
      BY <1>2, <1>3, <1>4, <1>6 DEF FileTypes, MemoryTypes
<1>8. task \in [Domains -> TaskState] /\ \A d \in Domains : task[d].pc = "idle"
      BY <1>2, <1>5 DEF NoTasks
<1>9. saved \in [Domains -> 0 .. orders + 1]
      BY <1>2
<1>10. TaskTypes
      BY <1>2, <1>8, <1>9 DEF TaskTypes
<1>11. TasksRunWhenUp /\ OrdersAreNewer /\ ChallengeIsTheOrders /\ MemoryHasSaved /\ FailedIsSuspect
      BY <1>2, <1>8 DEF TasksRunWhenUp, OrdersAreNewer, ChallengeIsTheOrders, MemoryHasSaved, FailedIsSuspect
<1>12. DiskHasSaved
  <2>1. SUFFICES ASSUME NEW d \in Domains PROVE pems[d] = Partial \/ saved[d] <= pems[d]
        BY DEF DiskHasSaved
  <2>2. pems[d] \in {Absent, Partial, 1} /\ saved[d] \in {0, 1} /\ (saved[d] = 1 => pems[d] > 0)
        BY <1>2, <1>4, NameFacts DEF Loads
  <2> QED BY <2>2 DEF Absent, Partial
<1>13. PairsLoad
      BY <1>3 DEF PairsLoad, Loads
<1>14. StartSteps /\ ForeignDefault
      BY <1>2, <1>3, <1>4 DEF StartSteps, ForeignDefault
<1> QED BY <1>7, <1>10, <1>11, <1>12, <1>13, <1>14 DEF AcmeInv

-----------------------------------------------------------------------------
(* Theorems *)

\* The inductive invariant holds in every state, through stops and crashes at
\* any point of a start or of a save.
THEOREM AcmeInvariant == AcmeSpec => []AcmeInv
<1>1. AcmeInv /\ [AcmeNext]_allVars => AcmeInv'
  <2>1. SUFFICES ASSUME AcmeInv, [AcmeNext]_allVars PROVE AcmeInv'
        OBVIOUS
  <2>2. CASE Start /\ UNCHANGED acmeVars
        BY <2>1, <2>2, StartPreserves
  <2>3. ASSUME NEW d \in Domains, Task(d) PROVE AcmeInv'
        BY <2>1, <2>3, PlaceOrderPreserves, OrderFailsPreserves, ValidatePreserves,
           FinalizePreserves, WriteKeyPreserves, WritePemPreserves, WriteFailsPreserves DEF Task
  <2>4. ASSUME NEW d \in Domains, ComesToExpire(d) PROVE AcmeInv'
        BY <2>1, <2>4, ComesToExpirePreserves
  <2> QED BY <2>1, <2>2, <2>3, <2>4, ScanPreserves, StopPreserves, AcmeStutters DEF AcmeNext
<1> QED BY <1>1, AcmeInitEstablishes, PTL DEF AcmeSpec

\* Files, memory, tasks and the challenge store keep their types.
THEOREM AcmeTypeCorrect == AcmeSpec => []AcmeTypeOK
<1>1. AcmeInv => AcmeTypeOK
      BY DEF AcmeInv, FileTypes, MemoryTypes, TaskTypes, AcmeTypeOK, Content, TaskState, Certificate
<1> QED BY <1>1, AcmeInvariant, PTL

\* Every pair on disk loads, wherever the process was stopped, but those whose
\* save was cut short and those the operator left unusable; without one of
\* these no start fails for good.
THEOREM CompletePairsLoad == AcmeSpec => []CompleteSavesLoad
<1>1. AcmeInv => CompleteSavesLoad
      BY DEF AcmeInv, PairsLoad, FailedIsSuspect, CompleteSavesLoad, Listed, Saving, Loads
<1> QED BY <1>1, AcmeInvariant, PTL

\* A domain whose certificate was reported as saved is served with that one or
\* a newer one whenever Pingoo is up, whatever fails or stops in between, if the
\* process has read the domain's file and no other certificate for its name, or
\* has had the certificate issued itself.
THEOREM SavedCertificatesAreServed == AcmeSpec => []SavedIsServed
<1>1. AcmeInv => SavedIsServed
  <2>1. SUFFICES ASSUME AcmeInv, proc = "up", NEW d \in own, saved[d] # Absent
                 PROVE  resolve(d) = d /\ certificates[d].serial >= saved[d]
        BY DEF SavedIsServed
  <2>2. d \in Domains
        BY <2>1 DEF AcmeInv, MemoryTypes
  <2>3. /\ certificates[d].name = d /\ saved[d] <= certificates[d].serial /\ saved[d] \in Nat
        /\ certificates[d] \in {NoCertificate} \cup Certificate /\ orders \in Nat
        BY <2>1, <2>2, OfTask DEF AcmeInv, MemoryHasSaved
  <2>4. certificates[d] # NoCertificate
        BY <2>1, <2>3 DEF Absent, NoCertificate
  <2>5. certificates[d].serial \in Nat
        BY <2>3, <2>4 DEF Certificate
  <2> QED BY <2>3, <2>4, <2>5 DEF resolve
<1> QED BY <1>1, AcmeInvariant, PTL

\* While an order is validated the listeners answer with that order's
\* challenge, though failed orders leave theirs behind.
THEOREM ChallengesAreTheOrders == AcmeSpec => []ChallengeIsTheOrders
<1>1. AcmeInv => ChallengeIsTheOrders
      BY DEF AcmeInv
<1> QED BY <1>1, AcmeInvariant, PTL
=============================================================================
