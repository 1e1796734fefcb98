------------------------------- MODULE Config -------------------------------
(***************************************************************************)
(* pingoo/config: from the files in /etc/pingoo to the configuration the   *)
(* server runs with, or to an error.                                       *)
(*                                                                         *)
(* Every error ends the process in the same way (module Server), so the    *)
(* question is only which files are accepted and what becomes of them.     *)
(* Texts are given by what the parsers tell apart.  An optional field is a *)
(* set with at most one element.                                           *)
(***************************************************************************)
EXTENDS Naturals, SequencesExt

Protocols == {"http", "https", "tcp", "tcp+tls"}

-----------------------------------------------------------------------------
(* The YAML maps of the files (config_file.rs): lists of named entries, in   *)
(* which an administrator may have written a name twice.                     *)

Names(s) == {s[i].name : i \in DOMAIN s}

\* Of a set of positions, the n-th.
At(kept, n) == CHOOSE i \in kept : Cardinality({j \in kept : j <= i}) = n

\* iter().filter(): what passes the test, in its order.
Filter(s, Test(_)) ==
    LET kept == {i \in DOMAIN s : Test(s[i])} IN [n \in 1..Cardinality(kept) |-> s[At(kept, n)]]

\* Where a name is written for the first time, and for the last.
Firsts(s) == {i \in DOMAIN s : \A j \in DOMAIN s : s[j].name = s[i].name => i <= j}
Lasts(s) == {i \in DOMAIN s : \A j \in DOMAIN s : s[j].name = s[i].name => j <= i}

\* Mutant: of a repeated name the first value stays.
FirstValues(s) == [n \in 1..Cardinality(Firsts(s)) |-> s[At(Firsts(s), n)]]

\* serde inserts key after key, and insert() replaces the value of a key it
\* has: a repeated name keeps its first place and has its last value.
IndexMap(s) ==
    LET value(i) == s[CHOOSE k \in Lasts(s) : s[k].name = s[i].name]
    IN [n \in 1..Cardinality(Firsts(s)) |-> value(At(Firsts(s), n))]

\* What serde_yaml makes of pingoo.yml and of the files of the rules folder.
Deserialized(file) ==
    [listeners |-> IndexMap(file.listeners), services |-> IndexMap(file.services),
     rules |-> IndexMap(file.rules), domains |-> file.domains, command |-> file.command,
     folder |-> [opens |-> file.folder.opens, readable |-> file.folder.readable,
                 entries |-> [i \in DOMAIN file.folder.entries |->
                                LET entry == file.folder.entries[i] IN
                                [yml |-> entry.yml, parses |-> entry.parses,
                                 rules |-> IndexMap(entry.rules)]]]]

-----------------------------------------------------------------------------
(* Addresses, upstreams and services (config_file.rs) *)

Default(option, value) == IF option = {} THEN value ELSE CHOOSE v \in option : TRUE

\* The scheme of a listener's address decides its protocol, and its port by default.
ProtocolOf(address) == Default(address.scheme, "http")

WellKnownPort(scheme) ==
    CASE scheme = "http" -> {80}
      [] scheme = "https" -> {443}
      [] OTHER -> {}

PortOf(scheme, port) == IF port = {} THEN WellKnownPort(scheme) ELSE port

\* parse_listener_address: a path after the address goes unnoticed.
AddressParses(address) ==
    /\ ProtocolOf(address) \in Protocols
    /\ address.host = "ip"
    /\ PortOf(ProtocolOf(address), address.port) # {}

UpstreamParses(u) ==
    /\ u.host # ""
    /\ u.scheme \in {"tcp", "http", "https"}
    /\ PortOf(u.scheme, u.port) # {}

\* The url crate has put the host into ASCII; an IPv6 address comes with its
\* brackets, and is a domain like any name.
parse_upstream(u) ==
    [kind |-> IF u.host \in {"localhost", "ipv4"} THEN "address" ELSE "domain",
     host |-> u.host, tls |-> u.scheme = "https", port |-> PortOf(u.scheme, u.port)]

ServiceParses(service) ==
    /\ Cardinality({field \in {"http_proxy", "tcp_proxy", "static"} : service[field] # {}}) = 1
    /\ \A status \in service.static : status \in 100..999
    /\ \A us \in service.http_proxy \cup service.tcp_proxy : \A i \in DOMAIN us : UpstreamParses(us[i])
    /\ service.tcp_proxy # {} => service.route = {}
    /\ \A compiles \in service.route : compiles

parse_service(service) ==
    LET parsed(option) == {[i \in DOMAIN us |-> parse_upstream(us[i])] : us \in option} IN
    [name |-> service.name, route |-> service.route, static |-> service.static,
     http_proxy |-> parsed(service.http_proxy), tcp_proxy |-> parsed(service.tcp_proxy)]

-----------------------------------------------------------------------------
(* load_rules: the rules folder *)

\* An error of next_entry() ends the loop as the end of the folder does.
YmlFiles(folder) ==
    LET isYml(entry) == entry.yml
    IN Filter(SubSeq(folder.entries, 1, folder.readable), isYml)

RulesFolderLoads(folder) ==
    LET files == YmlFiles(folder) IN
    /\ folder.opens
    /\ \A i \in DOMAIN files : files[i].parses
    /\ \A i, j \in DOMAIN files : i # j => Names(files[i].rules) \cap Names(files[j].rules) = {}

\* IndexMap::extend: a rule of the same name is replaced.
Extend(rules, more) ==
    LET new(r) == r.name \notin Names(rules)
    IN [i \in DOMAIN rules |->
            IF rules[i].name \in Names(more)
            THEN CHOOSE r \in ToSet(more) : r.name = rules[i].name
            ELSE rules[i]] \o Filter(more, new)

\* No folder, no rules; after n files, ret holds merged[n].
load_rules(folder) ==
    LET files == YmlFiles(folder)
        merged[n \in 0..Len(files)] ==
            IF n = 0 THEN <<>> ELSE Extend(merged[n - 1], files[n].rules)
    IN merged[Len(files)]

-----------------------------------------------------------------------------
(* load_and_validate *)

HasDuplicate(s) == ~ IsInjective(s)

IsHttp(service) == service.http_proxy # {} \/ service.static # {}
IsTcp(service) == service.tcp_proxy # {}

NamesOf(services) == [i \in DOMAIN services |-> services[i].name]

\* Mutant: all services, whatever the listener.
DefaultServicesOfAnyKind(proto, services) == NamesOf(services)

default_services_for_listener(proto, services) ==
    IF proto \in {"tcp", "tcp+tls"} THEN NamesOf(Filter(services, IsTcp))
                                 ELSE NamesOf(Filter(services, IsHttp))

ListenerConfig(l, services) ==
    LET proto == ProtocolOf(l.address) IN
    [name |-> l.name, protocol |-> proto,
     port |-> Default(PortOf(proto, l.address.port), 0),
     services |-> Default(l.services, default_services_for_listener(proto, services))]

validate_listeners_config(listeners, services) ==
    \A i \in DOMAIN listeners :
        LET l == listeners[i] IN
        /\ \A j \in DOMAIN listeners : i # j => listeners[j].port # l.port
        /\ l.services # <<>>
        /\ l.protocol \in {"tcp", "tcp+tls"} => Len(l.services) = 1
        /\ ToSet(l.services) \subseteq Names(services)
        /\ ~ HasDuplicate(l.services)

\* Domains ACME is to get certificates for.
DomainsAreValid(domains) ==
    /\ ~ HasDuplicate(domains)
    /\ \A i \in DOMAIN domains : domains[i] \notin {"wildcard", "not lower-case ASCII"}

Loaded(file) ==
    LET services == [i \in DOMAIN file.services |-> parse_service(file.services[i])] IN
    [services |-> services,
     listeners |-> [i \in DOMAIN file.listeners |-> ListenerConfig(file.listeners[i], services)],
     rules |-> Extend(file.rules, load_rules(file.folder)),
     domains |-> file.domains, command |-> file.command]

\* Mutant: a rule of pingoo.yml may have the name of one of the folder.
AcceptsAnyRuleNames(file) ==
    /\ \A i \in DOMAIN file.listeners : AddressParses(file.listeners[i].address)
    /\ RulesFolderLoads(file.folder)
    /\ \A i \in DOMAIN file.services : ServiceParses(file.services[i])
    /\ validate_listeners_config(Loaded(file).listeners, Loaded(file).services)
    /\ \A i \in DOMAIN Loaded(file).rules : Loaded(file).rules[i].compiles
    /\ DomainsAreValid(file.domains)

Accepts(file) ==
    /\ \A i \in DOMAIN file.listeners : AddressParses(file.listeners[i].address)
    /\ RulesFolderLoads(file.folder)
    /\ Names(load_rules(file.folder)) \cap Names(file.rules) = {}
    /\ \A i \in DOMAIN file.services : ServiceParses(file.services[i])
    /\ validate_listeners_config(Loaded(file).listeners, Loaded(file).services)
    /\ \A i \in DOMAIN Loaded(file).rules : Loaded(file).rules[i].compiles
    /\ DomainsAreValid(file.domains)
=============================================================================
