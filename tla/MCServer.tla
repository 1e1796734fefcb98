----------------------------- MODULE MCServer -----------------------------
(* A web listener with two clients and a raw one with one client.  The file *)
(* is a typical one, or differs from it in one respect.                     *)
EXTENDS Server

CONSTANTS web, raw, c1, c2, c3

MCListenerOf == c1 :> web @@ c2 :> web @@ c3 :> raw

\* Addresses.
MCAddress(scheme, port) == [scheme |-> {scheme}, host |-> "ip", port |-> port, path |-> FALSE]

MCListener(name, scheme, services) ==
    [name |-> name, address |-> MCAddress(scheme, {IF name = web THEN 8443 ELSE 9000}), services |-> services]

MCUpstream == [scheme |-> "http", host |-> "ipv4", port |-> {}]

MCNoService == [name |-> "", http_proxy |-> {}, tcp_proxy |-> {}, static |-> {}, route |-> {}]
MCSite == [MCNoService EXCEPT !.name = "site", !.static = {404}]
MCApi == [MCNoService EXCEPT !.name = "api", !.http_proxy = {<<MCUpstream>>}, !.route = {TRUE}]
MCDb == [MCNoService EXCEPT !.name = "db",
                            !.tcp_proxy = {<<[MCUpstream EXCEPT !.scheme = "tcp", !.port = {5432}]>>}]

MCRule(name, text) == [name |-> name, text |-> text, compiles |-> TRUE]

MCRulesFile(rules) == [yml |-> TRUE, parses |-> TRUE, rules |-> rules]

MCBase ==
    [listeners |-> <<MCListener(web, "https", {}), MCListener(raw, "tcp+tls", {<<"db">>})>>,
     services |-> <<MCApi, MCSite, MCDb>>,
     rules |-> <<MCRule("bots", 1)>>,
     folder |-> [opens |-> TRUE, readable |-> 3,
                 entries |-> <<MCRulesFile(<<MCRule("flood", 2)>>),
                               [MCRulesFile(<<MCRule("bots", 3)>>) EXCEPT !.yml = FALSE, !.parses = FALSE],
                               MCRulesFile(<<MCRule("paths", 4)>>)>>],
     domains |-> <<"one.example", "two.example">>, command |-> {}, default_pem |-> FALSE]

MCAddresses == {[MCAddress("https", {8443}) EXCEPT !.scheme = {"ftp"}],
                [MCAddress("https", {8443}) EXCEPT !.host = "name"],
                MCAddress("tcp", {}), MCAddress("https", {9000})}

MCUpstreams == {[MCUpstream EXCEPT !.host = ""], [MCUpstream EXCEPT !.scheme = "ftp"], [MCUpstream EXCEPT !.scheme = "tcp"]}

MCRefused ==
    {[MCBase EXCEPT !.listeners[1].address = a] : a \in MCAddresses} \cup
    {[MCBase EXCEPT !.services[1].http_proxy = {<<MCUpstream, u>>}] : u \in MCUpstreams} \cup
    {[MCBase EXCEPT !.listeners[1].services = {names}] :
        names \in {<<>>, <<"none">>, <<"api", "site", "api">>}} \cup
    {[MCBase EXCEPT !.listeners[2].services = {<<"db", "api">>}],
     [MCBase EXCEPT !.services[1].static = {404}],
     [MCBase EXCEPT !.services[2].static = {}],
     [MCBase EXCEPT !.services[2].static = {1}],
     [MCBase EXCEPT !.services[3].route = {TRUE}],
     [MCBase EXCEPT !.services[1].route = {FALSE}],
     [MCBase EXCEPT !.rules[1].compiles = FALSE],
     [MCBase EXCEPT !.rules[1].name = "paths"],
     [MCBase EXCEPT !.folder.opens = FALSE],
     [MCBase EXCEPT !.folder.entries[1].parses = FALSE],
     [MCBase EXCEPT !.folder.entries[3].rules[1].name = "flood"],
     [MCBase EXCEPT !.domains[2] = "one.example"],
     [MCBase EXCEPT !.domains[2] = "wildcard"]}

\* With services by default, without rules and in clear, on the well-known port.
MCPlain ==
    [MCBase EXCEPT
        !.listeners = <<[MCListener(web, "http", {<<"site">>}) EXCEPT !.address.scheme = {}, !.address.port = {}],
                        MCListener(raw, "tcp", {})>>,
        !.rules = <<>>, !.folder.entries = <<>>, !.folder.readable = 0, !.command = {2}]

\* A second start, names written twice, a directory that cannot be read to its end, an
\* upstream with an IPv6 address, and only the raw listener.
MCOdd ==
    [MCBase EXCEPT !.listeners = <<MCListener(raw, "http", {}), [@[2] EXCEPT !.address.path = TRUE]>>,
                   !.services = <<[MCDb EXCEPT !.tcp_proxy = {<<>>}], MCSite, MCDb>>,
                   !.services[2].http_proxy = {<<[MCUpstream EXCEPT !.host = "ipv6"]>>},
                   !.services[2].static = {},
                   !.folder.entries[1].rules = <<MCRule("flood", 2), MCRule("bad", 5), MCRule("flood", 6)>>,
                   !.folder.readable = 2, !.default_pem = TRUE]

\* Accepted, though the start will panic.
MCPanicking ==
    {[MCBase EXCEPT !.listeners[2].services = {<<"api">>}],
     [MCBase EXCEPT !.listeners[1].services = {<<"api", "db">>}],
     [MCBase EXCEPT !.command = {0}]}

MCConfigFiles == {MCBase, MCPlain, MCOdd} \cup MCPanicking \cup MCRefused

\* For the shutdown alone.
MCTypical == {MCBase}
=============================================================================
