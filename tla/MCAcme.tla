------------------------------- MODULE MCAcme -------------------------------
(* Certificates and ACME on small instances. *)
EXTENDS Acme

CONSTANTS shop, blog, wild

MCMatches == [p \in {"*", "*.example.com"} |-> Domains]

\* Whole pairs in the files of ns; a domain's certificate names the domain, the
\* operator's has one wildcard.
Whole(ns) ==
    [pems |-> [n \in Names |-> IF n \in ns THEN 1 ELSE Absent],
     keys |-> [n \in Names |-> IF n \in ns THEN 1 ELSE Absent],
     account |-> Absent,
     hostnames |-> [n \in Names |-> {n} \cap Domains],
     patterns |-> [n \in Names |->
        IF n = wild THEN {"*.example.com"} ELSE IF n = Default THEN {"*"} ELSE {}]]

\* Folders whose certificates are all served, each for names of its own.
Plain == {Whole({}), Whole({wild, shop})}

\* The operator's certificate has the host name of a domain's too; all that an
\* earlier installation may have left is there.
Duplicate == [Whole({wild, shop, Default}) EXCEPT !.hostnames[wild] = {shop}, !.account = 1]

\* <domain>.pem is a certificate for another domain, and acme.json was edited.
Misnamed == [Whole({shop}) EXCEPT !.hostnames[shop] = {blog}, !.account = Partial]

\* A pair that does not load; a default.pem for one host.
Unusable ==
    {[Whole({shop, blog}) EXCEPT !.keys[blog] = Partial],
     [Whole({shop, Default}) EXCEPT !.hostnames[Default] = {blog}, !.patterns[Default] = {}]}

MCFolders == Plain \cup {Duplicate, Misnamed} \cup Unusable
=============================================================================
