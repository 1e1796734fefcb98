--------------------------- MODULE MCProxyServices ---------------------------
(* The registry and its readers on a small instance. *)
EXTENDS ProxyServices

CONSTANTS web, api, lo4, lo6, h1, c1, http1, tcp1

\* web is configured with a static address and, with https, a host name; api
\* only exists as a container label.
MCStaticOf == [s \in {web, api} |-> IF s = web THEN {lo4} ELSE {}]
MCHostService == [h \in {h1} |-> web]
MCLabelOf == [c \in {c1} |-> api]
MCAddressOf == [c \in {c1} |-> lo4]
MCServiceOf == [r \in {http1, tcp1} |-> web]
=============================================================================
