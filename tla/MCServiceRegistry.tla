-------------------------- MODULE MCServiceRegistry --------------------------
(* The registry alone, on a small instance. *)
EXTENDS ServiceRegistry

CONSTANTS web, api, a1, lo4, lo6, h1, c1

\* web is configured with a static address and a host name; api only exists as
\* a container label.
MCStaticOf == [s \in {web, api} |-> IF s = web THEN {a1} ELSE {}]
MCHostService == [h \in {h1} |-> web]
MCLabelOf == [c \in {c1} |-> api]
MCAddressOf == [c \in {c1} |-> a1]
=============================================================================
