---------------------------- MODULE MCDnsService ----------------------------
(* A host that can be resolved and one that cannot, one caller or two. *)
EXTENDS DnsService

CONSTANTS good, bad, a, b

MCHosts   == {good, bad}
MCOne     == {a}
MCTwo     == {a, b}
MCAnswers == {good}

=============================================================================
