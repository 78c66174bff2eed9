---------------------------- MODULE MCDnsRecords -----------------------------
(* Instances of DnsRecords: one or two names, services in one cluster.      *)
EXTENDS DnsRecords, TLC

CONSTANTS TheIp

SameIp == [s \in Services |-> TheIp]

Interchangeable == Permutations(Requests)

=============================================================================
