--------------------------- MODULE MCHostedZones ----------------------------
(* HostedZones on small sets of model values.  sub is a child of apex; twin *)
(* is a name, unrelated to sub, that sanitizeDNSLabel maps to the same      *)
(* label.                                                                   *)
EXTENDS HostedZones, TLC

CONSTANTS apex, sub, twin

MCNested == {<<apex, sub>>} \cap (Names \X Names)

MCLabel == [n \in Names |-> IF n = apex THEN "apex" ELSE "sub"]

Symmetry ==
  Permutations(Requests) \cup Permutations(Ids) \cup Permutations(Users)

=============================================================================
