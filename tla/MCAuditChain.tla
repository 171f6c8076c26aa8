----------------------------- MODULE MCAuditChain ----------------------------
(***************************************************************************)
(* Instances of AuditChain for TLC: org o1 has a row that predates the     *)
(* chain, org o2 has none.                                                 *)
(***************************************************************************)
EXTENDS AuditChain, TLC

CONSTANTS o1, o2, w1, w2, w3, e1, e2, e3, e4, old

MCLegacy == [o \in Org |-> IF o = o1 THEN 1 ELSE 0]

MCSymmetry == Permutations(Writer) \cup Permutations(Entry)
=============================================================================
