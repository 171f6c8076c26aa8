------------------------------ MODULE MCPublish ------------------------------
(***************************************************************************)
(* Instances of Publish for TLC.  t1 is scoped to the org as publisher, t2 *)
(* as reader, t3 to another org, t4 is an admin token.                     *)
(***************************************************************************)
EXTENDS Publish, TLC

CONSTANTS c1, c2, c3, p1, p2, o1, o2, o3, t1, t2, t3, t4, m1, m2, r1, r2, r3

MCSize == [c \in Content |-> IF c = c3 THEN 2 ELSE 1]
MCOrgOf == [p \in Package |-> IF p = p2 THEN o3 ELSE o1]
MCScope == [t \in Token |-> CASE t = t3 -> o2 [] t = t4 -> None [] OTHER -> o1]
MCRoleOf == [t \in Token |-> IF t = t2 THEN "reader" ELSE "publisher"]

MCSymmetry == Permutations(Request) \cup Permutations(Content \ {c3}) \cup Permutations(Meta)
=============================================================================
