------------------------------ MODULE MCCatalog ------------------------------
(***************************************************************************)
(* An instance of Catalog: t1 may publish to the home org and may expire,  *)
(* t2 has the same name and is minted for an org that does not exist yet.  *)
(***************************************************************************)
EXTENDS Catalog, TLC

CONSTANTS home, away, t1, t2, op_row, ci, insecure, pkg, archive

MCName == [t \in {t1, t2, op_row} |-> IF t = op_row THEN insecure ELSE ci]
MCScope == [t \in {t1, t2, op_row} |-> CASE t = op_row -> None [] t = t1 -> home [] OTHER -> away]
MCRole == [t \in {t1, t2, op_row} |-> IF t = op_row THEN "admin" ELSE "publisher"]

MCReleased == {<<pkg, 1>>, <<pkg, 2>>}
MCYankable == {<<pkg, 2>>}
MCArtifactOf == [pv \in MCReleased |-> archive]

MCSymmetry == Permutations(Actor)

\* Of an actor that failed, or was dropped, without an update, nothing is read
\* again but that it ended: no property speaks of it, and no step looks at it
\* (except that a row is minted once).  States that differ in it are one.
Forgotten(a) == pc[a] \in {"error", "dropped"} /\ a \notin updated /\ call[a].op # "create"

MCView ==
  <<orgs, tokens, pc, registryVars, yankVars,
    [a \in Actor |-> IF Forgotten(a) THEN None
                     ELSE <<call[a], by[a], matched[a], left[a], rows[a], items[a]>>]>>
=============================================================================
