------------------------------ MODULE Backfill -------------------------------
(***************************************************************************)
(* Migration 8 gives the audit rows that predate the chain their positions *)
(* with one UPDATE: a row's position is the number of rows of its org that *)
(* were recorded no later than it.  The unique (org_id, seq) index is      *)
(* created right after, in the same transaction, and appends go on from    *)
(* the last position.                                                      *)
(*                                                                         *)
(* table[id] is a row that predates the chain: its org and its time.  Ids  *)
(* and times are numbers, which is all the statement uses of them.         *)
(***************************************************************************)
EXTENDS Integers, FiniteSets

\* Mutation: ties on the time are not broken.
NotAfterByTime(table, a, b) == table[a].at <= table[b].at

\* Row a was recorded no later than row b.
NotAfter(table, a, b) ==
  \/ table[a].at < table[b].at
  \/ table[a].at = table[b].at /\ a <= b

RowsOf(table, org) == {id \in DOMAIN table : table[id].org = org}

Earlier(table, id) == {a \in RowsOf(table, table[id].org) : NotAfter(table, a, id)}

LegacySeq(table, id) == Cardinality(Earlier(table, id))

(***************************************************************************)
(* The upgrade keeps an org's history: its rows take the positions         *)
(* 1, 2, ..., n, each of them once (so the index can be created), in the   *)
(* order they were recorded.                                               *)
(***************************************************************************)
HistoryKept(table, org) ==
  LET rows == RowsOf(table, org)
  IN /\ {LegacySeq(table, id) : id \in rows} = 1..Cardinality(rows)
     /\ \A a, b \in rows :
          /\ LegacySeq(table, a) = LegacySeq(table, b) => a = b
          /\ table[a].at < table[b].at => LegacySeq(table, a) < LegacySeq(table, b)
=============================================================================
