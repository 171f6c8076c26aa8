------------------------------ MODULE AuditLog -------------------------------
(***************************************************************************)
(* The pure part of src/src/audit.rs: the digest of an entry, the link the *)
(* next entry makes, and the walk that decides whether a chain is intact.  *)
(*                                                                         *)
(* sha256 over the canonical preimage is taken to be injective, so a       *)
(* digest is the tuple of what it covers.  body stands for every field of  *)
(* the preimage other than the org, the position and the previous digest:  *)
(* time, action, subject, actor and detail.                                *)
(***************************************************************************)
EXTENDS Integers, Sequences, FiniteSets, FiniteSetsExt

NoHash == <<>>   \* the empty string: no predecessor, or never chained
NoSeq == -1      \* "no position": first_bad_seq of an intact chain

\* Mutation: the preimage leaves the contents out.
DigestWithoutBody(org, seq, body, prev) == <<org, seq, prev>>

entry_digest(org, seq, body, prev) == <<org, seq, body, prev>>

expected_hash(org, row, prev) == entry_digest(org, row.seq, row.body, prev)

\* The position before the first entry of an org.
NoTip == [seq |-> 0, entry_hash |-> NoHash]

\* The row append_chained inserts after reading the tip of the org's chain.
NextLink(org, tip, body) ==
  [seq |-> tip.seq + 1,
   body |-> body,
   prev_hash |-> tip.entry_hash,
   entry_hash |-> entry_digest(org, tip.seq + 1, body, tip.entry_hash)]

\* Rows that predate the chain, as migration 8 numbers them: no hash.
LegacyRow(i, body) ==
  [seq |-> i, body |-> body, prev_hash |-> NoHash, entry_hash |-> NoHash]

-----------------------------------------------------------------------------
(***************************************************************************)
(* The walk over rows that ascend by position.  Rows without a hash are    *)
(* passed over; of the others it keeps the stored hash and the position of *)
(* the last it passed, and it stops at the first that fails either test,   *)
(* the position first.                                                     *)
(***************************************************************************)
Chained(rows) == {i \in DOMAIN rows : rows[i].seq > 0 /\ rows[i].entry_hash # NoHash}

\* The rows the walk has passed when it comes to row i.
Passed(rows, i) == {j \in Chained(rows) : j < i}

\* prev_hash of the walk: the hash of the last row it passed.
RunningHash(rows, i) ==
  IF Passed(rows, i) = {} THEN NoHash ELSE rows[Max(Passed(rows, i))].entry_hash

\* The position the walk expects next; it takes the first row's for granted.
Expected(rows, i) ==
  IF Passed(rows, i) = {} THEN rows[i].seq ELSE rows[Max(Passed(rows, i))].seq + 1

\* Mutation: positions need only ascend.
GapAscending(rows, i) == rows[i].seq < Expected(rows, i)

Gap(rows, i) == rows[i].seq # Expected(rows, i)

\* Mutation: a row is checked against the predecessor it claims.
MismatchOwnLink(org, rows, i) ==
  expected_hash(org, rows[i], rows[i].prev_hash) # rows[i].entry_hash

Mismatch(org, rows, i) ==
  expected_hash(org, rows[i], RunningHash(rows, i)) # rows[i].entry_hash

Failing(org, rows) == {i \in Chained(rows) : Gap(rows, i) \/ Mismatch(org, rows, i)}

Problem(org, rows, i) ==
  IF Gap(rows, i) THEN "sequence_gap"
  ELSE IF expected_hash(org, rows[i], rows[i].prev_hash) = rows[i].entry_hash
       THEN "broken_link" ELSE "hash_mismatch"

\* The report of a walk that came to row i and stopped there as told.
Report(rows, i, bad, problem) ==
  [intact |-> problem = "none",
   entries_checked |-> Cardinality(Passed(rows, i)),
   first_bad_seq |-> bad,
   problem |-> problem,
   head_hash |-> RunningHash(rows, i)]

verify_chain(org, rows) ==
  IF Failing(org, rows) = {}
  THEN Report(rows, Len(rows) + 1, NoSeq, "none")
  ELSE LET i == Min(Failing(org, rows))
       IN Report(rows, i, IF Gap(rows, i) THEN Expected(rows, i) ELSE rows[i].seq,
                 Problem(org, rows, i))
=============================================================================
