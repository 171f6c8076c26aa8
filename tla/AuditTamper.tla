----------------------------- MODULE AuditTamper -----------------------------
(***************************************************************************)
(* What verify_audit_log says of an org's log, as the tests of             *)
(* src/src/audit.rs and src/src/routes/audit.rs ask it: the rows that      *)
(* predate the chain are numbered by the upgrade, entries are appended     *)
(* honestly, and then the table is changed once behind the server's back.  *)
(* The verifier walks the first MAX_VERIFY_ROWS rows of the log.           *)
(***************************************************************************)
EXTENDS AuditLog, Backfill

CONSTANTS
  Body,        \* contents of an entry
  MaxLegacy,   \* bound on the rows that predate the chain, of all orgs
  MaxRows,     \* bound on the length of the log
  MAX_VERIFY_ROWS

ASSUME TamperAssumption == MaxLegacy \in Nat /\ MAX_VERIFY_ROWS \in Nat

Org == "org"       \* the org whose log is verified
Orgs == {Org, "other"}
Times == 1..2      \* bound on the times at which legacy rows were recorded

VARIABLES
  table,    \* the rows that predate the chain, of every org
  log,      \* the stored rows of the org, by ascending position
  honest,   \* the log as it was before it was changed behind the server
  change    \* the change made to the log: its kind, and the row it hit

tamperVars == <<table, log, honest, change>>

NoChange == [kind |-> "none", at |-> 0, row |-> NoTip]

\* ORDER BY seq ASC, over rows that are stored in no particular order.
BySeq(rows) ==
  CHOOSE s \in Bijection(1..Cardinality(rows), rows) :
    \A i, j \in DOMAIN s : i < j => s[i].seq <= s[j].seq

Init ==
  /\ \E n \in 0..MaxLegacy : table \in [1..n -> [org : Orgs, at : Times]]
  /\ log = BySeq({LegacyRow(LegacySeq(table, id), <<"legacy", id>>) : id \in RowsOf(table, Org)})
  /\ honest = log
  /\ change = NoChange

legacy == Cardinality(RowsOf(table, Org))

Tip == IF log = <<>> THEN NoTip ELSE log[Len(log)]

Append1(b) ==
  /\ change = NoChange
  /\ Len(log) < MaxRows
  /\ log' = Append(log, NextLink(Org, Tip, b))
  /\ honest' = log'
  /\ UNCHANGED <<table, change>>

ChainedAt == (legacy + 1)..Len(log)

Changed(kind, i) ==
  /\ change = NoChange
  /\ change' = [kind |-> kind, at |-> i, row |-> log[i]]
  /\ UNCHANGED <<table, honest>>

\* A recorded field is edited.
Edit(i, b) ==
  /\ b # log[i].body
  /\ Changed("edit", i)
  /\ log' = [log EXCEPT ![i].body = b]

\* A row is deleted.
Delete(i) ==
  /\ Changed("delete", i)
  /\ log' = SubSeq(log, 1, i - 1) \o SubSeq(log, i + 1, Len(log))

\* A row is re-pointed at a predecessor it never had, consistently.
Relink(i, prev) ==
  /\ prev # log[i].prev_hash
  /\ Changed("relink", i)
  /\ log' = [log EXCEPT ![i] = [@ EXCEPT !.prev_hash = prev,
                                         !.entry_hash = expected_hash(Org, log[i], prev)]]

\* Only the stored prev_hash of a row is changed.
EditPrev(i, prev) ==
  /\ prev # log[i].prev_hash
  /\ Changed("edit_prev", i)
  /\ log' = [log EXCEPT ![i].prev_hash = prev]

OtherHashes == {NoHash, entry_digest(Org, 0, "forged", NoHash)}

Tampering ==
  \E i \in ChainedAt :
    \/ \E b \in Body : Edit(i, b)
    \/ Delete(i)
    \/ \E h \in OtherHashes : Relink(i, h) \/ EditPrev(i, h)

Next == (\E b \in Body : Append1(b)) \/ Tampering

Spec == Init /\ [][Next]_tamperVars

-----------------------------------------------------------------------------
\* Mutation: the newest rows are read first, as for a page of the log.
WalkedNewest == SubSeq(log, Max({1, Len(log) - MAX_VERIFY_ROWS + 1}), Len(log))

\* ORDER BY seq ASC LIMIT MAX_VERIFY_ROWS.
Walked == SubSeq(log, 1, Min({Len(log), MAX_VERIFY_ROWS}))

Verdict == verify_chain(Org, Walked)

\* The chained rows among the walked ones.
WalkedAt == {i \in ChainedAt : i <= MAX_VERIFY_ROWS}

\* The upgrade keeps the history of every org: positions 1 to n, each once,
\* in the order the rows were recorded (HistoryKept of Backfill).
BackfillKeepsHistory == \A o \in Orgs : HistoryKept(table, o)

(***************************************************************************)
(* What "intact" is worth.  The report counts the chained rows it walked   *)
(* and names the hash of the last; it is intact for a log nobody touched,  *)
(* and whenever it is, every row it counted is as it was appended.  Of the *)
(* rows past the first MAX_VERIFY_ROWS it says nothing, and the count is   *)
(* all that tells.                                                         *)
(***************************************************************************)
IntactVouchesForPrefix ==
  /\ change = NoChange => Verdict.intact
  /\ Verdict.intact =>
       /\ Verdict.entries_checked = Cardinality(WalkedAt)
       /\ Verdict.head_hash =
            IF WalkedAt = {} THEN NoHash ELSE honest[Max(WalkedAt)].entry_hash
       /\ \A i \in WalkedAt : log[i].seq = honest[i].seq /\ log[i].body = honest[i].body

\* An edited row is reported as edited, at its own position, and everything
\* before it is vouched for.
EditDetected ==
  change.kind = "edit" /\ change.at <= MAX_VERIFY_ROWS =>
    /\ Verdict.problem = "hash_mismatch"
    /\ Verdict.first_bad_seq = change.row.seq
    /\ Verdict.entries_checked = change.at - legacy - 1

(***************************************************************************)
(* A deletion is reported where the row is missing.  The first chained row *)
(* has no predecessor to leave a gap after: its successor is left pointing *)
(* at nothing.  Losing the newest row cannot be seen, but the head moves.  *)
(***************************************************************************)
DeletionDetected ==
  change.kind = "delete" /\ change.at <= MAX_VERIFY_ROWS =>
    CASE change.at = Len(log) + 1 ->
           Verdict.intact /\ Verdict.head_hash # change.row.entry_hash
      [] change.at = legacy + 1 /\ change.at <= Len(log) ->
           Verdict.problem = "broken_link" /\ Verdict.first_bad_seq = change.row.seq + 1
      [] OTHER ->
           Verdict.problem = "sequence_gap" /\ Verdict.first_bad_seq = change.row.seq

\* A re-pointed row is a broken link at its position, not an edit.
RelinkDetected ==
  change.kind = "relink" /\ change.at <= MAX_VERIFY_ROWS =>
    Verdict.problem = "broken_link" /\ Verdict.first_bad_seq = change.row.seq

(***************************************************************************)
(* src/src/audit.rs:215: broken_link is "an entry's prev_hash does not     *)
(* match its predecessor's hash".                                          *)
(***************************************************************************)
WrongPrevHashDetected ==
  change.kind = "edit_prev" /\ change.at <= MAX_VERIFY_ROWS =>
    Verdict.problem = "broken_link"
=============================================================================
