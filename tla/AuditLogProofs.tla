--------------------------- MODULE AuditLogProofs ----------------------------
(***************************************************************************)
(* Lemmas about the walk of verify_chain, for rows of any number: what it  *)
(* has passed, and what it expects, at each row of a log whose first rows  *)
(* are unhashed and whose other rows are hashed, tampered with or not.     *)
(***************************************************************************)
EXTENDS AuditLog, FiniteLemmas

\* Rows of a log of n, of which the first l have no hash.
Layout(rows, l, n) ==
  /\ n \in Nat /\ l \in 0..n /\ DOMAIN rows = 1..n
  /\ \A i \in 1..l : rows[i].entry_hash = NoHash
  /\ \A i \in (l + 1)..n : rows[i].seq \in Nat \ {0} /\ rows[i].entry_hash # NoHash

\* A digest is never the empty string, and no two contents share one.
LEMMA Digests ==
  ASSUME NEW o, NEW s, NEW b, NEW h, NEW s2, NEW b2, NEW h2
  PROVE  /\ entry_digest(o, s, b, h) # NoHash
         /\ entry_digest(o, s, b, h) = entry_digest(o, s2, b2, h2) <=>
              s = s2 /\ b = b2 /\ h = h2
BY DEF entry_digest, NoHash

\* What a link says of its digest.
LEMMA LinkDigest ==
  ASSUME NEW o, NEW t, NEW b
  PROVE  /\ NextLink(o, t, b).seq = t.seq + 1
         /\ NextLink(o, t, b).body = b
         /\ NextLink(o, t, b).prev_hash = t.entry_hash
         /\ NextLink(o, t, b).entry_hash = entry_digest(o, t.seq + 1, b, t.entry_hash)
BY DEF NextLink

\* The greatest of some consecutive numbers.
LEMMA MaxOfInterval ==
  ASSUME NEW a \in Int, NEW b \in Int, a <= b
  PROVE  Max(a..b) = b
<1>1. b \in a..b /\ \A x \in a..b : b >= x
  OBVIOUS
<1>2. Max(a..b) \in a..b /\ \A x \in a..b : Max(a..b) >= x
  BY <1>1 DEF Max
<1>3. Max(a..b) >= b /\ b >= Max(a..b) /\ Max(a..b) \in Int
  BY <1>1, <1>2
<1> QED BY <1>3

\* The lowest of some numbers, when it is known.
LEMMA MinKnown ==
  ASSUME NEW S \in SUBSET Int, NEW m \in S, \A x \in S : m <= x
  PROVE  Min(S) = m
<1>1. Min(S) \in S /\ \A x \in S : Min(S) <= x
  BY DEF Min
<1>2. Min(S) <= m /\ m <= Min(S) /\ Min(S) \in Int /\ m \in Int
  BY <1>1
<1> QED BY <1>2

\* What the walk has passed when it comes to row i, and what it expects.
LEMMA WalkAt ==
  ASSUME NEW rows, NEW l, NEW n, Layout(rows, l, n), NEW i \in (l + 1)..(n + 1)
  PROVE  /\ Chained(rows) = (l + 1)..n
         /\ Passed(rows, i) = (l + 1)..(i - 1)
         /\ Cardinality(Passed(rows, i)) = i - l - 1
         /\ i = l + 1 => /\ RunningHash(rows, i) = NoHash
                         /\ Expected(rows, i) = rows[i].seq
         /\ i # l + 1 => /\ RunningHash(rows, i) = rows[i - 1].entry_hash
                         /\ Expected(rows, i) = rows[i - 1].seq + 1
<1>1. n \in Nat /\ l \in 0..n /\ i \in Int
  BY DEF Layout
<1>2. Chained(rows) = (l + 1)..n
  <2>1. ASSUME NEW j \in 1..n PROVE j \in Chained(rows) <=> j \in (l + 1)..n
    <3>1. CASE j \in 1..l
      BY <1>1, <3>1 DEF Layout, Chained
    <3>2. CASE j \in (l + 1)..n
      <4>1. rows[j].seq > 0 /\ rows[j].entry_hash # NoHash /\ j \in DOMAIN rows
        BY <3>2 DEF Layout
      <4> QED BY <3>2, <4>1 DEF Chained
    <3> QED BY <1>1, <2>1, <3>1, <3>2
  <2>2. Chained(rows) \subseteq 1..n
    BY DEF Layout, Chained
  <2>3. (l + 1)..n \subseteq 1..n
    BY <1>1
  <2> QED BY <2>1, <2>2, <2>3
<1>3. Passed(rows, i) = (l + 1)..(i - 1)
  BY <1>1, <1>2 DEF Passed
<1>4. Cardinality(Passed(rows, i)) = i - l - 1
  <2>1. Cardinality((l + 1)..(i - 1)) =
          IF l + 1 > i - 1 THEN 0 ELSE (i - 1) - (l + 1) + 1
    BY <1>1, FS_Interval
  <2> QED BY <1>1, <1>3, <2>1
<1>5. CASE i = l + 1
  <2>1. Passed(rows, i) = {}
    BY <1>1, <1>3, <1>5
  <2> QED BY <1>2, <1>3, <1>4, <1>5, <2>1 DEF RunningHash, Expected
<1>6. CASE i # l + 1
  <2>1. l + 1 <= i - 1 /\ l + 1 \in Int /\ i - 1 \in Int
    BY <1>1, <1>6
  <2>2. Max((l + 1)..(i - 1)) = i - 1 /\ (l + 1)..(i - 1) # {}
    BY <2>1, MaxOfInterval
  <2> QED BY <1>2, <1>3, <1>4, <1>6, <2>2 DEF RunningHash, Expected
<1> QED BY <1>5, <1>6

\* A row that is the link after the row before it passes.
LEMMA LinkPasses ==
  ASSUME NEW org, NEW rows, NEW l, NEW n, Layout(rows, l, n), NEW i \in (l + 1)..n,
         rows[i].seq = i, i # l + 1 => rows[i - 1].seq = i - 1,
         rows[i].entry_hash = expected_hash(org, rows[i],
           IF i = l + 1 THEN NoHash ELSE rows[i - 1].entry_hash)
  PROVE  i \notin Failing(org, rows)
<1>1. i \in (l + 1)..(n + 1) /\ i - 1 + 1 = i
  BY DEF Layout
<1>2. ~Gap(rows, i)
  BY <1>1, WalkAt DEF Gap
<1>3. ~Mismatch(org, rows, i)
  BY <1>1, WalkAt DEF Mismatch
<1> QED BY <1>2, <1>3 DEF Failing

\* The report of a log no row of which fails.
LEMMA WalkPasses ==
  ASSUME NEW org, NEW rows, NEW l, NEW n, Layout(rows, l, n), n = Len(rows),
         Failing(org, rows) = {}
  PROVE  LET report == verify_chain(org, rows)
         IN  /\ report.intact /\ report.problem = "none"
             /\ report.entries_checked = n - l
             /\ report.head_hash = IF n = l THEN NoHash ELSE rows[n].entry_hash
<1>1. n + 1 \in (l + 1)..(n + 1) /\ (n + 1) - l - 1 = n - l /\ (n + 1) - 1 = n
      /\ (n + 1 = l + 1 <=> n = l)
  BY DEF Layout
<1>2. /\ Cardinality(Passed(rows, n + 1)) = n - l
      /\ RunningHash(rows, n + 1) = IF n = l THEN NoHash ELSE rows[n].entry_hash
  BY <1>1, WalkAt
<1> QED BY <1>2 DEF verify_chain, Report

\* The report of a log whose first failing row is i.
LEMMA WalkStops ==
  ASSUME NEW org, NEW rows, NEW l, NEW n, Layout(rows, l, n), n = Len(rows),
         NEW i \in (l + 1)..n, i \in Failing(org, rows),
         \A j \in (l + 1)..n : j < i => j \notin Failing(org, rows)
  PROVE  LET report == verify_chain(org, rows)
         IN  /\ ~report.intact
             /\ report.problem = Problem(org, rows, i)
             /\ report.first_bad_seq = IF Gap(rows, i) THEN Expected(rows, i) ELSE rows[i].seq
             /\ report.entries_checked = i - l - 1
<1>1. i \in (l + 1)..(n + 1) /\ i \in Int
  BY DEF Layout
<1>2. Failing(org, rows) \subseteq (l + 1)..n
  <2>1. Chained(rows) = (l + 1)..n
    BY <1>1, WalkAt
  <2> QED BY <2>1 DEF Failing
<1>3. Failing(org, rows) \in SUBSET Int /\ \A j \in Failing(org, rows) : i <= j
  BY <1>1, <1>2
<1>4. Min(Failing(org, rows)) = i
  BY <1>3, MinKnown
<1>5. Cardinality(Passed(rows, i)) = i - l - 1
  BY <1>1, WalkAt
<1>6. Problem(org, rows, i) # "none"
  BY DEF Problem
<1> QED BY <1>4, <1>5, <1>6 DEF verify_chain, Report
=============================================================================
