-------------------------- MODULE AuditReadProofs ---------------------------
(***************************************************************************)
(* What the audit routes promise, for any number of rows, legacy or        *)
(* chained, any contents, any limits: the upgrade keeps every org's        *)
(* history, the verifier's verdict is what it is said to be, and a client  *)
(* that reads backwards misses nothing and sees nothing twice.             *)
(***************************************************************************)
EXTENDS AuditRead, AuditLogProofs, SequenceTheorems

(***************************************************************************)
(* The upgrade numbers the rows of an org.                                 *)
(***************************************************************************)
\* What a table of pre-chain rows is: ids and times are numbers.
Table(t) ==
  /\ IsFiniteSet(DOMAIN t) /\ DOMAIN t \subseteq Nat
  /\ \A id \in DOMAIN t : t[id].at \in Nat

\* The rows no later than a row are a finite set that holds the row itself.
LEMMA EarlierFinite ==
  ASSUME NEW t, Table(t), NEW id \in DOMAIN t
  PROVE  /\ IsFiniteSet(Earlier(t, id)) /\ id \in Earlier(t, id)
         /\ LegacySeq(t, id) \in Nat \ {0}
<1>1. Earlier(t, id) \subseteq DOMAIN t
  BY DEF Earlier, RowsOf
<1>2. IsFiniteSet(Earlier(t, id))
  BY <1>1, FS_Subset DEF Table
<1>3. id \in Earlier(t, id)
  BY DEF Earlier, RowsOf, NotAfter, Table
<1>4. LegacySeq(t, id) \in Nat /\ LegacySeq(t, id) # 0
  BY <1>2, <1>3, FS_CardinalityType, FS_EmptySet DEF LegacySeq
<1> QED
  BY <1>2, <1>3, <1>4

\* Of two rows of an org, the one recorded no later has the lower position.
LEMMA SeqFollowsOrder ==
  ASSUME NEW t, Table(t), NEW a \in DOMAIN t, NEW b \in DOMAIN t,
         t[a].org = t[b].org, NotAfter(t, a, b), a # b
  PROVE  LegacySeq(t, a) < LegacySeq(t, b)
<1>1. Earlier(t, a) \subseteq Earlier(t, b)
  BY DEF Earlier, RowsOf, NotAfter, Table
<1>2. b \notin Earlier(t, a)
  BY DEF Earlier, NotAfter, Table
<1>3. b \in Earlier(t, b) /\ IsFiniteSet(Earlier(t, b))
  BY EarlierFinite
<1>4. Cardinality(Earlier(t, a)) < Cardinality(Earlier(t, b))
  BY <1>1, <1>2, <1>3, FS_Subset, FS_CardinalityType, EarlierFinite DEF LegacySeq
<1> QED
  BY <1>4 DEF LegacySeq

\* A position is at most the number of the org's rows.
LEMMA SeqBounded ==
  ASSUME NEW t, Table(t), NEW id \in DOMAIN t
  PROVE  LegacySeq(t, id) \in 1..Cardinality(RowsOf(t, t[id].org))
<1> DEFINE rows == RowsOf(t, t[id].org)
<1>1. rows \subseteq DOMAIN t /\ IsFiniteSet(rows)
  BY FS_Subset DEF RowsOf, Table
<1>2. Earlier(t, id) \subseteq rows
  BY DEF Earlier
<1>3. Cardinality(Earlier(t, id)) <= Cardinality(rows)
  BY <1>1, <1>2, FS_Subset
<1> QED
  BY <1>1, <1>3, EarlierFinite, FS_CardinalityType DEF LegacySeq

(***************************************************************************)
(* The positions of an org's rows are 1, ..., n, each of them once, in the *)
(* order the rows were recorded: the unique index can be created.          *)
(***************************************************************************)
THEOREM NumberingKeepsHistory ==
  ASSUME NEW t, Table(t), NEW org
  PROVE  HistoryKept(t, org)
<1> DEFINE rows == RowsOf(t, org)
           n == Cardinality(rows)
           seqs == {LegacySeq(t, id) : id \in rows}
           f == [id \in rows |-> LegacySeq(t, id)]
<1>1. rows \subseteq DOMAIN t /\ IsFiniteSet(rows) /\ n \in Nat
  BY FS_Subset, FS_CardinalityType DEF RowsOf, Table
<1>2. ASSUME NEW a \in rows, NEW b \in rows, t[a].at < t[b].at
      PROVE  LegacySeq(t, a) < LegacySeq(t, b)
  BY <1>1, <1>2, SeqFollowsOrder DEF RowsOf, NotAfter, Table
<1>3. ASSUME NEW a \in rows, NEW b \in rows, LegacySeq(t, a) = LegacySeq(t, b)
      PROVE  a = b
  <2>1. NotAfter(t, a, b) \/ NotAfter(t, b, a)
    BY <1>1 DEF NotAfter, Table
  <2>2. t[a].org = t[b].org
    BY DEF RowsOf
  <2>3. LegacySeq(t, a) \in Nat /\ LegacySeq(t, b) \in Nat
    BY <1>1, EarlierFinite
  <2> QED
    BY <1>1, <1>3, <2>1, <2>2, <2>3, SeqFollowsOrder
<1>4. seqs \subseteq 1..n
  BY <1>1, SeqBounded DEF RowsOf
<1>5. f \in Bijection(rows, seqs)
  BY <1>3 DEF Bijection, Injection, Surjection, IsInjective
<1> HIDE DEF rows, n, seqs, f
<1>6. Cardinality(seqs) = n /\ IsFiniteSet(seqs)
  BY <1>1, <1>5, FS_Bijection DEF n, ExistsBijection
<1>7. IsFiniteSet(1..n) /\ Cardinality(1..n) = n
  BY <1>1, FS_Interval
<1>8. seqs = 1..n
  BY <1>4, <1>6, <1>7, FS_Subset
<1> QED
  BY <1>2, <1>3, <1>8 DEF HistoryKept, rows, n, seqs

\* The table the upgrade starts from is one.
LEMMA InitTable == Init => Table(table)
<1> SUFFICES ASSUME Init PROVE Table(table)
  OBVIOUS
<1>1. PICK n \in 0..MaxLegacy : table \in [1..n -> [org : Orgs, at : Times]]
  BY DEF Init
<1>2. n \in Nat /\ DOMAIN table = 1..n
  BY <1>1, TamperAssumption
<1>3. IsFiniteSet(1..n)
  BY <1>2, FS_Interval
<1>4. \A id \in DOMAIN table : table[id].at \in Nat
  BY <1>1 DEF Times
<1> QED
  BY <1>2, <1>3, <1>4 DEF Table

\* Nothing renumbers the rows later.
LEMMA TableStays == [Next]_tamperVars => UNCHANGED table
BY DEF Next, tamperVars, Append1, Tampering, Changed, Edit, Delete, Relink, EditPrev

\* The table is one in every reachable state.
LEMMA TableCorrect == Spec => []Table(table)
<1>1. Table(table) /\ [Next]_tamperVars => Table(table)'
  BY TableStays DEF Table
<1> QED
  BY <1>1, InitTable, PTL DEF Spec

(***************************************************************************)
(* History is kept whatever is appended and changed after the upgrade.     *)
(***************************************************************************)
THEOREM HistoryStaysKept == Spec => []BackfillKeepsHistory
<1>1. Table(table) => BackfillKeepsHistory
  BY NumberingKeepsHistory DEF BackfillKeepsHistory
<1> QED
  BY <1>1, TableCorrect, PTL

\* Reading a log changes nothing in it: what holds of every log that is
\* appended to and changed holds while it is read.
THEOREM ReadingIsPassive == ReadSpec => Spec
<1>1. ReadInit => Init
  BY DEF ReadInit
<1>2. [ReadNext]_<<tamperVars, readVars>> => [Next]_tamperVars
  BY DEF ReadNext, StartReading, ReadOn, StopReading, Next
<1> QED BY <1>1, <1>2, PTL DEF ReadSpec, Spec

-----------------------------------------------------------------------------
(***************************************************************************)
(* The log.  HonestLog describes the log as it was appended, after the     *)
(* rows that predate the chain: position i is held by row i, a legacy row  *)
(* has no hash, and any other row digests what it says and the hash of the *)
(* row before it.  Altered says what one change behind the server's back   *)
(* made of it.                                                             *)
(***************************************************************************)
RowsIn(s) == {s[i] : i \in DOMAIN s}

IsLog(s) == s \in Seq(RowsIn(s))

\* The hash a row is linked to.
Previous(i) == IF i = legacy + 1 THEN NoHash ELSE honest[i - 1].entry_hash

Link(i, body, prev) ==
  [seq |-> i, body |-> body, prev_hash |-> prev,
   entry_hash |-> entry_digest(Org, i, body, prev)]

HonestLog ==
  /\ IsLog(honest) /\ legacy \in 0..Len(honest)
  /\ \A i \in 1..legacy : honest[i].seq = i /\ honest[i].entry_hash = NoHash
  /\ \A i \in (legacy + 1)..Len(honest) : honest[i] = Link(i, honest[i].body, Previous(i))

\* The log but for the row at a.
SameBut(a) ==
  /\ Len(log) = Len(honest)
  /\ \A i \in 1..Len(honest) : i # a => log[i] = honest[i]
  /\ log[a].seq = a

Altered ==
  LET a == change.at
  IN /\ IsLog(log)
     /\ \/ change = NoChange /\ log = honest
        \/ /\ a \in (legacy + 1)..Len(honest)
           /\ change.row = honest[a]
           /\ \/ /\ change.kind = "edit" /\ SameBut(a)
                 /\ log[a].body # honest[a].body
                 /\ log[a].prev_hash = honest[a].prev_hash
                 /\ log[a].entry_hash = honest[a].entry_hash
              \/ /\ change.kind = "delete"
                 /\ Len(log) = Len(honest) - 1
                 /\ \A i \in 1..(a - 1) : log[i] = honest[i]
                 /\ \A i \in a..Len(log) : log[i] = honest[i + 1]
              \/ /\ change.kind = "relink" /\ SameBut(a)
                 /\ log[a].body = honest[a].body
                 /\ log[a].prev_hash # honest[a].prev_hash
                 /\ log[a].entry_hash = expected_hash(Org, log[a], log[a].prev_hash)
              \/ /\ change.kind = "edit_prev" /\ SameBut(a)
                 /\ log[a].body = honest[a].body
                 /\ log[a].entry_hash = honest[a].entry_hash

TamperInv == HonestLog /\ Altered

\* A function on an initial segment of the naturals is a log.
LEMMA FunctionIsLog ==
  ASSUME NEW n \in Nat, NEW f, f = [i \in 1..n |-> f[i]]
  PROVE  IsLog(f) /\ Len(f) = n /\ DOMAIN f = 1..n
<1>1. f \in [1..n -> RowsIn(f)]
  BY DEF RowsIn
<1> QED BY <1>1 DEF IsLog

\* What a log is.
LEMMA LogIsFunction ==
  ASSUME NEW s, IsLog(s)
  PROVE  Len(s) \in Nat /\ DOMAIN s = 1..Len(s) /\ s = [i \in 1..Len(s) |-> s[i]]
BY DEF IsLog

\* Sorting rows that hold the positions 1, ..., n puts row i at i.
LEMMA SortedByPosition ==
  ASSUME NEW rows, NEW n \in Nat, IsFiniteSet(rows), Cardinality(rows) = n,
         {row.seq : row \in rows} = 1..n
  PROVE  /\ BySeq(rows) = [i \in 1..n |-> BySeq(rows)[i]]
         /\ \A i \in 1..n : BySeq(rows)[i] \in rows /\ BySeq(rows)[i].seq = i
<1> DEFINE Sorted(s) == s \in Bijection(1..n, rows) /\
                        \A i, j \in DOMAIN s : i < j => s[i].seq <= s[j].seq
           numbered == [row \in rows |-> row.seq]
<1>1. IsFiniteSet(1..n) /\ Cardinality(1..n) = n
  BY FS_Interval
<1>2. \A r, q \in rows : r.seq = q.seq => r = q
  <2>1. numbered \in Surjection(rows, 1..n)
    BY DEF Surjection
  <2>2. numbered \in Injection(rows, 1..n)
    BY <1>1, <2>1, FS_SurjSameCardinalityImpliesInj
  <2> QED BY <2>2 DEF Injection, IsInjective
<1>3. \E s : Sorted(s)
  <2> DEFINE s == [i \in 1..n |-> CHOOSE row \in rows : row.seq = i]
  <2>1. ASSUME NEW i \in 1..n PROVE s[i] \in rows /\ s[i].seq = i
    OBVIOUS
  <2>2. s \in [1..n -> rows]
    BY <2>1
  <2>3. \A row \in rows : row.seq \in 1..n /\ s[row.seq] = row
    BY <1>2, <2>1
  <2> HIDE DEF s
  <2>4. s \in Bijection(1..n, rows)
    BY <2>1, <2>2, <2>3 DEF Bijection, Injection, Surjection, IsInjective
  <2> QED BY <2>1, <2>2, <2>4
<1>4. BySeq(rows) = CHOOSE s : Sorted(s)
  BY DEF BySeq
<1> DEFINE t == BySeq(rows)
<1> HIDE DEF Sorted
<1>5. Sorted(t)
  BY <1>3, <1>4
<1>6. /\ t \in [1..n -> rows]
      /\ \A i, j \in 1..n : i < j => t[i].seq <= t[j].seq
      /\ \A i, j \in 1..n : t[i] = t[j] => i = j
      /\ \A row \in rows : \E i \in 1..n : t[i] = row
  <2>1. t \in Bijection(1..n, rows) /\ DOMAIN t = 1..n
    BY <1>5 DEF Sorted, Bijection, Injection
  <2> QED BY <1>5, <2>1 DEF Sorted, Bijection, Injection, Surjection, IsInjective
<1> HIDE DEF t
<1>7. \A i \in 1..n : t[i] \in rows /\ t[i].seq \in 1..n
  BY <1>6
<1>8. ASSUME NEW i \in 1..n, NEW j \in 1..n, i < j PROVE t[i].seq < t[j].seq
  <2>1. t[i].seq <= t[j].seq /\ t[i] # t[j]
    BY <1>6, <1>8
  <2>2. t[i].seq # t[j].seq
    BY <1>2, <1>7, <2>1
  <2> QED BY <1>7, <2>1, <2>2
<1>9. \A i \in 1..n : t[i].seq = i
  <2> DEFINE Odd == {i \in 1..n : t[i].seq # i}
  <2> SUFFICES ASSUME Odd # {} PROVE FALSE
    OBVIOUS
  <2>1. Odd \subseteq Nat
    OBVIOUS
  <2>2. PICK i \in Odd : \A j \in Odd : i <= j
    BY <2>1, LeastNatural
  <2>3. i \in 1..n /\ t[i].seq # i /\ t[i].seq \in 1..n
    BY <1>7
  <2>4. \A j \in 1..n : j < i => t[j].seq = j
    BY <2>2, <2>3
  <2>5. ~(t[i].seq < i)
    BY <1>8, <2>3, <2>4
  <2>6. PICK row \in rows : row.seq = i
    BY <2>3
  <2>7. PICK j \in 1..n : t[j] = row
    BY <1>6
  <2>8. t[j].seq = i /\ j # i
    BY <2>3, <2>6, <2>7
  <2>9. ~(j < i)
    BY <2>4, <2>8
  <2>10. ~(i < j)
    <3>1. SUFFICES ASSUME i < j PROVE FALSE
      OBVIOUS
    <3>2. t[i].seq < t[j].seq
      BY <1>8, <2>3, <3>1
    <3> QED BY <2>3, <2>5, <2>8, <3>2
  <2> QED BY <2>3, <2>8, <2>9, <2>10
<1>10. t = [i \in 1..n |-> t[i]]
  BY <1>6
<1> QED BY <1>7, <1>9, <1>10 DEF t

\* The upgraded log, before anything is appended to it.
LEMMA HonestStart == Init => TamperInv
<1> SUFFICES ASSUME Init PROVE TamperInv
  OBVIOUS
<1> DEFINE ids == RowsOf(table, Org)
           row(id) == LegacyRow(LegacySeq(table, id), <<"legacy", id>>)
           rows == {row(id) : id \in ids}
           number == [id \in ids |-> row(id)]
<1>1. Table(table) /\ HistoryKept(table, Org)
  BY InitTable, NumberingKeepsHistory
<1>2. ids \subseteq DOMAIN table /\ IsFiniteSet(ids) /\ legacy \in Nat
  BY <1>1, FS_Subset, FS_CardinalityType DEF RowsOf, Table, legacy
<1>3. ASSUME NEW id \in ids
      PROVE  row(id).seq = LegacySeq(table, id) /\ row(id).entry_hash = NoHash
             /\ row(id).body = <<"legacy", id>>
  BY DEF LegacyRow
<1>4. number \in Bijection(ids, rows)
  <2>1. \A a, b \in ids : row(a) = row(b) => a = b
    BY <1>1, <1>3 DEF HistoryKept
  <2> HIDE DEF row
  <2> QED BY <2>1 DEF Bijection, Injection, Surjection, IsInjective
<1>5. IsFiniteSet(rows) /\ Cardinality(rows) = legacy
  BY <1>2, <1>4, FS_Bijection DEF legacy, ExistsBijection
<1>6. {r.seq : r \in rows} = 1..legacy
  <2>1. {r.seq : r \in rows} = {LegacySeq(table, id) : id \in ids}
    BY <1>3
  <2> QED BY <1>1, <2>1 DEF HistoryKept, legacy
<1>7. log = BySeq(rows) /\ honest = log /\ change = NoChange
  BY DEF Init
<1>8. /\ log = [i \in 1..legacy |-> log[i]]
      /\ \A i \in 1..legacy : log[i] \in rows /\ log[i].seq = i
  <2> HIDE DEF rows
  <2>1. legacy \in Nat
    BY <1>2
  <2>2. /\ BySeq(rows) = [i \in 1..legacy |-> BySeq(rows)[i]]
        /\ \A i \in 1..legacy : BySeq(rows)[i] \in rows /\ BySeq(rows)[i].seq = i
    BY <1>5, <1>6, <2>1, SortedByPosition
  <2> QED BY <1>7, <2>2
<1>9. IsLog(log) /\ Len(log) = legacy /\ DOMAIN log = 1..legacy
  BY <1>2, <1>8, FunctionIsLog
<1>10. ASSUME NEW i \in 1..legacy PROVE log[i].entry_hash = NoHash
  <2>1. PICK id \in ids : log[i] = row(id)
    BY <1>8
  <2> QED BY <1>3, <2>1
<1> HIDE DEF row, rows, number, ids
<1> QED BY <1>2, <1>7, <1>8, <1>9, <1>10 DEF TamperInv, HonestLog, Altered

-----------------------------------------------------------------------------
\* Two sequences, one after the other.
LEMMA Joined ==
  ASSUME NEW S, NEW a \in Seq(S), NEW b \in Seq(S), NEW k \in Nat, NEW m \in Nat,
         Len(a) = k, Len(b) = m - k
  PROVE  /\ a \o b \in Seq(S) /\ Len(a \o b) = m
         /\ \A j \in 1..k : (a \o b)[j] = a[j]
         /\ \A j \in (k + 1)..m : (a \o b)[j] = b[j - k]
<1>1. a \o b \in Seq(S)
  OBVIOUS
<1>2. Len(a \o b) = Len(a) + Len(b) /\ m - k \in Nat /\ k + (m - k) = m
  OBVIOUS
<1>3. ASSUME NEW j \in 1..m
      PROVE  (a \o b)[j] = IF j <= k THEN a[j] ELSE b[j - k]
  <2>1. j \in 1..(Len(a) + Len(b))
    BY <1>2
  <2>2. (a \o b)[j] = IF j <= Len(a) THEN a[j] ELSE b[j - Len(a)]
    BY <2>1, ConcatProperties
  <2> QED BY <2>2
<1>4. \A j \in 1..k : j \in 1..m /\ j <= k
  BY <1>2
<1>5. \A j \in (k + 1)..m : j \in 1..m /\ ~(j <= k)
  OBVIOUS
<1> QED BY <1>1, <1>2, <1>3, <1>4, <1>5

\* What HonestLog says of a chained row, field by field.
LEMMA HonestRow ==
  ASSUME HonestLog, NEW i \in (legacy + 1)..Len(honest)
  PROVE  /\ honest[i].seq = i /\ i \in Nat \ {0}
         /\ honest[i].prev_hash = Previous(i)
         /\ honest[i].entry_hash = entry_digest(Org, i, honest[i].body, Previous(i))
         /\ honest[i].entry_hash # NoHash
<1>1. honest[i] = Link(i, honest[i].body, Previous(i)) /\ i \in Nat \ {0}
  BY DEF HonestLog
<1>2. honest[i].entry_hash = entry_digest(Org, i, honest[i].body, Previous(i))
      /\ honest[i].seq = i /\ honest[i].prev_hash = Previous(i)
  BY <1>1 DEF Link
<1> QED BY <1>1, <1>2, Digests

\* Until it is changed, the log is the honest one.
LEMMA NotYetAltered ==
  ASSUME Altered, change = NoChange
  PROVE  log = honest
<1>1. change.kind = "none"
  BY DEF NoChange
<1> QED BY <1>1 DEF Altered

\* Appending goes on from the last row.
LEMMA AppendKeepsHonest ==
  ASSUME TamperInv, NEW b, Append1(b)
  PROVE  TamperInv'
<1> DEFINE n == Len(honest)
           new == NextLink(Org, Tip, b)
<1>1. change = NoChange /\ log = honest /\ UNCHANGED <<table, change>>
  BY NotYetAltered DEF Append1, TamperInv
<1>2. log' = Append(honest, new) /\ honest' = log'
  BY <1>1 DEF Append1
<1>3. n \in Nat /\ DOMAIN honest = 1..n /\ legacy \in 0..n /\ honest \in Seq(RowsIn(honest))
  BY LogIsFunction DEF TamperInv, HonestLog, IsLog
<1>4. new = Link(n + 1, b, IF n = legacy THEN NoHash ELSE honest[n].entry_hash)
  <2>1. CASE n = 0
    <3>1. log = <<>>
      BY <1>1, <1>3, <2>1
    <3> QED BY <1>3, <2>1, <3>1 DEF Tip, NextLink, Link, NoTip
  <2>2. CASE n # 0
    <3>1. Tip = honest[n] /\ n \in 1..n
      BY <1>1, <1>3, <2>2 DEF Tip
    <3>2. honest[n].seq = n
      BY <1>3, <3>1, HonestRow DEF TamperInv, HonestLog
    <3>3. n = legacy => honest[n].entry_hash = NoHash
      BY <3>1 DEF TamperInv, HonestLog
    <3> QED BY <3>1, <3>2, <3>3 DEF NextLink, Link
  <2> QED BY <2>1, <2>2
<1> HIDE DEF new
<1>5. /\ honest' \in Seq(RowsIn(honest) \cup {new})
      /\ Len(honest') = n + 1
      /\ \A i \in 1..n : honest'[i] = honest[i]
      /\ honest'[n + 1] = new
  <2>1. honest \in Seq(RowsIn(honest) \cup {new})
    BY <1>3
  <2> QED BY <1>1, <1>2, <2>1
<1>6. IsLog(honest')
  <2>1. honest' = [i \in 1..(n + 1) |-> honest'[i]]
    BY <1>5
  <2> QED BY <1>3, <2>1, FunctionIsLog
<1>7. legacy' = legacy
  BY <1>1 DEF legacy
<1>8. HonestLog'
  <2>1. \A i \in 1..legacy : honest'[i].seq = i /\ honest'[i].entry_hash = NoHash
    BY <1>3, <1>5 DEF TamperInv, HonestLog
  <2>2. ASSUME NEW i \in (legacy + 1)..(n + 1)
        PROVE  honest'[i] = Link(i, honest'[i].body, Previous(i)')
    <3>1. Previous(i)' = IF i = legacy + 1 THEN NoHash ELSE honest[i - 1].entry_hash
      BY <1>3, <1>5, <1>7 DEF Previous
    <3>2. CASE i = n + 1
      <4>1. n \in Int /\ legacy \in Int
        BY <1>3
      <4>2. i - 1 = n
        BY <3>2, <4>1
      <4>3. i = legacy + 1 <=> n = legacy
        BY <3>2, <4>1
      <4> QED BY <1>4, <1>5, <3>1, <3>2, <4>2, <4>3 DEF Link
    <3>3. CASE i # n + 1
      <4>1. i \in (legacy + 1)..n /\ honest'[i] = honest[i]
        BY <1>3, <1>5, <3>3
      <4> QED BY <3>1, <4>1 DEF TamperInv, HonestLog, Previous
    <3> QED BY <3>2, <3>3
  <2> QED BY <1>3, <1>5, <1>6, <1>7, <2>1, <2>2 DEF HonestLog
<1>9. Altered'
  BY <1>1, <1>2, <1>6 DEF Altered
<1> QED BY <1>8, <1>9 DEF TamperInv

\* A change is one of those Altered tells of.
LEMMA ChangeAlters ==
  ASSUME TamperInv, Tampering
  PROVE  TamperInv'
<1> DEFINE n == Len(honest)
<1>1. PICK i \in ChainedAt :
        \/ \E b \in Body : Edit(i, b)
        \/ Delete(i)
        \/ \E h \in OtherHashes : Relink(i, h) \/ EditPrev(i, h)
  BY DEF Tampering
<1>2. /\ change = NoChange /\ log = honest /\ UNCHANGED <<table, honest>>
      /\ change'.at = i /\ change'.row = honest[i]
  <2>1. \E kind : Changed(kind, i)
    BY <1>1 DEF Edit, Delete, Relink, EditPrev
  <2>2. change = NoChange /\ log = honest /\ UNCHANGED <<table, honest>>
    BY <2>1, NotYetAltered DEF Changed, TamperInv
  <2> QED BY <2>1, <2>2 DEF Changed
<1>3. n \in Nat /\ DOMAIN honest = 1..n /\ legacy \in 0..n /\ honest \in Seq(RowsIn(honest))
      /\ honest = [j \in 1..n |-> honest[j]]
  BY LogIsFunction DEF TamperInv, HonestLog, IsLog
<1>4. i \in (legacy + 1)..n /\ i \in 1..n
  BY <1>2, <1>3 DEF ChainedAt
<1>5. legacy' = legacy /\ HonestLog'
  BY <1>2 DEF legacy, TamperInv, HonestLog, Previous
<1>6. honest[i] = [seq |-> i, body |-> honest[i].body, prev_hash |-> honest[i].prev_hash,
                   entry_hash |-> honest[i].entry_hash]
  <2>1. honest[i] = Link(i, honest[i].body, Previous(i))
    BY <1>4 DEF TamperInv, HonestLog
  <2>2. honest[i].prev_hash = Previous(i) /\ honest[i].seq = i
        /\ honest[i].entry_hash = entry_digest(Org, i, honest[i].body, Previous(i))
    BY <1>4, HonestRow DEF TamperInv
  <2> QED BY <2>1, <2>2 DEF Link
<1>7. ASSUME NEW row, log' = [honest EXCEPT ![i] = row], row.seq = i
      PROVE  IsLog(log') /\ SameBut(i)' /\ log'[i] = row
  <2>1. log' = [j \in 1..n |-> log'[j]]
    BY <1>3, <1>4, <1>7
  <2> QED BY <1>2, <1>3, <1>4, <1>7, <2>1, FunctionIsLog DEF SameBut
<1>8. ASSUME NEW b \in Body, Edit(i, b) PROVE Altered'
  <2> DEFINE row == [honest[i] EXCEPT !.body = b]
  <2>1. log' = [honest EXCEPT ![i] = row] /\ b # honest[i].body /\ change'.kind = "edit"
    BY <1>2, <1>8 DEF Edit, Changed
  <2>2. row.seq = i /\ row.body = b /\ row.prev_hash = honest[i].prev_hash
        /\ row.entry_hash = honest[i].entry_hash
    BY <1>6
  <2> HIDE DEF row
  <2> QED BY <1>2, <1>4, <1>5, <1>7, <2>1, <2>2 DEF Altered
<1>9. ASSUME Delete(i) PROVE Altered'
  <2>1. /\ log' = SubSeq(honest, 1, i - 1) \o SubSeq(honest, i + 1, n)
        /\ change'.kind = "delete"
    BY <1>2, <1>9 DEF Delete, Changed
  <2>2. /\ Len(log') = n - 1 /\ log' \in Seq(RowsIn(honest))
        /\ \A j \in 1..(i - 1) : log'[j] = honest[j]
        /\ \A j \in i..(n - 1) : log'[j] = honest[j + 1]
    <3> DEFINE a == SubSeq(honest, 1, i - 1)
               b == SubSeq(honest, i + 1, n)
    <3>1. i \in Nat \ {0} /\ i <= n
      BY <1>3, <1>4
    <3>2. a \in Seq(RowsIn(honest)) /\ Len(a) = i - 1 /\ \A j \in 1..(i - 1) : a[j] = honest[j]
      BY <1>3, <3>1
    <3>3. b \in Seq(RowsIn(honest)) /\ Len(b) = n - i
          /\ \A j \in 1..(n - i) : b[j] = honest[i + j]
      BY <1>3, <3>1
    <3> HIDE DEF a, b
    <3>4. /\ i - 1 \in Nat /\ n - 1 \in Nat /\ (n - 1) - (i - 1) = n - i /\ (i - 1) + 1 = i
      BY <1>3, <3>1
    <3>5. /\ a \o b \in Seq(RowsIn(honest)) /\ Len(a \o b) = n - 1
          /\ \A j \in 1..(i - 1) : (a \o b)[j] = a[j]
          /\ \A j \in i..(n - 1) : (a \o b)[j] = b[j - (i - 1)]
      BY <3>2, <3>3, <3>4, Joined
    <3>6. ASSUME NEW j \in i..(n - 1) PROVE (a \o b)[j] = honest[j + 1]
      <4>1. j - (i - 1) \in 1..(n - i) /\ i + (j - (i - 1)) = j + 1
        BY <1>3, <3>1
      <4> QED BY <3>3, <3>5, <4>1
    <3>7. log' = a \o b
      BY <2>1 DEF a, b
    <3> QED BY <3>2, <3>5, <3>6, <3>7
  <2>3. IsLog(log')
    <3>1. n - 1 \in Nat /\ log' = [j \in 1..(n - 1) |-> log'[j]]
      BY <1>3, <1>4, <2>2
    <3> QED BY <3>1, FunctionIsLog
  <2> QED BY <1>2, <1>4, <1>5, <2>1, <2>2, <2>3 DEF Altered
<1>10. ASSUME NEW h, Relink(i, h) PROVE Altered'
  <2> DEFINE e == expected_hash(Org, honest[i], h)
             row == [honest[i] EXCEPT !.prev_hash = h, !.entry_hash = e]
  <2>1. log' = [honest EXCEPT ![i] = row] /\ h # honest[i].prev_hash /\ change'.kind = "relink"
    BY <1>2, <1>4, <1>3, <1>10 DEF Relink, Changed
  <2>2. row.seq = i /\ row.body = honest[i].body /\ row.prev_hash = h /\ row.entry_hash = e
    <3> HIDE DEF e
    <3> QED BY <1>6
  <2>3. e = expected_hash(Org, row, h)
    BY <1>6, <2>2 DEF expected_hash
  <2> HIDE DEF row, e
  <2> QED BY <1>2, <1>4, <1>5, <1>7, <2>1, <2>2, <2>3 DEF Altered
<1>11. ASSUME NEW h, EditPrev(i, h) PROVE Altered'
  <2> DEFINE row == [honest[i] EXCEPT !.prev_hash = h]
  <2>1. log' = [honest EXCEPT ![i] = row] /\ change'.kind = "edit_prev"
    BY <1>2, <1>11 DEF EditPrev, Changed
  <2>2. row.seq = i /\ row.body = honest[i].body /\ row.entry_hash = honest[i].entry_hash
    BY <1>6
  <2> HIDE DEF row
  <2> QED BY <1>2, <1>4, <1>5, <1>7, <2>1, <2>2 DEF Altered
<1> QED BY <1>1, <1>5, <1>8, <1>9, <1>10, <1>11 DEF TamperInv

\* The inductive invariant of appending and changing.
THEOREM TamperInvariant == Spec => []TamperInv
<1>1. TamperInv /\ UNCHANGED tamperVars => TamperInv'
  BY DEF tamperVars, TamperInv, HonestLog, Altered, SameBut, Previous, legacy
<1>2. TamperInv /\ [Next]_tamperVars => TamperInv'
  BY <1>1, AppendKeepsHonest, ChangeAlters DEF Next
<1> QED BY <1>2, HonestStart, PTL DEF Spec

-----------------------------------------------------------------------------
(***************************************************************************)
(* The verdict.  The walk covers the first rows of the log; AsAppended     *)
(* rows, one after another, pass it, so it comes to the changed row, if    *)
(* that is among those it covers and is not as it was.                     *)
(***************************************************************************)
AsAppended(i) ==
  /\ log[i].seq = i
  /\ log[i].body = honest[i].body
  /\ log[i].entry_hash = honest[i].entry_hash

\* The rows the walk covers that predate the chain.
Unhashed == IF legacy <= Len(Walked) THEN legacy ELSE Len(Walked)

\* The rows of a log, as far as the verifier cares.
LEMMA LogRows ==
  ASSUME TamperInv
  PROVE  /\ Len(log) \in Nat /\ legacy \in 0..Len(log) /\ Len(log) <= Len(honest)
         /\ Len(honest) \in Nat
         /\ \A i \in 1..legacy : log[i].seq = i /\ log[i].entry_hash = NoHash
         /\ \A i \in (legacy + 1)..Len(log) :
              log[i].seq \in Nat \ {0} /\ log[i].entry_hash # NoHash
<1> DEFINE a == change.at
<1>1. Len(log) \in Nat /\ Len(honest) \in Nat /\ legacy \in 0..Len(honest)
  BY LogIsFunction DEF TamperInv, HonestLog, Altered
<1>2. /\ \A i \in 1..legacy : honest[i].seq = i /\ honest[i].entry_hash = NoHash
      /\ \A i \in (legacy + 1)..Len(honest) : honest[i].seq = i /\ honest[i].entry_hash # NoHash
  BY HonestRow DEF TamperInv, HonestLog
<1>3. CASE log = honest
  BY <1>1, <1>2, <1>3
<1>4. CASE a \in (legacy + 1)..Len(honest) /\ SameBut(a) /\ log[a].entry_hash # NoHash
  BY <1>1, <1>2, <1>4 DEF SameBut
<1>5. CASE /\ a \in (legacy + 1)..Len(honest)
           /\ Len(log) = Len(honest) - 1
           /\ \A i \in 1..(a - 1) : log[i] = honest[i]
           /\ \A i \in a..Len(log) : log[i] = honest[i + 1]
  <2>1. legacy \in 0..Len(log)
    BY <1>1, <1>5
  <2>2. ASSUME NEW i \in (legacy + 1)..Len(log)
        PROVE  log[i].seq \in Nat \ {0} /\ log[i].entry_hash # NoHash
    <3>1. CASE i < a
      BY <1>1, <1>2, <1>5, <3>1
    <3>2. CASE ~(i < a)
      <4>1. log[i] = honest[i + 1] /\ i + 1 \in (legacy + 1)..Len(honest) /\ i + 1 \in Nat \ {0}
        BY <1>1, <1>5, <3>2
      <4> QED BY <1>2, <4>1
    <3> QED BY <3>1, <3>2
  <2> QED BY <1>1, <1>2, <1>5, <2>1, <2>2
<1>6. ASSUME a \in (legacy + 1)..Len(honest)
      PROVE  /\ expected_hash(Org, log[a], log[a].prev_hash) # NoHash
             /\ honest[a].entry_hash # NoHash
  BY <1>2, <1>6, Digests DEF expected_hash
<1> QED BY <1>3, <1>4, <1>5, <1>6 DEF TamperInv, Altered

\* The rows the walk covers.
LEMMA WalkedRows ==
  ASSUME TamperInv
  PROVE  /\ Len(Walked) \in Nat /\ DOMAIN Walked = 1..Len(Walked)
         /\ Len(Walked) = IF Len(log) <= MAX_VERIFY_ROWS THEN Len(log) ELSE MAX_VERIFY_ROWS
         /\ \A i \in 1..Len(Walked) : Walked[i] = log[i]
         /\ Layout(Walked, Unhashed, Len(Walked))
<1> DEFINE m == IF Len(log) <= MAX_VERIFY_ROWS THEN Len(log) ELSE MAX_VERIFY_ROWS
<1>1. Len(log) \in Nat /\ MAX_VERIFY_ROWS \in Nat /\ log \in Seq(RowsIn(log))
  BY LogRows, TamperAssumption DEF TamperInv, Altered, IsLog
<1>2. /\ {Len(log), MAX_VERIFY_ROWS} \in SUBSET Int
      /\ m \in {Len(log), MAX_VERIFY_ROWS} /\ \A x \in {Len(log), MAX_VERIFY_ROWS} : m <= x
      /\ m \in 0..Len(log)
  BY <1>1
<1> HIDE DEF m
<1>3. Walked = SubSeq(log, 1, m) /\ m \in 0..Len(log)
  BY <1>2, MinKnown DEF Walked
<1>4. /\ Len(Walked) = m /\ DOMAIN Walked = 1..m
      /\ \A i \in 1..m : Walked[i] = log[i]
  BY <1>1, <1>3
<1>5. Layout(Walked, Unhashed, Len(Walked))
  <2>1. m \in Nat /\ Unhashed \in 0..m /\ Unhashed <= legacy
        /\ (Unhashed = legacy \/ Unhashed = m) /\ legacy \in Nat
    BY <1>1, <1>3, <1>4, LogRows DEF Unhashed
  <2>2. \A i \in 1..Unhashed : i \in 1..legacy /\ i \in 1..m
    BY <2>1
  <2>3. \A i \in (Unhashed + 1)..m : i \in (legacy + 1)..Len(log) /\ i \in 1..m
    BY <1>1, <1>3, <2>1
  <2> QED BY <1>4, <2>1, <2>2, <2>3, LogRows DEF Layout
<1> QED BY <1>1, <1>3, <1>4, <1>5 DEF m

\* A row as it was appended, after a row as it was appended, passes.
LEMMA AppendedPasses ==
  ASSUME TamperInv, NEW i \in (legacy + 1)..Len(Walked), AsAppended(i),
         i # legacy + 1 => AsAppended(i - 1)
  PROVE  i \notin Failing(Org, Walked)
<1> DEFINE W == Walked
           m == Len(W)
<1>1. /\ m \in Nat /\ m <= Len(log) /\ Len(log) <= Len(honest) /\ legacy \in Nat
      /\ Len(log) \in Nat /\ Len(honest) \in Nat /\ Layout(W, Unhashed, m)
      /\ \A j \in 1..m : W[j] = log[j]
  BY WalkedRows, LogRows
<1>2. Unhashed = legacy /\ i \in (legacy + 1)..Len(honest) /\ i \in 1..m
  BY <1>1 DEF Unhashed
<1>3. W[i] = log[i] /\ (i # legacy + 1 => W[i - 1] = log[i - 1])
  BY <1>1, <1>2
<1>4. honest[i].entry_hash = entry_digest(Org, i, honest[i].body, Previous(i))
  BY <1>2, HonestRow DEF TamperInv
<1>5. Previous(i) = IF i = Unhashed + 1 THEN NoHash ELSE W[i - 1].entry_hash
  BY <1>2, <1>3 DEF Previous, AsAppended
<1>6. W[i].entry_hash = expected_hash(Org, W[i],
        IF i = Unhashed + 1 THEN NoHash ELSE W[i - 1].entry_hash)
  BY <1>3, <1>4, <1>5 DEF expected_hash, AsAppended
<1> HIDE DEF W, m
<1>7. i \notin Failing(Org, W)
  BY <1>1, <1>2, <1>3, <1>6, LinkPasses DEF AsAppended
<1> QED BY <1>7 DEF W

\* Every chained row the walk covers is as it was appended.
Clean == \A i \in (legacy + 1)..Len(Walked) : AsAppended(i)

\* The walk covers the changed row, and those before it are as they were.
Reached ==
  /\ change.at \in (legacy + 1)..Len(Walked)
  /\ \A i \in (legacy + 1)..(change.at - 1) : AsAppended(i)

\* A row that is the honest one is as it was appended.
LEMMA HonestAppended ==
  ASSUME TamperInv, NEW i \in (legacy + 1)..Len(honest), log[i] = honest[i]
  PROVE  AsAppended(i)
BY HonestRow DEF TamperInv, AsAppended

\* A change the walk does not come to leaves what it covers clean.
LEMMA CleanOrReached ==
  ASSUME TamperInv
  PROVE  \/ Clean
         \/ Reached /\ change.kind \in {"edit", "delete", "relink"}
<1> DEFINE a == change.at
           m == Len(Walked)
           n == Len(honest)
<1>1. m \in Nat /\ m <= Len(log) /\ Len(log) <= n /\ legacy \in Nat /\ Len(log) \in Nat /\ n \in Nat
  BY WalkedRows, LogRows
<1>2. CASE log = honest
  BY <1>1, <1>2, HonestAppended DEF Clean
<1>3. CASE a \in (legacy + 1)..n /\ \A i \in 1..(a - 1) : log[i] = honest[i]
  <2>1. \A i \in (legacy + 1)..(a - 1) : AsAppended(i)
    BY <1>1, <1>3, HonestAppended
  <2>2. CASE a <= m
    <3>1. Reached
      BY <1>1, <1>3, <2>1, <2>2 DEF Reached
    <3>2. change.kind \in {"edit", "delete", "relink"} \/ change.kind = "edit_prev" \/ log = honest
      BY DEF TamperInv, Altered
    <3>3. CASE change.kind = "edit_prev"
      <4>1. /\ SameBut(a) /\ log[a].body = honest[a].body
            /\ log[a].entry_hash = honest[a].entry_hash /\ log[a].seq = a
        <5>1. CASE change = NoChange
          BY <3>3, <5>1 DEF NoChange
        <5> QED BY <3>3, <5>1 DEF TamperInv, Altered, SameBut
      <4>2. ASSUME NEW i \in (legacy + 1)..m PROVE AsAppended(i)
        <5>1. i \in (legacy + 1)..n /\ i \in 1..n
          BY <1>1
        <5>2. CASE i = a
          BY <4>1, <5>2 DEF AsAppended
        <5>3. CASE i # a
          BY <4>1, <5>1, <5>3, HonestAppended DEF SameBut
        <5> QED BY <5>2, <5>3
      <4> QED BY <4>2 DEF Clean
    <3> QED BY <1>2, <3>1, <3>2, <3>3
  <2>3. CASE ~(a <= m)
    BY <1>1, <1>3, <2>1, <2>3 DEF Clean
  <2> QED BY <2>2, <2>3
<1>4. ASSUME a \in (legacy + 1)..n, SameBut(a)
      PROVE  \A i \in 1..(a - 1) : log[i] = honest[i]
  BY <1>1, <1>4 DEF SameBut
<1> QED BY <1>2, <1>3, <1>4 DEF TamperInv, Altered

\* The report of a walk over rows that are as they were.
LEMMA CleanReport ==
  ASSUME TamperInv, Clean
  PROVE  /\ Verdict.intact
         /\ Verdict.entries_checked = Len(Walked) - Unhashed
         /\ Verdict.head_hash =
              IF Len(Walked) = Unhashed THEN NoHash ELSE honest[Len(Walked)].entry_hash
<1> DEFINE m == Len(Walked)
<1>1. /\ m \in Nat /\ legacy \in Nat /\ Layout(Walked, Unhashed, m)
      /\ \A i \in 1..m : Walked[i] = log[i]
  BY WalkedRows, LogRows
<1>2. /\ Unhashed \in 0..m /\ (Unhashed = legacy \/ Unhashed = m)
      /\ Unhashed <= legacy /\ (m # Unhashed => m \in (legacy + 1)..m)
  BY <1>1 DEF Unhashed
<1>3. Failing(Org, Walked) = {}
  <2>1. Chained(Walked) = (Unhashed + 1)..m
    <3>1. m + 1 \in (Unhashed + 1)..(m + 1)
      BY <1>1, <1>2
    <3> QED BY <1>1, <3>1, WalkAt
  <2>2. ASSUME NEW i \in (Unhashed + 1)..m PROVE i \notin Failing(Org, Walked)
    <3>1. i \in (legacy + 1)..m /\ (i # legacy + 1 => i - 1 \in (legacy + 1)..m)
      BY <1>1, <1>2
    <3> QED BY <3>1, AppendedPasses DEF Clean
  <2> QED BY <2>1, <2>2 DEF Failing
<1>4. /\ Verdict.intact /\ Verdict.entries_checked = m - Unhashed
      /\ Verdict.head_hash = IF m = Unhashed THEN NoHash ELSE Walked[m].entry_hash
  BY <1>1, <1>3, WalkPasses DEF Verdict
<1>5. m # Unhashed => Walked[m].entry_hash = honest[m].entry_hash
  BY <1>1, <1>2 DEF Clean, AsAppended
<1> QED BY <1>4, <1>5

\* What the walk has when it comes to the changed row.
LEMMA AtTheChange ==
  ASSUME TamperInv, Reached
  PROVE  LET a == change.at
         IN  /\ a \in Nat \ {0} /\ legacy \in Nat /\ a <= Len(log)
             /\ Walked[a] = log[a] /\ a \in Chained(Walked)
             /\ RunningHash(Walked, a) = Previous(a)
             /\ Expected(Walked, a) = IF a = legacy + 1 THEN log[a].seq ELSE a
<1> DEFINE a == change.at
           m == Len(Walked)
<1>1. /\ m \in Nat /\ legacy \in Nat /\ Layout(Walked, Unhashed, m) /\ m <= Len(log)
      /\ Len(log) \in Nat /\ \A i \in 1..m : Walked[i] = log[i]
  BY WalkedRows, LogRows
<1>2. Unhashed = legacy /\ a \in (legacy + 1)..m /\ a \in (legacy + 1)..(m + 1) /\ a \in 1..m
      /\ a \in Nat \ {0}
  BY <1>1 DEF Unhashed, Reached
<1>3. a # legacy + 1 => /\ a - 1 \in (legacy + 1)..(a - 1) /\ a - 1 \in 1..m /\ (a - 1) + 1 = a
  BY <1>1, <1>2
<1>4. a # legacy + 1 => Walked[a - 1].seq = a - 1 /\ Walked[a - 1].entry_hash = honest[a - 1].entry_hash
  BY <1>1, <1>3 DEF Reached, AsAppended
<1>5. /\ Chained(Walked) = (legacy + 1)..m
      /\ a = legacy + 1 => /\ RunningHash(Walked, a) = NoHash
                           /\ Expected(Walked, a) = Walked[a].seq
      /\ a # legacy + 1 => /\ RunningHash(Walked, a) = Walked[a - 1].entry_hash
                           /\ Expected(Walked, a) = Walked[a - 1].seq + 1
  <2>1. Layout(Walked, legacy, m)
    BY <1>1, <1>2
  <2> HIDE DEF a, m
  <2> QED BY <1>2, <2>1, WalkAt
<1> QED BY <1>1, <1>2, <1>3, <1>4, <1>5 DEF Previous

\* The report of a walk the changed row stops.
LEMMA StoppedReport ==
  ASSUME TamperInv, Reached, change.at \in Failing(Org, Walked)
  PROVE  LET a == change.at
         IN  /\ ~Verdict.intact
             /\ Verdict.problem = Problem(Org, Walked, a)
             /\ Verdict.first_bad_seq =
                  IF Gap(Walked, a) /\ a # legacy + 1 THEN a ELSE log[a].seq
             /\ Verdict.entries_checked = a - legacy - 1
<1> DEFINE a == change.at
           m == Len(Walked)
<1>1. m \in Nat /\ legacy \in Nat /\ Layout(Walked, Unhashed, m)
  BY WalkedRows, LogRows
<1>2. Unhashed = legacy /\ a \in (legacy + 1)..m /\ a \in Int
  BY <1>1 DEF Unhashed, Reached
<1>3. ASSUME NEW j \in (legacy + 1)..m, j < a PROVE j \notin Failing(Org, Walked)
  <2>1. j \in (legacy + 1)..(a - 1) /\ (j # legacy + 1 => j - 1 \in (legacy + 1)..(a - 1))
    BY <1>1, <1>2, <1>3
  <2> QED BY <2>1, AppendedPasses DEF Reached
<1>4. /\ ~Verdict.intact /\ Verdict.problem = Problem(Org, Walked, a)
      /\ Verdict.first_bad_seq = IF Gap(Walked, a) THEN Expected(Walked, a) ELSE Walked[a].seq
      /\ Verdict.entries_checked = a - legacy - 1
  BY <1>1, <1>2, <1>3, WalkStops DEF Verdict
<1> QED BY <1>4, AtTheChange

\* An edited row is a hash mismatch at its position.
LEMMA EditReport ==
  ASSUME TamperInv, Reached, change.kind = "edit"
  PROVE  /\ ~Verdict.intact /\ Verdict.problem = "hash_mismatch"
         /\ Verdict.first_bad_seq = change.at
         /\ Verdict.entries_checked = change.at - legacy - 1
<1> DEFINE a == change.at
<1>1. /\ a \in (legacy + 1)..Len(honest) /\ log[a].seq = a
      /\ log[a].body # honest[a].body /\ log[a].prev_hash = honest[a].prev_hash
      /\ log[a].entry_hash = honest[a].entry_hash
  BY DEF TamperInv, Altered, NoChange, SameBut
<1>2. honest[a].prev_hash = Previous(a)
      /\ honest[a].entry_hash = entry_digest(Org, a, honest[a].body, Previous(a))
  BY <1>1, HonestRow DEF TamperInv
<1>3. /\ Walked[a] = log[a] /\ a \in Chained(Walked) /\ RunningHash(Walked, a) = Previous(a)
      /\ Expected(Walked, a) = a
  BY <1>1, AtTheChange
<1>4. ~Gap(Walked, a)
  BY <1>1, <1>3 DEF Gap
<1>5. expected_hash(Org, Walked[a], Previous(a)) # Walked[a].entry_hash
  BY <1>1, <1>2, <1>3, Digests DEF expected_hash
<1>6. a \in Failing(Org, Walked) /\ Problem(Org, Walked, a) = "hash_mismatch"
  BY <1>1, <1>2, <1>3, <1>4, <1>5 DEF Failing, Mismatch, Problem
<1> QED BY <1>1, <1>4, <1>6, StoppedReport

\* A re-pointed row is a broken link at its position.
LEMMA RelinkReport ==
  ASSUME TamperInv, Reached, change.kind = "relink"
  PROVE  /\ ~Verdict.intact /\ Verdict.problem = "broken_link"
         /\ Verdict.first_bad_seq = change.at
<1> DEFINE a == change.at
<1>1. /\ a \in (legacy + 1)..Len(honest) /\ log[a].seq = a
      /\ log[a].prev_hash # honest[a].prev_hash
      /\ log[a].entry_hash = expected_hash(Org, log[a], log[a].prev_hash)
  BY DEF TamperInv, Altered, NoChange, SameBut
<1>2. honest[a].prev_hash = Previous(a)
  BY <1>1, HonestRow DEF TamperInv
<1>3. /\ Walked[a] = log[a] /\ a \in Chained(Walked) /\ RunningHash(Walked, a) = Previous(a)
      /\ Expected(Walked, a) = a
  BY <1>1, AtTheChange
<1>4. ~Gap(Walked, a)
  BY <1>1, <1>3 DEF Gap
<1>5. expected_hash(Org, Walked[a], Previous(a)) # Walked[a].entry_hash
  BY <1>1, <1>2, <1>3, Digests DEF expected_hash
<1>6. a \in Failing(Org, Walked) /\ Problem(Org, Walked, a) = "broken_link"
  BY <1>1, <1>3, <1>4, <1>5 DEF Failing, Mismatch, Problem
<1> QED BY <1>1, <1>4, <1>6, StoppedReport

(***************************************************************************)
(* A row that is missing is a gap where it was, but for the first chained  *)
(* row: its successor is then the first, and points at nothing.            *)
(***************************************************************************)
LEMMA DeletionReport ==
  ASSUME TamperInv, Reached, change.kind = "delete"
  PROVE  /\ ~Verdict.intact
         /\ change.at # legacy + 1 =>
              Verdict.problem = "sequence_gap" /\ Verdict.first_bad_seq = change.at
         /\ change.at = legacy + 1 =>
              Verdict.problem = "broken_link" /\ Verdict.first_bad_seq = change.at + 1
<1> DEFINE a == change.at
<1>1. /\ a \in (legacy + 1)..Len(honest) /\ Len(log) = Len(honest) - 1
      /\ \A i \in a..Len(log) : log[i] = honest[i + 1]
  BY DEF TamperInv, Altered, NoChange
<1>2. /\ Walked[a] = log[a] /\ a \in Chained(Walked) /\ RunningHash(Walked, a) = Previous(a)
      /\ Expected(Walked, a) = IF a = legacy + 1 THEN log[a].seq ELSE a
      /\ a \in Nat \ {0} /\ legacy \in Nat /\ a <= Len(log)
      /\ Len(log) \in Nat /\ Len(honest) \in Nat
  BY AtTheChange, LogRows
<1>3. /\ a + 1 \in (legacy + 1)..Len(honest) /\ a + 1 # legacy + 1 /\ (a + 1) - 1 = a
      /\ a \in a..Len(log)
  BY <1>1, <1>2
<1>4. log[a] = honest[a + 1] /\ Previous(a + 1) = honest[a].entry_hash
  BY <1>1, <1>3 DEF Previous
<1>5. /\ log[a].seq = a + 1 /\ log[a].prev_hash = honest[a].entry_hash
      /\ log[a].entry_hash = entry_digest(Org, a + 1, log[a].body, honest[a].entry_hash)
      /\ honest[a].entry_hash # NoHash
  BY <1>1, <1>3, <1>4, HonestRow DEF TamperInv
<1>6. CASE a # legacy + 1
  <2>1. Gap(Walked, a)
    BY <1>2, <1>5, <1>6 DEF Gap
  <2>2. a \in Failing(Org, Walked) /\ Problem(Org, Walked, a) = "sequence_gap"
    BY <1>2, <2>1 DEF Failing, Problem
  <2> QED BY <1>6, <2>1, <2>2, StoppedReport
<1>7. CASE a = legacy + 1
  <2>1. ~Gap(Walked, a) /\ Previous(a) = NoHash
    BY <1>2, <1>7 DEF Gap, Previous
  <2>2. /\ expected_hash(Org, Walked[a], NoHash) # Walked[a].entry_hash
        /\ expected_hash(Org, Walked[a], Walked[a].prev_hash) = Walked[a].entry_hash
    BY <1>2, <1>5, Digests DEF expected_hash
  <2>3. a \in Failing(Org, Walked) /\ Problem(Org, Walked, a) = "broken_link"
    BY <1>2, <2>1, <2>2 DEF Failing, Mismatch, Problem
  <2> QED BY <1>5, <1>7, <2>1, <2>3, StoppedReport
<1> QED BY <1>6, <1>7

-----------------------------------------------------------------------------
\* A change to a row the verifier may walk is reached, or it took the last row.
LEMMA ChangeIsReached ==
  ASSUME TamperInv, change.kind \in {"edit", "delete", "relink"}, change.at <= MAX_VERIFY_ROWS
  PROVE  /\ change.at \in (legacy + 1)..Len(honest) /\ change.row.seq = change.at
         /\ change.row = honest[change.at] /\ change.at \in Nat
         /\ change.kind # "delete" => Reached
         /\ change.kind = "delete" => /\ change.at # Len(log) + 1 => Reached
                                      /\ change.at = Len(log) + 1 => Clean
                                      /\ Len(log) = Len(honest) - 1
<1> DEFINE a == change.at
<1>1. change.kind # "none" /\ change # NoChange
  BY DEF NoChange
<1>2. /\ a \in (legacy + 1)..Len(honest) /\ change.row = honest[a]
      /\ change.kind # "delete" => SameBut(a)
      /\ change.kind = "delete" => /\ Len(log) = Len(honest) - 1
                                   /\ \A i \in 1..(a - 1) : log[i] = honest[i]
  BY <1>1 DEF TamperInv, Altered
<1>3. /\ Len(Walked) \in Nat /\ legacy \in Nat /\ Len(log) \in Nat /\ Len(honest) \in Nat
      /\ MAX_VERIFY_ROWS \in Nat /\ Len(log) <= Len(honest)
      /\ Len(Walked) = IF Len(log) <= MAX_VERIFY_ROWS THEN Len(log) ELSE MAX_VERIFY_ROWS
  <2>1. /\ legacy \in Nat /\ Len(log) \in Nat /\ Len(honest) \in Nat
        /\ Len(log) <= Len(honest)
    BY LogRows
  <2> QED BY <2>1, WalkedRows, TamperAssumption
<1>4. honest[a].seq = a /\ a \in Nat
  BY <1>2, HonestRow DEF TamperInv
<1>5. \A i \in (legacy + 1)..(a - 1) : AsAppended(i)
  <2>1. \A i \in 1..(a - 1) : log[i] = honest[i]
    BY <1>2, <1>3 DEF SameBut
  <2>2. \A i \in (legacy + 1)..(a - 1) : i \in (legacy + 1)..Len(honest) /\ i \in 1..(a - 1)
    BY <1>2, <1>3
  <2> QED BY <2>1, <2>2, HonestAppended
<1>6. CASE a <= Len(log)
  <2>1. a \in (legacy + 1)..Len(Walked) /\ a # Len(log) + 1
    BY <1>2, <1>3, <1>6
  <2> QED BY <1>2, <1>4, <1>5, <2>1 DEF Reached
<1>7. CASE ~(a <= Len(log))
  <2>1. change.kind = "delete"
    BY <1>2, <1>3, <1>7 DEF SameBut
  <2>2. a = Len(log) + 1 /\ \A i \in (legacy + 1)..Len(Walked) : i \in (legacy + 1)..(a - 1)
    BY <1>2, <1>3, <1>7, <2>1
  <2> QED BY <1>2, <1>4, <1>5, <2>1, <2>2 DEF Clean
<1> QED BY <1>6, <1>7

\* The rows IntactVouchesForPrefix speaks of are those the walk covers.
LEMMA RowsVouchedFor ==
  ASSUME TamperInv
  PROVE  /\ WalkedAt = (legacy + 1)..Len(Walked)
         /\ Cardinality(WalkedAt) = Len(Walked) - Unhashed
         /\ WalkedAt = {} <=> Len(Walked) = Unhashed
         /\ WalkedAt # {} => Max(WalkedAt) = Len(Walked)
         /\ legacy \in Nat /\ Len(Walked) \in Nat
<1> DEFINE m == Len(Walked)
<1>1. /\ m \in Nat /\ legacy \in Nat /\ Len(log) \in Nat /\ MAX_VERIFY_ROWS \in Nat
      /\ m = IF Len(log) <= MAX_VERIFY_ROWS THEN Len(log) ELSE MAX_VERIFY_ROWS
  <2>1. legacy \in Nat /\ Len(log) \in Nat
    BY LogRows
  <2> QED BY <2>1, WalkedRows, TamperAssumption
<1>2. WalkedAt = (legacy + 1)..m
  BY <1>1 DEF WalkedAt, ChainedAt
<1>3. Unhashed = IF legacy <= m THEN legacy ELSE m
  BY DEF Unhashed
<1>4. m \in Nat /\ legacy \in Nat
  BY <1>1
<1> HIDE DEF m
<1>5. Cardinality((legacy + 1)..m) = IF legacy + 1 > m THEN 0 ELSE m - (legacy + 1) + 1
  <2>1. legacy + 1 \in Int /\ m \in Int
    BY <1>1
  <2> QED BY <2>1, FS_Interval
<1>6. (legacy + 1)..m # {} => legacy + 1 <= m
  BY <1>1
<1>7. (legacy + 1)..m # {} => Max((legacy + 1)..m) = m
  BY <1>1, <1>6, MaxOfInterval
<1>8. Cardinality((legacy + 1)..m) = m - Unhashed
  BY <1>3, <1>5, <1>4
<1>9. (legacy + 1)..m = {} <=> m = Unhashed
  BY <1>1, <1>3
<1> QED BY <1>1, <1>2, <1>7, <1>8, <1>9 DEF m

-----------------------------------------------------------------------------
(***************************************************************************)
(* Whatever the report of verify_audit_log calls intact, it vouches for:   *)
(* for logs, histories and MAX_VERIFY_ROWS of any size.                    *)
(***************************************************************************)
THEOREM IntactIsTrue == Spec => []IntactVouchesForPrefix
<1>1. ASSUME TamperInv PROVE IntactVouchesForPrefix
  <2>1. /\ WalkedAt = (legacy + 1)..Len(Walked)
        /\ Cardinality(WalkedAt) = Len(Walked) - Unhashed
        /\ WalkedAt = {} <=> Len(Walked) = Unhashed
        /\ WalkedAt # {} => Max(WalkedAt) = Len(Walked)
    BY <1>1, RowsVouchedFor
  <2>2. CASE Clean
    <3>1. \A i \in WalkedAt : log[i].seq = honest[i].seq /\ log[i].body = honest[i].body
      <4>1. ASSUME NEW i \in WalkedAt PROVE i \in (legacy + 1)..Len(honest)
        BY <1>1, <2>1, WalkedRows, LogRows
      <4> QED BY <1>1, <2>1, <2>2, <4>1, HonestRow DEF Clean, AsAppended, TamperInv
    <3> QED BY <1>1, <2>1, <2>2, <3>1, CleanReport DEF IntactVouchesForPrefix
  <2>3. CASE Reached /\ change.kind \in {"edit", "delete", "relink"}
    <3>1. ~Verdict.intact /\ change # NoChange
      BY <1>1, <2>3, EditReport, DeletionReport, RelinkReport DEF NoChange
    <3> QED BY <3>1 DEF IntactVouchesForPrefix
  <2> QED BY <1>1, <2>2, <2>3, CleanOrReached
<1> QED BY <1>1, TamperInvariant, PTL

(***************************************************************************)
(* An edit of a recorded field, in any row the verifier may walk, is told  *)
(* from every other change, and at its position.                           *)
(***************************************************************************)
THEOREM EditsAreFound == Spec => []EditDetected
<1>1. TamperInv => EditDetected
  BY EditReport, ChangeIsReached DEF EditDetected
<1> QED BY <1>1, TamperInvariant, PTL

(***************************************************************************)
(* A deletion, of any row the verifier may walk, is reported where the row *)
(* is missing, and the deletion of the newest moves the head.              *)
(***************************************************************************)
THEOREM DeletionsAreFound == Spec => []DeletionDetected
<1>1. ASSUME TamperInv, change.kind = "delete", change.at <= MAX_VERIFY_ROWS
      PROVE  CASE change.at = Len(log) + 1 ->
                    Verdict.intact /\ Verdict.head_hash # change.row.entry_hash
               [] change.at = legacy + 1 /\ change.at <= Len(log) ->
                    Verdict.problem = "broken_link" /\ Verdict.first_bad_seq = change.row.seq + 1
               [] OTHER ->
                    Verdict.problem = "sequence_gap" /\ Verdict.first_bad_seq = change.row.seq
  <2> DEFINE a == change.at
             m == Len(Walked)
  <2>1. /\ a \in (legacy + 1)..Len(honest) /\ change.row = honest[a] /\ a \in Nat
        /\ change.row.seq = a /\ Len(log) = Len(honest) - 1
        /\ a # Len(log) + 1 => Reached
        /\ a = Len(log) + 1 => Clean
    BY <1>1, ChangeIsReached
  <2>2. CASE a = Len(log) + 1
    <3>1. /\ m \in Nat /\ m <= Len(log) /\ Len(log) \in Nat /\ Len(honest) \in Nat
          /\ legacy \in Nat /\ (m # Unhashed => m \in (legacy + 1)..Len(honest))
      BY <1>1, WalkedRows, LogRows DEF Unhashed
    <3>2. Verdict.intact
          /\ Verdict.head_hash = IF m = Unhashed THEN NoHash ELSE honest[m].entry_hash
      BY <1>1, <2>1, <2>2, CleanReport
    <3>3. honest[a].entry_hash # NoHash
          /\ honest[a].entry_hash = entry_digest(Org, a, honest[a].body, Previous(a))
      BY <1>1, <2>1, HonestRow DEF TamperInv
    <3>4. m # Unhashed =>
            honest[m].entry_hash = entry_digest(Org, m, honest[m].body, Previous(m)) /\ m # a
      BY <1>1, <2>2, <3>1, HonestRow DEF TamperInv
    <3>5. m # Unhashed => honest[m].entry_hash # honest[a].entry_hash
      BY <3>3, <3>4, Digests
    <3> QED BY <2>1, <2>2, <3>2, <3>3, <3>5
  <2>3. CASE a # Len(log) + 1
    <3>1. a <= Len(log)
      BY <1>1, <2>1, <2>3, LogRows
    <3> QED BY <1>1, <2>1, <2>3, <3>1, DeletionReport
  <2> QED BY <2>2, <2>3
<1> QED BY <1>1, TamperInvariant, PTL DEF DeletionDetected

(***************************************************************************)
(* A row re-pointed at a predecessor it never had, with a digest that      *)
(* fits, is told as a broken link at its position.                         *)
(***************************************************************************)
THEOREM RelinksAreFound == Spec => []RelinkDetected
<1>1. TamperInv => RelinkDetected
  BY RelinkReport, ChangeIsReached DEF RelinkDetected
<1> QED BY <1>1, TamperInvariant, PTL

(***************************************************************************)
(* What the verifier can see, exactly: it calls a log intact unless a row  *)
(* it walks was edited, re-pointed, or is missing before another.  A       *)
(* stored prev_hash that was changed alone is never found, nor is the loss *)
(* of the newest row, nor any change past the first MAX_VERIFY_ROWS.       *)
(***************************************************************************)
THEOREM VerifierIsExact ==
  Spec => [](~Verdict.intact <=> /\ change.kind \in {"edit", "delete", "relink"}
                                 /\ change.at <= Len(Walked))
<1> DEFINE Seen == change.kind \in {"edit", "delete", "relink"} /\ change.at <= Len(Walked)
<1>1. ASSUME TamperInv, Seen PROVE Reached
  <2>1. /\ Len(Walked) \in Nat /\ Len(Walked) <= Len(log) /\ Len(log) \in Nat
        /\ Len(Walked) <= MAX_VERIFY_ROWS /\ MAX_VERIFY_ROWS \in Nat
    <3>1. /\ Len(log) \in Nat /\ MAX_VERIFY_ROWS \in Nat
          /\ Len(Walked) = IF Len(log) <= MAX_VERIFY_ROWS THEN Len(log) ELSE MAX_VERIFY_ROWS
      BY <1>1, WalkedRows, LogRows, TamperAssumption
    <3> QED BY <3>1
  <2>2. change.at \in Int
    <3>1. change # NoChange
      BY <1>1 DEF NoChange
    <3> QED BY <1>1, <3>1, LogRows DEF TamperInv, Altered
  <2>3. change.at <= MAX_VERIFY_ROWS /\ change.at # Len(log) + 1
    BY <1>1, <2>1, <2>2
  <2> QED BY <1>1, <2>3, ChangeIsReached
<1>2. ASSUME TamperInv, Reached, change.kind \in {"edit", "delete", "relink"}
      PROVE  ~Verdict.intact /\ change.at <= Len(Walked)
  <2>1. change.at <= Len(Walked)
    BY <1>2 DEF Reached
  <2> QED BY <1>2, <2>1, EditReport, RelinkReport, DeletionReport
<1>3. ASSUME TamperInv PROVE ~Verdict.intact <=> Seen
  <2>1. CASE Seen
    BY <1>1, <1>2, <1>3, <2>1
  <2>2. CASE ~Seen
    <3>1. Clean
      BY <1>2, <1>3, <2>2, CleanOrReached
    <3> QED BY <1>3, <2>2, <3>1, CleanReport
  <2> QED BY <2>1, <2>2
<1> QED BY <1>3, TamperInvariant, PTL

(***************************************************************************)
(* The verdicts hold as well while a client reads the log.                 *)
(***************************************************************************)
THEOREM VerdictsWhileReading ==
  ReadSpec => [](/\ BackfillKeepsHistory /\ IntactVouchesForPrefix
                 /\ EditDetected /\ DeletionDetected /\ RelinkDetected)
BY ReadingIsPassive, HistoryStaysKept, IntactIsTrue, EditsAreFound, DeletionsAreFound,
   RelinksAreFound, PTL

-----------------------------------------------------------------------------
(***************************************************************************)
(* Reading backwards.  The rank of a position among some is how many are   *)
(* not below it: ranks are 1, ..., n, and NewestFirst puts rank i at i.    *)
(***************************************************************************)
AtLeast(S, s) == {t \in S : t >= s}
Rank(S, s) == Cardinality(AtLeast(S, s))

\* The higher position has the lower rank.
LEMMA RanksDescend ==
  ASSUME NEW S \in SUBSET Nat, IsFiniteSet(S)
  PROVE  /\ Cardinality(S) \in Nat
         /\ \A s \in S : Rank(S, s) \in 1..Cardinality(S)
         /\ \A s, t \in S : s < t => Rank(S, t) < Rank(S, s)
         /\ \A s, t \in S : Rank(S, s) = Rank(S, t) => s = t
<1>1. \A s \in S : AtLeast(S, s) \subseteq S /\ s \in AtLeast(S, s)
  BY DEF AtLeast
<1>2. \A s \in S : IsFiniteSet(AtLeast(S, s)) /\ Rank(S, s) <= Cardinality(S)
  BY <1>1, FS_Subset DEF Rank
<1>3. \A s \in S : Rank(S, s) \in Nat /\ Rank(S, s) # 0
  BY <1>1, <1>2, FS_CardinalityType, FS_EmptySet DEF Rank
<1>4. Cardinality(S) \in Nat
  BY FS_CardinalityType
<1>5. ASSUME NEW s \in S, NEW t \in S, s < t PROVE Rank(S, t) < Rank(S, s)
  <2>1. AtLeast(S, t) \subseteq AtLeast(S, s) /\ s \notin AtLeast(S, t)
    <3>1. ASSUME NEW x \in S, x >= t PROVE x >= s
      <4>1. x \in Nat /\ s \in Nat /\ t \in Nat
        OBVIOUS
      <4> QED BY <1>5, <3>1, <4>1
    <3>2. s \in Nat /\ t \in Nat
      OBVIOUS
    <3>3. ~(s >= t)
      BY <1>5, <3>2
    <3> QED BY <3>1, <3>3 DEF AtLeast
  <2>2. AtLeast(S, t) # AtLeast(S, s)
    BY <1>1, <2>1
  <2>3. Cardinality(AtLeast(S, t)) < Cardinality(AtLeast(S, s))
    <3>1. Rank(S, t) <= Rank(S, s) /\ Rank(S, t) # Rank(S, s)
      BY <1>2, <2>1, <2>2, FS_Subset DEF Rank
    <3> QED BY <1>3, <3>1 DEF Rank
  <2> QED BY <2>3 DEF Rank
<1>6. \A s, t \in S : Rank(S, s) = Rank(S, t) => s = t
  BY <1>3, <1>5
<1>7. \A s \in S : Rank(S, s) \in 1..Cardinality(S)
  BY <1>2, <1>3, <1>4
<1> QED BY <1>4, <1>5, <1>6, <1>7

\* The positions in descending order.
LEMMA DescendingOrder ==
  ASSUME NEW S \in SUBSET Nat, IsFiniteSet(S)
  PROVE  LET f == NewestFirst(S)
             n == Cardinality(S)
         IN  /\ n \in Nat /\ f \in Seq(Nat) /\ Len(f) = n /\ f = [i \in 1..n |-> f[i]]
             /\ \A i \in 1..n : f[i] \in S /\ Rank(S, f[i]) = i
             /\ \A s \in S : Rank(S, s) \in 1..n /\ f[Rank(S, s)] = s
<1> DEFINE f == NewestFirst(S)
           n == Cardinality(S)
           ranks == {Rank(S, s) : s \in S}
           rank == [s \in S |-> Rank(S, s)]
<1>1. n \in Nat /\ \A s \in S : Rank(S, s) \in 1..n
  BY RanksDescend
<1>2. \A s, t \in S : Rank(S, s) = Rank(S, t) => s = t
  BY RanksDescend
<1>3. rank \in Bijection(S, ranks)
  BY <1>2 DEF Bijection, Injection, Surjection, IsInjective
<1>4. ranks = 1..n
  <2>1. Cardinality(ranks) = n /\ IsFiniteSet(ranks)
    <3> HIDE DEF rank, ranks
    <3> QED BY <1>3, FS_Bijection DEF ExistsBijection
  <2>2. IsFiniteSet(1..n) /\ Cardinality(1..n) = n
    BY <1>1, FS_Interval
  <2>3. ranks \subseteq 1..n
    BY <1>1
  <2> HIDE DEF ranks, n
  <2> QED BY <2>1, <2>2, <2>3, FS_Subset
<1>5. f = [i \in 1..n |-> CHOOSE s \in S : Rank(S, s) = i]
  BY DEF NewestFirst, Rank, AtLeast
<1>6. ASSUME NEW i \in 1..n PROVE f[i] \in S /\ Rank(S, f[i]) = i
  <2>1. \E s \in S : Rank(S, s) = i
    BY <1>4
  <2>2. f[i] = CHOOSE s \in S : Rank(S, s) = i
    BY <1>5
  <2> QED BY <2>1, <2>2
<1> HIDE DEF f, n
<1>7. f \in [1..n -> Nat] /\ f = [i \in 1..n |-> f[i]]
  <2>1. \A i \in 1..n : f[i] \in Nat
    BY <1>6
  <2>2. f = [i \in 1..n |-> f[i]]
    BY <1>5
  <2> QED BY <2>1, <2>2
<1>8. f \in Seq(Nat) /\ Len(f) = n
  BY <1>1, <1>7
<1>9. \A s \in S : Rank(S, s) \in 1..n /\ f[Rank(S, s)] = s
  BY <1>1, <1>2, <1>6
<1> QED BY <1>1, <1>6, <1>7, <1>8, <1>9 DEF f, n

\* Below the one of rank k, the order goes on with the next.
LEMMA OrderGoesOn ==
  ASSUME NEW S \in SUBSET Nat, IsFiniteSet(S), NEW k \in 1..Cardinality(S),
         NEW L, L = {s \in S : s < NewestFirst(S)[k]}
  PROVE  /\ L \in SUBSET Nat /\ IsFiniteSet(L)
         /\ Cardinality(L) = Cardinality(S) - k
         /\ \A i \in 1..Cardinality(L) : NewestFirst(L)[i] = NewestFirst(S)[k + i]
<1> DEFINE b == NewestFirst(S)[k]
           U == AtLeast(S, b)
           n == Cardinality(S)
<1>1. n \in Nat /\ b \in S /\ Rank(S, b) = k
  BY DescendingOrder
<1>2. L \in SUBSET Nat /\ L \subseteq S /\ IsFiniteSet(L) /\ IsFiniteSet(U) /\ Cardinality(U) = k
  BY <1>1, FS_Subset DEF AtLeast, Rank
<1>3. S = L \cup U /\ L \cap U = {}
  <2>1. \A s \in S : s \in Nat /\ b \in Nat
    BY <1>1
  <2>2. \A s \in S : s < b <=> ~(s >= b)
    BY <2>1
  <2>3. L = {s \in S : s < b} /\ U = {s \in S : s >= b}
    BY DEF AtLeast
  <2> HIDE DEF b, U
  <2> QED BY <2>2, <2>3
<1>4. \A s \in S : s \in Nat /\ b \in Nat
  BY <1>1
<1>5. L = {s \in S : s < b} /\ U = {s \in S : s >= b}
  BY DEF AtLeast
<1> HIDE DEF U, b, n
<1>6. Cardinality(L) = n - k /\ Cardinality(L) \in Nat
  <2>1. Cardinality(L \cup U) = Cardinality(L) + Cardinality(U) - Cardinality(L \cap U)
    BY <1>2, FS_Union
  <2>2. Cardinality(L \cap U) = 0 /\ Cardinality(L) \in Nat
    BY <1>2, <1>3, FS_EmptySet, FS_CardinalityType
  <2>3. n = Cardinality(L) + k - 0
    BY <1>2, <1>3, <2>1, <2>2 DEF n
  <2> QED BY <1>1, <2>2, <2>3
<1>7. ASSUME NEW s \in L PROVE Rank(S, s) = Rank(L, s) + k
  <2>1. AtLeast(S, s) = AtLeast(L, s) \cup U /\ AtLeast(L, s) \cap U = {}
    <3>1. ASSUME NEW t \in S, t >= b PROVE t >= s
      <4>1. s < b /\ s \in Nat /\ t \in Nat /\ b \in Nat
        BY <1>2, <1>4, <1>5
      <4> QED BY <3>1, <4>1
    <3>2. {t \in S : t >= s} = {t \in L : t >= s} \cup U
      BY <1>2, <1>3, <1>5, <3>1
    <3> QED BY <1>3, <3>2 DEF AtLeast
  <2>2. AtLeast(L, s) \subseteq L
    BY DEF AtLeast
  <2>3. IsFiniteSet(AtLeast(L, s)) /\ Cardinality(AtLeast(L, s)) \in Nat
    BY <1>2, <2>2, FS_Subset, FS_CardinalityType
  <2>4. Cardinality(AtLeast(L, s) \cup U) = Cardinality(AtLeast(L, s)) + k - 0
    BY <1>2, <2>1, <2>3, FS_Union, FS_EmptySet
  <2> QED BY <2>1, <2>3, <2>4 DEF Rank
<1>8. ASSUME NEW i \in 1..Cardinality(L) PROVE NewestFirst(L)[i] = NewestFirst(S)[k + i]
  <2>1. NewestFirst(L)[i] \in L /\ Rank(L, NewestFirst(L)[i]) = i
    BY <1>2, DescendingOrder
  <2>2. Rank(S, NewestFirst(L)[i]) = k + i
    <3>1. i + k = k + i
      BY <1>6
    <3>2. Rank(S, NewestFirst(L)[i]) = i + k
      BY <1>7, <2>1
    <3> QED BY <3>1, <3>2
  <2> QED BY <1>2, <2>1, <2>2, DescendingOrder
<1> QED BY <1>2, <1>6, <1>8 DEF n

\* A page is never asked to be empty.
LEMMA ClampPositive ==
  ASSUME NEW limit \in Limits \cup {NotGiven}
  PROVE  Clamp(limit) \in Nat \ {0}
<1> DEFINE x == IF limit = NotGiven THEN DEFAULT_LIMIT ELSE limit
           y == Min({x, MAX_LIMIT})
<1>1. x \in Nat /\ MAX_LIMIT \in Nat
  BY AuditReadAssumption
<1> HIDE DEF x
<1>2. y \in Nat
  <2>1. \E m \in {x, MAX_LIMIT} : \A z \in {x, MAX_LIMIT} : m <= z
    BY <1>1
  <2>2. y \in {x, MAX_LIMIT}
    BY <2>1 DEF Min
  <2> QED BY <1>1, <2>2
<1> HIDE DEF y
<1>3. \E m \in {1, y} : \A z \in {1, y} : m >= z
  BY <1>2
<1>4. Max({1, y}) \in {1, y} /\ Max({1, y}) >= 1
  BY <1>3 DEF Max
<1> QED BY <1>2, <1>4 DEF Clamp, x, y

\* A page is the beginning of what was selected, in descending order.
LEMMA PageIsBeginning ==
  ASSUME NEW S \in SUBSET Nat, IsFiniteSet(S), NEW limit \in Limits \cup {NotGiven}
  PROVE  LET page == FirstOf(S, limit)
         IN  /\ page \in Seq(Nat) /\ Len(page) \in 0..Cardinality(S)
             /\ Cardinality(S) \in Nat
             /\ Len(page) = 0 <=> Cardinality(S) = 0
             /\ \A i \in 1..Len(page) : page[i] = NewestFirst(S)[i]
<1> DEFINE n == Cardinality(S)
           f == NewestFirst(S)
           c == Clamp(limit)
           m == IF n <= c THEN n ELSE c
<1>1. n \in Nat /\ f \in Seq(Nat) /\ Len(f) = n
  BY DescendingOrder
<1>2. c \in Nat \ {0}
  BY ClampPositive
<1> HIDE DEF n, c, f
<1>3. /\ m \in {n, c} /\ \A x \in {n, c} : m <= x
      /\ {n, c} \in SUBSET Int /\ m \in 0..n /\ (m = 0 <=> n = 0)
  BY <1>1, <1>2
<1> HIDE DEF m
<1>4. FirstOf(S, limit) = SubSeq(f, 1, m)
  <2>1. Min({n, c}) = m
    BY <1>3, MinKnown
  <2> QED BY <1>1, <2>1 DEF FirstOf, f, c
<1>5. /\ SubSeq(f, 1, m) \in Seq(Nat) /\ Len(SubSeq(f, 1, m)) = m
      /\ \A i \in 1..m : SubSeq(f, 1, m)[i] = f[i]
  BY <1>1, <1>3
<1> QED BY <1>1, <1>3, <1>4, <1>5 DEF n, f

\* The positions a query selects.
LEMMA SelectedFinite ==
  ASSUME TamperInv, NEW action
  PROVE  SeqsOf(action) \in SUBSET Nat /\ IsFiniteSet(SeqsOf(action))
<1> DEFINE at == {j \in DOMAIN log : action \in {NotGiven, log[j].body}}
           f == [i \in at |-> log[i].seq]
<1>1. /\ Len(log) \in Nat /\ DOMAIN log = 1..Len(log) /\ legacy \in 0..Len(log)
      /\ \A i \in 1..Len(log) : log[i].seq \in Nat
  <2>1. DOMAIN log = 1..Len(log)
    BY LogIsFunction DEF TamperInv, Altered
  <2>2. /\ Len(log) \in Nat /\ legacy \in 0..Len(log)
        /\ \A i \in 1..legacy : log[i].seq = i
        /\ \A i \in (legacy + 1)..Len(log) : log[i].seq \in Nat \ {0}
    BY LogRows
  <2>3. \A i \in 1..Len(log) : i \in 1..legacy \/ i \in (legacy + 1)..Len(log)
    BY <2>2
  <2> QED BY <2>1, <2>2, <2>3
<1>2. IsFiniteSet(at)
  <2>1. IsFiniteSet(1..Len(log)) /\ at \subseteq 1..Len(log)
    BY <1>1, FS_Interval
  <2> QED BY <2>1, FS_Subset
<1>3. SeqsOf(action) = {f[i] : i \in at} /\ SeqsOf(action) \in SUBSET Nat
  BY <1>1 DEF SeqsOf
<1>4. f \in Surjection(at, {f[i] : i \in at})
  BY DEF Surjection
<1> HIDE DEF f, at
<1> QED BY <1>2, <1>3, <1>4, FS_Surjection

(***************************************************************************)
(* The invariant of reading: what was selected when the read began is      *)
(* still selected, what has been selected since is above all of it, and    *)
(* the client has been given the first of it.                              *)
(***************************************************************************)
Selected == RowsIn(asked)

ReadInv ==
  query.reading =>
    /\ query.limit \in Limits \cup {NotGiven}
    /\ asked = NewestFirst(Selected)
    /\ Selected \subseteq SeqsOf(query.action)
    /\ \A s \in SeqsOf(query.action) \ Selected : \A t \in Selected : t < s
    /\ got \in Seq(Nat) /\ Len(got) \in 0..Len(asked)
    /\ \A i \in 1..Len(got) : got[i] = asked[i]
    /\ got = <<>> => Len(asked) = 0

\* What was selected, while the client reads.
LEMMA WhatIsRead ==
  ASSUME TamperInv, ReadInv, query.reading
  PROVE  /\ Selected \in SUBSET Nat /\ IsFiniteSet(Selected)
         /\ Len(asked) = Cardinality(Selected) /\ Len(asked) \in Nat /\ asked \in Seq(Nat)
         /\ \A i \in 1..Len(asked) : asked[i] \in Selected
<1>1. Selected \in SUBSET Nat /\ IsFiniteSet(Selected)
  BY SelectedFinite, FS_Subset DEF ReadInv
<1>2. /\ asked \in Seq(Nat) /\ Len(asked) = Cardinality(Selected)
      /\ Cardinality(Selected) \in Nat
      /\ \A i \in 1..Cardinality(Selected) : asked[i] \in Selected
  BY <1>1, DescendingOrder DEF ReadInv
<1> QED BY <1>1, <1>2

\* The next page goes on with what was selected.
LEMMA NextPage ==
  ASSUME TamperInv, ReadInv, query.reading, got # <<>>
  PROVE  LET page == Page(query, Before)
             k == Len(got)
         IN  /\ page \in Seq(Nat) /\ Len(page) \in 0..(Len(asked) - k)
             /\ Len(page) = 0 <=> Len(asked) = k
             /\ \A i \in 1..Len(page) : page[i] = asked[k + i]
<1> DEFINE k == Len(got)
           n == Len(asked)
           L == {s \in SeqsOf(query.action) : Before = NotGiven \/ s < Before}
<1>1. /\ Selected \in SUBSET Nat /\ IsFiniteSet(Selected) /\ asked = NewestFirst(Selected)
      /\ n = Cardinality(Selected) /\ n \in Nat
      /\ \A i \in 1..n : asked[i] \in Selected
  BY WhatIsRead DEF ReadInv
<1>2. k \in 1..n /\ Before = asked[k] /\ Before \in Selected /\ Before \in Nat
  <2>1. k \in 0..n /\ k # 0
    BY DEF ReadInv
  <2>2. k \in 1..n /\ k \in 1..Len(got)
    BY <1>1, <2>1
  <2>3. Before = asked[k]
    BY <2>2 DEF Before, ReadInv
  <2> QED BY <1>1, <2>2, <2>3
<1>3. L = {s \in Selected : s < NewestFirst(Selected)[k]}
  <2>1. \A s \in SeqsOf(query.action) : s \in Nat
    BY SelectedFinite
  <2>2. ASSUME NEW s \in SeqsOf(query.action), s \notin Selected PROVE ~(s < Before)
    <3>1. Before < s /\ s \in Nat
      BY <1>2, <2>1, <2>2 DEF ReadInv
    <3> QED BY <1>2, <3>1
  <2>3. Before # NotGiven /\ Before = NewestFirst(Selected)[k]
    BY <1>1, <1>2, AuditReadAssumption
  <2>4. Selected \subseteq SeqsOf(query.action)
    BY DEF ReadInv
  <2> QED BY <2>2, <2>3, <2>4
<1>4. /\ L \in SUBSET Nat /\ IsFiniteSet(L) /\ Cardinality(L) = n - k
      /\ \A i \in 1..Cardinality(L) : NewestFirst(L)[i] = asked[k + i]
  <2>1. k \in 1..Cardinality(Selected)
    BY <1>1, <1>2
  <2> HIDE DEF L, k, n
  <2>2. /\ L \in SUBSET Nat /\ IsFiniteSet(L)
        /\ Cardinality(L) = Cardinality(Selected) - k
        /\ \A i \in 1..Cardinality(L) : NewestFirst(L)[i] = NewestFirst(Selected)[k + i]
    <3>1. Selected \in SUBSET Nat /\ IsFiniteSet(Selected)
      BY <1>1
    <3> QED BY <1>3, <2>1, <3>1, OrderGoesOn
  <2> QED BY <1>1, <2>2
<1>5. Page(query, Before) = FirstOf(L, query.limit) /\ query.limit \in Limits \cup {NotGiven}
  BY DEF Page, ReadInv
<1> HIDE DEF L, k, n
<1>6. LET page == Page(query, Before)
      IN  /\ page \in Seq(Nat) /\ Len(page) \in 0..(n - k)
          /\ Len(page) = 0 <=> n - k = 0
          /\ \A i \in 1..Len(page) : page[i] = NewestFirst(L)[i] /\ i \in 1..(n - k)
  BY <1>4, <1>5, PageIsBeginning
<1>7. n - k = 0 <=> n = k
  BY <1>1, <1>2
<1> QED BY <1>4, <1>6, <1>7 DEF k, n

\* A first page is the beginning of all that is selected.
LEMMA FirstPage ==
  ASSUME TamperInv, NEW token, NEW limit \in Limits \cup {NotGiven}, NEW action,
         StartReading(token, limit, action)
  PROVE  ReadInv'
<1> DEFINE S == SeqsOf(action)
           n == Cardinality(S)
           f == NewestFirst(S)
           page == FirstOf(S, limit)
<1>1. S \in SUBSET Nat /\ IsFiniteSet(S)
  BY SelectedFinite
<1>2. query' = [limit |-> limit, action |-> action, reading |-> TRUE]
      /\ asked' = f /\ UNCHANGED tamperVars
  BY DEF StartReading
<1>3. got' = page
  <2>1. got' = Page(query', NotGiven)
    BY DEF StartReading
  <2>2. query'.limit = limit /\ query'.action = action
    BY <1>2
  <2>3. {s \in SeqsOf(query'.action) : NotGiven = NotGiven \/ s < NotGiven} = S
    BY <2>2
  <2> QED BY <2>1, <2>2, <2>3 DEF Page
<1>4. /\ n \in Nat /\ f \in Seq(Nat) /\ Len(f) = n /\ DOMAIN f = 1..n
      /\ \A i \in 1..n : f[i] \in S
      /\ \A s \in S : Rank(S, s) \in 1..n /\ f[Rank(S, s)] = s
  <2>1. /\ n \in Nat /\ f \in Seq(Nat) /\ Len(f) = n
        /\ \A i \in 1..n : f[i] \in S
        /\ \A s \in S : Rank(S, s) \in 1..n /\ f[Rank(S, s)] = s
    BY <1>1, DescendingOrder
  <2> HIDE DEF f, n
  <2>2. DOMAIN f = 1..n
    BY <2>1
  <2> QED BY <2>1, <2>2
<1>5. /\ page \in Seq(Nat) /\ Len(page) \in 0..n
      /\ Len(page) = 0 <=> n = 0
      /\ \A i \in 1..Len(page) : page[i] = f[i]
  BY <1>1, PageIsBeginning
<1>6. RowsIn(f) = S
  <2> HIDE DEF f, n, S
  <2> QED BY <1>4 DEF RowsIn
<1>7. SeqsOf(action)' = S
  BY <1>2 DEF SeqsOf, tamperVars
<1> HIDE DEF f, n, S, page
<1>8. Selected' = S /\ asked' = NewestFirst(S)
  BY <1>2, <1>6 DEF Selected, f
<1>9. query'.limit = limit /\ SeqsOf(query.action)' = S
  <2>1. query'.action = action /\ query'.limit = limit
    BY <1>2
  <2>2. SeqsOf(query.action)' = SeqsOf(action)'
    BY <2>1 DEF SeqsOf
  <2> QED BY <1>7, <2>1, <2>2
<1>10. got' = <<>> => Len(asked') = 0
  BY <1>2, <1>3, <1>4, <1>5
<1> QED BY <1>2, <1>3, <1>4, <1>5, <1>8, <1>9, <1>10 DEF ReadInv

\* A next page is what comes next.
LEMMA ReadingOn ==
  ASSUME TamperInv, ReadInv, ReadOn
  PROVE  ReadInv'
<1> DEFINE k == Len(got)
           page == Page(query, Before)
<1>1. /\ query.reading /\ got # <<>> /\ got' = got \o page
      /\ UNCHANGED <<query, asked, tamperVars>>
  BY DEF ReadOn
<1>2. /\ page \in Seq(Nat) /\ Len(page) \in 0..(Len(asked) - k)
      /\ \A i \in 1..Len(page) : page[i] = asked[k + i]
  BY <1>1, NextPage
<1>3. /\ got \in Seq(Nat) /\ k \in 0..Len(asked) /\ Len(asked) \in Nat /\ k \in Nat \ {0}
      /\ \A i \in 1..k : got[i] = asked[i]
  <2>1. got \in Seq(Nat) /\ k \in 0..Len(asked) /\ \A i \in 1..k : got[i] = asked[i]
    BY <1>1 DEF ReadInv
  <2> QED BY <1>1, <2>1, WhatIsRead
<1> HIDE DEF page, k
<1> DEFINE m == k + Len(page)
<1>4. m \in 0..Len(asked) /\ m \in Nat /\ Len(page) = m - k /\ m # 0 /\ k \in Nat
  BY <1>2, <1>3
<1> HIDE DEF m
<1>5. /\ got \o page \in Seq(Nat) /\ Len(got \o page) = m
      /\ \A i \in 1..k : (got \o page)[i] = got[i]
      /\ \A i \in (k + 1)..m : (got \o page)[i] = page[i - k]
  <2>1. /\ got \in Seq(Nat) /\ page \in Seq(Nat) /\ k \in Nat /\ m \in Nat
        /\ Len(got) = k /\ Len(page) = m - k
    BY <1>2, <1>3, <1>4 DEF k
  <2> QED BY <2>1, Joined
<1>6. ASSUME NEW i \in 1..m PROVE (got \o page)[i] = asked[i]
  <2>1. CASE i \in 1..k
    BY <1>3, <1>5, <2>1
  <2>2. CASE i \in (k + 1)..m
    <3>1. i - k \in 1..Len(page) /\ k + (i - k) = i
      BY <1>4, <2>2
    <3>2. page[i - k] = asked[k + (i - k)]
      BY <1>2, <3>1
    <3>3. (got \o page)[i] = page[i - k]
      BY <1>5, <2>2
    <3> QED BY <3>1, <3>2, <3>3
  <2>3. i \in 1..k \/ i \in (k + 1)..m
    BY <1>4
  <2> QED BY <2>1, <2>2, <2>3
<1>7. got' \in Seq(Nat) /\ Len(got') \in 0..Len(asked) /\ got' # <<>>
      /\ \A i \in 1..Len(got') : got'[i] = asked[i]
  BY <1>1, <1>4, <1>5, <1>6
<1>8. Selected' = Selected /\ SeqsOf(query.action)' = SeqsOf(query.action)
  BY <1>1 DEF Selected, RowsIn, SeqsOf, tamperVars
<1> QED BY <1>1, <1>7, <1>8 DEF ReadInv

\* What is appended meanwhile is above all that was selected.
LEMMA AppendedMeanwhile ==
  ASSUME TamperInv, ReadInv, NEW b, Append1(b), UNCHANGED readVars
  PROVE  ReadInv'
<1> SUFFICES ASSUME query.reading PROVE ReadInv'
  BY DEF ReadInv, readVars
<1> DEFINE n == Len(honest)
           S == SeqsOf(query.action)
           new == NextLink(Org, Tip, b)
<1>1. log = honest /\ log' = Append(log, new) /\ UNCHANGED <<query, got, asked>>
  BY NotYetAltered DEF Append1, TamperInv, readVars
<1>2. /\ n \in Nat /\ DOMAIN log = 1..n /\ log \in Seq(RowsIn(log)) /\ legacy \in 0..n
  BY <1>1, LogIsFunction DEF TamperInv, HonestLog, IsLog
<1>3. \A i \in 1..n : log[i].seq = i
  <2>1. \A i \in (legacy + 1)..n : honest[i].seq = i
    BY HonestRow DEF TamperInv
  <2>2. \A i \in 1..legacy : honest[i].seq = i
    BY DEF TamperInv, HonestLog
  <2> QED BY <1>1, <1>2, <2>1, <2>2
<1>4. new.seq = n + 1
  <2>1. new.seq = Tip.seq + 1
    BY LinkDigest
  <2>2. Tip.seq = n
    <3>1. CASE n = 0
      BY <1>1, <1>2, <3>1 DEF Tip, NoTip
    <3>2. CASE n # 0
      BY <1>1, <1>2, <1>3, <3>2 DEF Tip
    <3> QED BY <3>1, <3>2
  <2> QED BY <2>1, <2>2
<1> HIDE DEF new
<1>5. /\ DOMAIN log' = 1..(n + 1) /\ log'[n + 1] = new
      /\ \A i \in 1..n : log'[i] = log[i]
  <2>1. log \in Seq(RowsIn(log) \cup {new}) /\ Len(log) = n
    BY <1>1, <1>2
  <2> QED BY <1>1, <1>2, <2>1
<1>6. S \subseteq S' /\ S' \subseteq S \cup {n + 1}
  <2>1. query.action' = query.action
    BY <1>1
  <2>2. ASSUME NEW i \in 1..(n + 1), query.action \in {NotGiven, log'[i].body}
        PROVE  log'[i].seq \in S \cup {n + 1}
    <3>1. CASE i = n + 1
      BY <1>4, <1>5, <3>1
    <3>2. CASE i # n + 1
      BY <1>2, <1>5, <2>2, <3>2 DEF SeqsOf
    <3> QED BY <3>1, <3>2
  <2>3. ASSUME NEW i \in 1..n, query.action \in {NotGiven, log[i].body}
        PROVE  log[i].seq \in S'
    <3>1. i \in 1..(n + 1) /\ log'[i] = log[i]
      BY <1>2, <1>5
    <3> QED BY <1>5, <2>1, <2>3, <3>1 DEF SeqsOf
  <2> QED BY <1>2, <1>5, <2>1, <2>2, <2>3 DEF SeqsOf
<1>7. \A t \in S : t < n + 1
  BY <1>2, <1>3 DEF SeqsOf
<1>8. Selected' = Selected /\ Selected \subseteq S
  BY <1>1 DEF Selected, RowsIn, ReadInv
<1>9. \A s \in S' \ Selected : \A t \in Selected : t < s
  BY <1>6, <1>7, <1>8 DEF ReadInv
<1> QED BY <1>1, <1>6, <1>8, <1>9 DEF ReadInv

\* The invariant of reading holds throughout.
THEOREM ReadingInvariant == ReadSpec => [](TamperInv /\ ReadInv)
<1>1. ReadSpec => []TamperInv
  BY ReadingIsPassive, TamperInvariant, PTL
<1>2. ReadInit => ReadInv
  BY DEF ReadInit, ReadInv, Idle
<1>3. ASSUME TamperInv, ReadInv, [ReadNext]_<<tamperVars, readVars>> PROVE ReadInv'
  <2>1. TamperInv /\ ReadInv
    BY <1>3
  <2>2. ASSUME NEW token \in Callers, NEW limit \in Limits \cup {NotGiven},
               NEW action \in Body \cup {NotGiven}, StartReading(token, limit, action)
        PROVE  ReadInv'
    BY <2>2, <2>1, FirstPage
  <2>3. CASE ReadOn
    BY <1>3, <2>3, ReadingOn
  <2>4. CASE StopReading
    BY <2>4 DEF StopReading, ReadInv, Idle
  <2>5. ASSUME NEW b \in Body, Append1(b), UNCHANGED readVars PROVE ReadInv'
    BY <1>3, <2>5, AppendedMeanwhile
  <2>6. CASE ~query.reading /\ UNCHANGED readVars
    BY <2>6 DEF readVars, ReadInv
  <2>7. CASE UNCHANGED <<tamperVars, readVars>>
    <3>1. UNCHANGED <<log, query, got, asked>>
      BY <2>7 DEF readVars, tamperVars
    <3>2. Selected' = Selected /\ SeqsOf(query.action)' = SeqsOf(query.action)
      BY <3>1 DEF Selected, RowsIn, SeqsOf
    <3> QED BY <2>1, <3>1, <3>2 DEF ReadInv
  <2> QED BY <1>3, <2>2, <2>3, <2>4, <2>5, <2>6, <2>7 DEF ReadNext
<1> QED BY <1>1, <1>2, <1>3, PTL DEF ReadSpec

(***************************************************************************)
(* A client that reads backwards is given every entry its query selected   *)
(* when it began, each once and newest first, whatever is appended between *)
(* its pages and whatever page size it asked for.                          *)
(***************************************************************************)
THEOREM PagingIsExact == ReadSpec => []PagingNeitherSkipsNorRepeats
<1>1. ASSUME TamperInv, ReadInv, query.reading
      PROVE  IsPrefix(got, asked) /\ (AtEnd => got = asked)
  <2> DEFINE k == Len(got)
             n == Len(asked)
  <2>1. /\ got \in Seq(Nat) /\ asked \in Seq(Nat) /\ n \in Nat /\ k \in 0..n
        /\ \A i \in 1..k : got[i] = asked[i]
        /\ got = <<>> => n = 0
    BY <1>1, WhatIsRead DEF ReadInv
  <2>2. IsPrefix(got, asked)
    <3>1. SubSeq(got, 1, k) = SubSeq(asked, 1, k)
      BY <2>1
    <3> QED BY <2>1, <3>1 DEF IsPrefix
  <2>3. AtEnd => k = n
    <3>1. CASE got = <<>>
      BY <2>1, <3>1
    <3>2. CASE got # <<>> /\ Page(query, Before) = <<>>
      BY <1>1, <3>2, NextPage
    <3> QED BY <3>1, <3>2 DEF AtEnd
  <2>4. ASSUME k = n PROVE got = asked
    <3>1. /\ got = [i \in 1..k |-> got[i]]
          /\ asked = [i \in 1..n |-> asked[i]]
      BY <2>1
    <3> QED BY <2>1, <2>4, <3>1
  <2> QED BY <2>2, <2>3, <2>4
<1> QED BY <1>1, ReadingInvariant, PTL DEF PagingNeitherSkipsNorRepeats

=============================================================================
