-------------------------- MODULE AuditChainProofs ---------------------------
(***************************************************************************)
(* Theorems about appending to the audit chain, for every number of        *)
(* writers, orgs, entries, legacy rows and attempts, with the advisory     *)
(* lock or without it.                                                     *)
(***************************************************************************)
EXTENDS AuditChain, AuditLogProofs, SequenceTheorems

\* A function on an initial segment of the naturals is a sequence.
LEMMA FunctionIsSeq ==
  ASSUME NEW S, NEW n \in Nat, NEW f \in [1..n -> S]
  PROVE  f \in Seq(S)
OBVIOUS

\* A busy writer knows its org and its entry.
LEMMA CallKnown ==
  ASSUME TypeOK, NEW w \in Writer, pc[w] # "idle"
  PROVE  /\ call[w] \in [org : Org, entry : Entry]
         /\ call[w].org \in Org
         /\ call[w].entry \in Entry
BY DEF TypeOK

\* An org's log is a sequence of its rows.
LEMMA LogIsSeq ==
  ASSUME Shape, NEW o \in Org
  PROVE  /\ log[o] \in Seq(Rows(o))
         /\ Len(log[o]) \in Nat
         /\ DOMAIN log[o] = 1..Len(log[o])
BY LenProperties DEF Shape

\* The tip is the last row: positions are 1, 2, 3, ...
LEMMA TipIsLast ==
  ASSUME Shape, ChainLinked, NEW o \in Org
  PROVE  /\ ReadTip(o) = TipAt(log[o], Len(log[o]))
         /\ ReadTip(o).seq = Len(log[o])
<1> DEFINE n == Len(log[o])
<1>1. log[o] \in Seq(Rows(o)) /\ n \in Nat /\ DOMAIN log[o] = 1..n
  BY LogIsSeq
<1>2. CASE log[o] = <<>>
  <2>1. n = 0
    BY <1>2
  <2> QED BY <1>2, <2>1 DEF ReadTip, TipAt, NoTip
<1>3. CASE log[o] # <<>>
  <2>1. n # 0
    BY <1>1, <1>3, EmptySeq
  <2>2. log[o][n] \in Rows(o) /\ log[o][n].seq = n
    BY <1>1, <2>1 DEF Rows, ChainLinked
  <2>3. \A row \in Rows(o) : \E i \in 1..n : row = log[o][i] /\ row.seq = i
    BY <1>1 DEF Rows, ChainLinked
  <2> DEFINE row == CHOOSE row \in Rows(o) : \A other \in Rows(o) : other.seq <= row.seq
  <2>4. row \in Rows(o) /\ \A other \in Rows(o) : other.seq <= row.seq
    <3>1. \A other \in Rows(o) : other.seq <= log[o][n].seq
      BY <1>1, <2>2, <2>3
    <3> QED BY <2>2, <3>1
  <2>5. row = log[o][n]
    <3>1. PICK i \in 1..n : row = log[o][i] /\ row.seq = i
      BY <2>3, <2>4
    <3>2. n <= i
      BY <2>2, <2>4, <3>1
    <3> QED BY <1>1, <3>1, <3>2
  <2>6. ReadTip(o) = [seq |-> row.seq, entry_hash |-> row.entry_hash]
    BY <1>3 DEF ReadTip
  <2>7. row.seq = n /\ row.entry_hash = log[o][n].entry_hash
    BY <2>2, <2>5
  <2> HIDE DEF row
  <2>8. ReadTip(o) = [seq |-> n, entry_hash |-> log[o][n].entry_hash]
    BY <2>6, <2>7
  <2> QED BY <2>1, <2>8 DEF TipAt
<1> QED BY <1>2, <1>3

(***************************************************************************)
(* What a commit does: the row that follows from the current tip goes on   *)
(* at the end of the org's log.                                            *)
(***************************************************************************)
Appends(w, o, n) ==
  /\ o \in Org /\ n \in Nat
  /\ tip[w] = ReadTip(o)
  /\ log' = [log EXCEPT ![o] = Append(log[o], Link(w))]
  /\ \A u \in Org : u # o => log'[u] = log[u]
  /\ log'[o] \in Seq({log'[o][i] : i \in DOMAIN log'[o]})
  /\ Len(log'[o]) = n + 1 /\ DOMAIN log[o] = 1..n /\ DOMAIN log'[o] = 1..(n + 1)
  /\ \A i \in 1..n : log'[o][i] = log[o][i]
  /\ log'[o][n + 1] = Link(w)
  /\ Link(w).seq = n + 1 /\ Link(w).body = call[w].entry
  /\ Link(w) = NextLink(o, IF n = 0 THEN NoTip ELSE log[o][n], call[w].entry)

\* What a commit adds: one row, the link that follows from the last one.
LEMMA CommitAppends ==
  ASSUME TypeOK, Shape, ChainLinked, TipsKnown, SoleCommitter,
         NEW w \in Writer, Commit(w)
  PROVE  Appends(w, call[w].org, Len(log[call[w].org]))
<1> DEFINE o == call[w].org
           n == Len(log[o])
<1>1. /\ o \in Org /\ n \in Nat /\ log[o] \in Seq(Rows(o)) /\ DOMAIN log[o] = 1..n
  BY CallKnown, LogIsSeq DEF Commit
<1>2. /\ tip[w] = TipAt(log[o], n) /\ tip[w].seq = n /\ tip[w] = ReadTip(o)
  BY <1>1, TipIsLast DEF Commit, TipsKnown, SoleCommitter
<1>3. /\ log' = [log EXCEPT ![o] = Append(log[o], Link(w))]
      /\ log'[o] = Append(log[o], Link(w))
      /\ \A u \in Org : u # o => log'[u] = log[u]
  BY <1>1 DEF Commit, Shape
<1> DEFINE S == Rows(o) \cup {Link(w)}
<1>4. log[o] \in Seq(S) /\ Link(w) \in S
  <2>1. log[o] \in [1..n -> S]
    BY <1>1 DEF Rows
  <2> QED BY <1>1, <2>1
<1>5. /\ Append(log[o], Link(w)) \in Seq(S)
      /\ Len(Append(log[o], Link(w))) = n + 1
      /\ \A i \in 1..n : Append(log[o], Link(w))[i] = log[o][i]
      /\ Append(log[o], Link(w))[n + 1] = Link(w)
  BY <1>4, AppendProperties
<1>6. DOMAIN log'[o] = 1..(n + 1)
  BY <1>3, <1>5, LenProperties
<1>7. log'[o] \in Seq({log'[o][i] : i \in DOMAIN log'[o]})
  <2>1. log'[o] \in [1..(n + 1) -> {log'[o][i] : i \in DOMAIN log'[o]}]
    <3>1. log'[o] \in [1..(n + 1) -> S]
      BY <1>3, <1>5, LenProperties
    <3> QED BY <1>6, <3>1
  <2> QED BY <1>1, <2>1
<1>8. Link(w).seq = n + 1 /\ Link(w).body = call[w].entry
  BY <1>2 DEF Link, NextLink
<1>9. Link(w) = NextLink(o, IF n = 0 THEN NoTip ELSE log[o][n], call[w].entry)
  <2>1. CASE n = 0
    BY <1>2, <2>1 DEF Link, TipAt
  <2>2. CASE n # 0
    <3>1. log[o][n].seq = n
      BY <1>1, <2>2 DEF ChainLinked
    <3> QED BY <1>2, <2>2, <3>1 DEF Link, NextLink, TipAt
  <2> QED BY <2>1, <2>2
<1> HIDE DEF o, n
<1>10. Appends(w, o, n)
  BY <1>1, <1>2, <1>3, <1>5, <1>6, <1>7, <1>8, <1>9 DEF Appends
<1> QED BY <1>10 DEF o, n

-----------------------------------------------------------------------------
(***************************************************************************)
(* The chain.  CoreInv is inductive whether or not the lock exists: the    *)
(* unique index on (org_id, seq) alone keeps the chain from forking.       *)
(***************************************************************************)
CoreInv ==
  /\ TypeOK /\ Shape /\ IdleIsFresh
  /\ ChainLinked /\ TipsKnown /\ SoleCommitter /\ RetriesAreOthersProgress

\* The log changes by a commit only.
LEMMA LogChange == [Next]_vars => UNCHANGED log \/ \E w \in Writer : Commit(w)
BY DEF Next, Step, Record, BeginLocked, BeginUnlocked, Read, Insert, PositionLost,
   Finish, Fail, Drop, vars

\* The ways out of a call.
Leave(w) == Finish(w) \/ Fail(w) \/ Drop(w)

\* Each step keeps the types.
LEMMA TypeStep == CoreInv /\ [Next]_vars => TypeOK'
<1> SUFFICES ASSUME CoreInv, [Next]_vars PROVE TypeOK'
  OBVIOUS
<1> USE DEF CoreInv, TypeOK, InTxn, Outcome
<1>1. ASSUME NEW w \in Writer, NEW o \in Org, NEW e \in Entry, Record(w, o, e)
      PROVE  TypeOK'
  <2>1. [org |-> o, entry |-> e] \in [org : Org, entry : Entry] /\ Len(log[o]) \in Nat
    BY LogIsSeq
  <2> QED BY <1>1, <2>1, ChainAssumption DEF Record, Goto
<1>2. ASSUME NEW w \in Writer, BeginLocked(w) \/ BeginUnlocked(w) \/ Insert(w)
      PROVE  TypeOK'
  BY <1>2, CallKnown DEF BeginLocked, BeginUnlocked, Insert, Goto
<1>3. ASSUME NEW w \in Writer, Read(w) PROVE TypeOK'
  <2>1. ReadTip(call[w].org).seq \in Nat
    BY <1>3, CallKnown, TipIsLast, LogIsSeq DEF Read
  <2> QED BY <1>3, <2>1 DEF Read, Goto, Shape
<1>4. ASSUME NEW w \in Writer, PositionLost(w) \/ Leave(w) PROVE TypeOK'
  <2>1. pc[w] # "idle" /\ log' = log /\ lock' \in [Org -> Writer \cup {None}]
    BY <1>4 DEF PositionLost, Leave, Finish, Fail, Drop, Release
  <2>2. CASE \E out \in Outcome : Return(w, out)
    <3>1. PICK out \in Outcome : Return(w, out)
      BY <2>2
    <3>2. /\ pc' = [pc EXCEPT ![w] = "idle"]
          /\ outcome' = [outcome EXCEPT ![call[w].entry] = out]
          /\ call' = [call EXCEPT ![w] = None]
          /\ tip' = [tip EXCEPT ![w] = NoTip]
          /\ attempts' = [attempts EXCEPT ![w] = 0]
          /\ since' = [since EXCEPT ![w] = 0]
      BY <3>1 DEF Return, Goto
    <3>3. /\ \A v \in Writer : tip'[v].seq \in Nat
          /\ attempts' \in [Writer -> 0..APPEND_ATTEMPTS]
      BY <3>2, ChainAssumption DEF NoTip, Shape
    <3>4. /\ call' \in [Writer -> [org : Org, entry : Entry] \cup {None}]
          /\ \A v \in Writer : call'[v] = None <=> pc'[v] = "idle"
      BY <3>2
    <3> QED BY <2>1, <3>2, <3>3, <3>4
  <2>3. CASE PositionLost(w) /\ attempts[w] + 1 < APPEND_ATTEMPTS
    <3>1. /\ pc' = [pc EXCEPT ![w] = "begin"]
          /\ attempts' = [attempts EXCEPT ![w] = attempts[w] + 1]
          /\ tip' = [tip EXCEPT ![w] = NoTip]
          /\ UNCHANGED <<call, since, outcome>>
      BY <2>3 DEF PositionLost, Goto
    <3>2. \A v \in Writer : tip'[v].seq \in Nat
      BY <3>1 DEF NoTip, Shape
    <3>3. attempts' \in [Writer -> 0..APPEND_ATTEMPTS]
      BY <2>3, <3>1, ChainAssumption
    <3> QED BY <2>1, <3>1, <3>2, <3>3
  <2> QED BY <1>4, <2>2, <2>3 DEF PositionLost, Leave, Finish, Fail, Drop
<1>5. ASSUME NEW w \in Writer, Commit(w) PROVE TypeOK'
  <2>0. /\ Appends(w, call[w].org, Len(log[call[w].org]))
        /\ call[w].entry \in Entry
    BY <1>5, CommitAppends, CallKnown DEF Commit
  <2>1. /\ DOMAIN log' = Org
        /\ \A o \in Org : \A i \in DOMAIN log'[o] :
             log'[o][i].seq \in Nat \ {0} /\ log'[o][i].body \in Entry \cup {LegacyBody}
    <3> SUFFICES ASSUME NEW o \in Org, NEW i \in DOMAIN log'[o]
                 PROVE  /\ log'[o][i].seq \in Nat \ {0}
                        /\ log'[o][i].body \in Entry \cup {LegacyBody}
      BY <1>5 DEF Commit
    <3>1. CASE o = call[w].org
      <4> DEFINE n == Len(log[o])
      <4>1. /\ n \in Nat /\ DOMAIN log[o] = 1..n /\ i \in 1..(n + 1)
            /\ Link(w).seq = n + 1 /\ Link(w).body \in Entry
            /\ log'[o][n + 1] = Link(w)
            /\ \A j \in 1..n : log'[o][j] = log[o][j]
        BY <2>0, <3>1 DEF Appends
      <4> HIDE DEF n
      <4>2. CASE i = n + 1
        BY <4>1, <4>2
      <4>3. CASE i \in 1..n
        BY <4>1, <4>3
      <4> QED BY <4>1, <4>2, <4>3
    <3>2. CASE o # call[w].org
      BY <2>0, <3>2 DEF Appends
    <3> QED BY <3>1, <3>2
  <2> QED BY <1>5, <2>1, CallKnown DEF Commit, Release, Goto
<1>6. ASSUME UNCHANGED vars PROVE TypeOK'
  BY <1>6 DEF vars
<1> QED BY <1>1, <1>2, <1>3, <1>4, <1>5, <1>6 DEF Next, Step, Leave

\* Each step keeps the logs linked: only a commit adds to them.
LEMMA LinkedStep == CoreInv /\ [Next]_vars => Shape' /\ ChainLinked'
<1> SUFFICES ASSUME CoreInv, [Next]_vars PROVE Shape' /\ ChainLinked'
  OBVIOUS
<1> USE DEF CoreInv
<1>1. tip' = [w \in Writer |-> tip'[w]]
  BY DEF Shape, Next, Step, Record, BeginLocked, BeginUnlocked, Read, Insert, PositionLost,
     Commit, Finish, Fail, Drop, Return, vars
<1>2. CASE UNCHANGED log
  BY <1>1, <1>2 DEF Shape, Rows, ChainLinked
<1>3. ASSUME NEW w \in Writer, Commit(w) PROVE Shape' /\ ChainLinked'
  <2> DEFINE o == call[w].org
             n == Len(log[o])
  <2>1. Appends(w, o, n)
    BY <1>3, CommitAppends
  <2> HIDE DEF o, n
  <2>2. o \in Org /\ \A u \in Org : u # o => log'[u] = log[u]
    BY <2>1 DEF Appends
  <2>3. \A u \in Org : log'[u] \in Seq(Rows(u)')
    <3> SUFFICES ASSUME NEW u \in Org
                 PROVE  log'[u] \in Seq({log'[u][i] : i \in DOMAIN log'[u]})
      BY DEF Rows
    <3>1. CASE u = o
      BY <2>1, <3>1 DEF Appends
    <3>2. CASE u # o
      <4>1. log'[u] = log[u]
        BY <2>2, <3>2
      <4>2. log[u] \in Seq({log[u][i] : i \in DOMAIN log[u]})
        BY DEF Shape, Rows
      <4> QED BY <4>1, <4>2
    <3> QED BY <3>1, <3>2
  <2>4. log' = [u \in Org |-> log'[u]]
    BY <2>1 DEF Shape, Appends
  <2>5. ASSUME NEW i \in DOMAIN log'[o]
        PROVE  /\ log'[o][i].seq = i
               /\ i > Legacy[o] => log'[o][i] =
                    NextLink(o, IF i = 1 THEN NoTip ELSE log'[o][i - 1], log'[o][i].body)
    <3>1. CASE i = n + 1
      BY <2>1, <3>1 DEF Appends
    <3>2. CASE i # n + 1
      <4>1. /\ i \in 1..n /\ i \in DOMAIN log[o]
            /\ log'[o][i] = log[o][i]
            /\ i # 1 => log'[o][i - 1] = log[o][i - 1]
        BY <2>1, <2>5, <3>2 DEF Appends
      <4> QED BY <2>2, <4>1 DEF ChainLinked
    <3> QED BY <3>1, <3>2
  <2>6. ChainLinked'
    BY <2>2, <2>5 DEF ChainLinked
  <2> QED BY <1>1, <2>3, <2>4, <2>6 DEF Shape
<1> QED BY <1>2, <1>3, LogChange

\* The log only grows, so a tip that was read stays the row it was.
LEMMA LogGrows ==
  ASSUME CoreInv, [Next]_vars, NEW o \in Org
  PROVE  /\ Len(log[o]) \in Nat /\ Len(log'[o]) \in Nat
         /\ Len(log[o]) <= Len(log'[o])
         /\ \A k \in 0..Len(log[o]) : TipAt(log'[o], k) = TipAt(log[o], k)
<1> USE DEF CoreInv
<1>1. Len(log[o]) \in Nat /\ DOMAIN log[o] = 1..Len(log[o])
  BY LogIsSeq
<1>2. CASE log'[o] = log[o]
  BY <1>1, <1>2 DEF TipAt
<1>3. ASSUME NEW w \in Writer, Commit(w), call[w].org = o
      PROVE  /\ Len(log'[o]) = Len(log[o]) + 1
             /\ \A i \in 1..Len(log[o]) : log'[o][i] = log[o][i]
  BY <1>3, CommitAppends DEF Appends
<1>4. log'[o] = log[o] \/ \E w \in Writer : Commit(w) /\ call[w].org = o
  BY LogChange, CommitAppends DEF Appends
<1> QED BY <1>1, <1>2, <1>3, <1>4 DEF TipAt

\* What a writer holds from its read to its commit.
LEMMA HeldTips ==
  ASSUME CoreInv, [Next]_vars, NEW v \in Writer, pc'[v] \in {"insert", "commit"}
  PROVE  /\ call'[v] = call[v] /\ call[v].org \in Org
         /\ since'[v] = since[v] /\ attempts'[v] = attempts[v]
         /\ pc'[v] = "commit" => pc[v] \in {"insert", "commit"}
         /\ \/ pc[v] \in {"insert", "commit"} /\ tip'[v] = tip[v]
            \/ Read(v)
         /\ pc'[v] = "commit" => pc[v] = "commit" \/ Insert(v)
<1> USE DEF CoreInv
<1>1. /\ pc \in [Writer -> {"idle", "begin", "done"} \cup InTxn]
      /\ call \in [Writer -> [org : Org, entry : Entry] \cup {None}]
      /\ attempts \in [Writer -> 0..APPEND_ATTEMPTS]
      /\ since \in [Writer -> Nat]
      /\ tip = [w \in Writer |-> tip[w]]
  BY DEF TypeOK, Shape
<1>2. \/ /\ pc[v] \in {"insert", "commit"} /\ pc'[v] = pc[v]
         /\ UNCHANGED <<tip[v], call[v], since[v], attempts[v]>>
      \/ Read(v) \/ Insert(v)
  BY <1>1 DEF Next, Step, Record, BeginLocked, BeginUnlocked, Read, Insert, PositionLost,
     Commit, Finish, Fail, Drop, Return, Goto, vars
<1>3. Read(v) => pc[v] = "read" /\ pc'[v] = "insert" /\ UNCHANGED <<call, since, attempts>>
  BY <1>1 DEF Read, Goto
<1>4. Insert(v) => pc[v] = "insert" /\ UNCHANGED <<tip, call, since, attempts>>
  BY DEF Insert
<1>5. pc[v] # "idle" /\ call[v].org \in Org
  BY <1>2, <1>3, <1>4, CallKnown
<1> QED BY <1>2, <1>3, <1>4, <1>5

\* Each step keeps what writers know of the tip true.
LEMMA TipsStep == CoreInv /\ [Next]_vars => TipsKnown'
<1> SUFFICES ASSUME CoreInv, [Next]_vars,
                    NEW v \in Writer, pc'[v] \in {"insert", "commit"}
             PROVE  /\ tip'[v].seq \in 0..Len(log'[call'[v].org])
                    /\ tip'[v] = TipAt(log'[call'[v].org], tip'[v].seq)
                    /\ since'[v] + attempts'[v] <= tip'[v].seq
  BY DEF TipsKnown, TipAt
<1> DEFINE o == call[v].org
<1>1. /\ o \in Org /\ call'[v] = call[v]
      /\ since'[v] = since[v] /\ attempts'[v] = attempts[v]
      /\ since[v] \in Nat /\ attempts[v] \in Nat
  BY HeldTips, ChainAssumption DEF CoreInv, TypeOK
<1>2. CASE pc[v] \in {"insert", "commit"} /\ tip'[v] = tip[v]
  <2>1. /\ tip[v].seq \in 0..Len(log[o])
        /\ tip[v] = TipAt(log[o], tip[v].seq)
        /\ since[v] + attempts[v] <= tip[v].seq
    BY <1>2 DEF CoreInv, TipsKnown
  <2>2. /\ Len(log[o]) \in Nat /\ Len(log'[o]) \in Nat
        /\ Len(log[o]) <= Len(log'[o])
        /\ TipAt(log'[o], tip[v].seq) = TipAt(log[o], tip[v].seq)
    BY <1>1, <2>1, LogGrows
  <2> QED BY <1>1, <1>2, <2>1, <2>2
<1>3. CASE Read(v)
  <2>1. /\ tip'[v] = ReadTip(o) /\ log' = log
        /\ since[v] + attempts[v] <= Len(log[o])
    BY <1>3 DEF Read, CoreInv, Shape, RetriesAreOthersProgress
  <2>2. /\ ReadTip(o) = TipAt(log[o], Len(log[o])) /\ ReadTip(o).seq = Len(log[o])
        /\ Len(log[o]) \in Nat
    BY <1>1, TipIsLast, LogIsSeq DEF CoreInv
  <2> QED BY <1>1, <2>1, <2>2
<1> QED BY <1>2, <1>3, HeldTips

\* Each step keeps at most one writer per org about to commit.
LEMMA CommitterStep == CoreInv /\ [Next]_vars => SoleCommitter'
<1> SUFFICES ASSUME CoreInv, [Next]_vars PROVE SoleCommitter'
  OBVIOUS
<1> USE DEF CoreInv
\* A writer whose insert went through read the row that is still last.
<1>1. ASSUME NEW v \in Writer, Insert(v)
      PROVE  tip[v].seq = Len(log[call[v].org])
  <2> DEFINE o == call[v].org
  <2>1. o \in Org /\ tip[v].seq \in 0..Len(log[o])
    BY <1>1, CallKnown DEF Insert, TipsKnown
  <2>2. Len(log[o]) \in Nat /\ DOMAIN log[o] = 1..Len(log[o])
    BY <2>1, LogIsSeq
  <2>3. tip[v].seq + 1 \notin 1..Len(log[o])
    BY <1>1, <2>1, <2>2 DEF Insert, PositionTaken, ChainLinked
  <2> QED BY <2>1, <2>2, <2>3
<1>2. ASSUME NEW v \in Writer, pc'[v] = "commit"
      PROVE  tip'[v].seq = Len(log'[call'[v].org]) /\ tip'[v] = tip[v]
  <2>1. /\ call'[v] = call[v] /\ call[v].org \in Org /\ tip'[v] = tip[v]
        /\ tip[v].seq = Len(log[call[v].org])
    BY <1>1, <1>2, HeldTips DEF SoleCommitter, Insert, Read
  <2>2. log'[call[v].org] = log[call[v].org]
    <3>1. ASSUME NEW w \in Writer, Commit(w), call[w].org = call[v].org PROVE FALSE
      <4>1. pc[w] = "commit" /\ pc' = [pc EXCEPT ![w] = "done"] /\ w # v
        BY <1>2, <3>1 DEF Commit, Goto, TypeOK
      <4>2. pc[v] = "commit"
        BY <1>2, <4>1 DEF TypeOK
      <4> QED BY <3>1, <4>1, <4>2 DEF SoleCommitter
    <3>2. CASE UNCHANGED log
      BY <3>2
    <3>3. ASSUME NEW w \in Writer, Commit(w) PROVE log'[call[v].org] = log[call[v].org]
      BY <2>1, <3>1, <3>3, CommitAppends DEF Appends
    <3> QED BY <3>2, <3>3, LogChange
  <2> QED BY <2>1, <2>2
<1>3. ASSUME NEW v \in Writer, NEW w \in Writer, v # w, Insert(v), pc[w] = "commit",
             call[v].org = call[w].org
      PROVE  FALSE
  <2>1. tip[v].seq = tip[w].seq
    BY <1>1, <1>3 DEF SoleCommitter
  <2> QED BY <1>3, <2>1 DEF Insert, EntryHeld
<1>4. ASSUME NEW v \in Writer, NEW w \in Writer, pc'[v] = "commit", pc'[w] = "commit",
             call'[v].org = call'[w].org
      PROVE  v = w
  <2>1. call'[v] = call[v] /\ call'[w] = call[w]
    BY <1>4, HeldTips
  <2>2. (pc[v] = "commit" \/ Insert(v)) /\ (pc[w] = "commit" \/ Insert(w))
    BY <1>4, HeldTips
  <2>3. Insert(v) /\ Insert(w) => v = w
    BY <1>4 DEF Insert, Goto, TypeOK
  <2> QED BY <1>3, <1>4, <2>1, <2>2, <2>3 DEF SoleCommitter
<1> QED BY <1>2, <1>4 DEF SoleCommitter

\* Each step keeps the attempts bounded by the appends of others.
LEMMA RetriesStep == CoreInv /\ [Next]_vars => RetriesAreOthersProgress'
<1> SUFFICES ASSUME CoreInv, [Next]_vars, NEW v \in Writer, pc'[v] # "idle"
             PROVE  since'[v] + attempts'[v] <= Len(log'[call'[v].org])
  BY DEF RetriesAreOthersProgress
<1> USE DEF CoreInv
<1>1. /\ pc \in [Writer -> {"idle", "begin", "done"} \cup InTxn]
      /\ call \in [Writer -> [org : Org, entry : Entry] \cup {None}]
      /\ attempts \in [Writer -> Nat]
      /\ since \in [Writer -> Nat]
  BY ChainAssumption DEF TypeOK
<1>2. CASE /\ pc[v] # "idle" /\ UNCHANGED <<call[v], since[v], attempts[v]>>
  <2>1. call[v].org \in Org /\ since[v] + attempts[v] <= Len(log[call[v].org])
    BY <1>2, CallKnown DEF RetriesAreOthersProgress
  <2>2. /\ Len(log[call[v].org]) \in Nat /\ Len(log'[call[v].org]) \in Nat
        /\ Len(log[call[v].org]) <= Len(log'[call[v].org])
    BY <2>1, LogGrows
  <2> QED BY <1>1, <1>2, <2>1, <2>2
<1>3. CASE \E o \in Org, e \in Entry : Record(v, o, e)
  <2>1. PICK o \in Org, e \in Entry : Record(v, o, e)
    BY <1>3
  <2>2. /\ since'[v] = Len(log[o]) /\ call'[v].org = o /\ attempts'[v] = attempts[v]
        /\ log' = log /\ Len(log[o]) \in Nat
    BY <1>1, <2>1, LogIsSeq DEF Record
  <2>3. attempts[v] = 0
    BY <2>1 DEF Record, IdleIsFresh
  <2> QED BY <2>2, <2>3
<1>4. CASE PositionLost(v) /\ attempts[v] + 1 < APPEND_ATTEMPTS
  <2> DEFINE o == call[v].org
  <2>1. /\ o \in Org /\ tip[v].seq \in 0..Len(log[o])
        /\ since[v] + attempts[v] <= tip[v].seq
    BY <1>4, CallKnown DEF PositionLost, TipsKnown
  <2>2. Len(log[o]) \in Nat /\ DOMAIN log[o] = 1..Len(log[o])
    BY <2>1, LogIsSeq
  <2>3. tip[v].seq + 1 \in 1..Len(log[o])
    BY <1>4, <2>1, <2>2 DEF PositionLost, PositionTaken, ChainLinked
  <2>4. /\ attempts'[v] = attempts[v] + 1
        /\ UNCHANGED <<log, call, since>>
    BY <1>1, <1>4 DEF PositionLost
  <2> QED BY <1>1, <2>1, <2>2, <2>3, <2>4
<1>5. \/ /\ pc[v] # "idle" /\ UNCHANGED <<call[v], since[v], attempts[v]>>
      \/ \E o \in Org, e \in Entry : Record(v, o, e)
      \/ PositionLost(v) /\ attempts[v] + 1 < APPEND_ATTEMPTS
  BY <1>1 DEF Next, Step, Record, BeginLocked, BeginUnlocked, Read, Insert, PositionLost,
     Commit, Finish, Fail, Drop, Return, Goto, vars
<1> QED BY <1>2, <1>3, <1>4, <1>5

\* Each step leaves an idle writer without attempts.
LEMMA FreshStep == CoreInv /\ [Next]_vars => IdleIsFresh'
BY DEF CoreInv, TypeOK, IdleIsFresh, Next, Step, Record, BeginLocked, BeginUnlocked, Read,
   Insert, PositionLost, Commit, Finish, Fail, Drop, Return, Goto, vars

\* The core invariant holds initially.
LEMMA CoreInit == Init => CoreInv
<1> SUFFICES ASSUME Init PROVE CoreInv
  OBVIOUS
<1> USE DEF Init
<1>1. \A o \in Org : /\ log[o] = [i \in 1..Legacy[o] |-> LegacyRow(i, LegacyBody)]
                     /\ DOMAIN log[o] = 1..Legacy[o] /\ Legacy[o] \in Nat
  BY ChainAssumption
<1>2. TypeOK
  BY <1>1, ChainAssumption DEF TypeOK, NoTip, Outcome, LegacyRow
<1>3. \A o \in Org : log[o] \in Seq(Rows(o))
  <2> SUFFICES ASSUME NEW o \in Org PROVE log[o] \in Seq(Rows(o))
    OBVIOUS
  <2>1. log[o] \in [1..Legacy[o] -> Rows(o)]
    BY <1>1 DEF Rows
  <2> QED BY <1>1, <2>1, FunctionIsSeq
<1>4. Shape
  BY <1>1, <1>3 DEF Shape
<1>5. ChainLinked
  BY <1>1 DEF ChainLinked, LegacyRow
<1>6. IdleIsFresh /\ TipsKnown /\ SoleCommitter /\ RetriesAreOthersProgress
  BY DEF IdleIsFresh, TipsKnown, SoleCommitter, RetriesAreOthersProgress
<1> QED BY <1>2, <1>4, <1>5, <1>6 DEF CoreInv

\* The core invariant holds in every reachable state.
LEMMA CoreCorrect == Spec => []CoreInv
<1>1. CoreInv /\ [Next]_vars => CoreInv'
  BY TypeStep, LinkedStep, TipsStep, CommitterStep, RetriesStep, FreshStep DEF CoreInv
<1> QED BY <1>1, CoreInit, PTL DEF Spec

\* Every variable keeps its type; attempts stay within APPEND_ATTEMPTS.
THEOREM TypeCorrect == Spec => []TypeOK
BY CoreCorrect, PTL DEF CoreInv

(***************************************************************************)
(* The chain never forks and never skips a position, with the advisory     *)
(* lock or without it, whatever overlaps, fails or is dropped.             *)
(***************************************************************************)
THEOREM ChainNeverForks == Spec => []ChainLinked
BY CoreCorrect, PTL DEF CoreInv

\* Rows that predate the chain stay, and stay without a hash.
LEMMA LegacyStep == CoreInv /\ LegacyUnhashed /\ [Next]_vars => LegacyUnhashed'
<1> SUFFICES ASSUME CoreInv, LegacyUnhashed, [Next]_vars, NEW o \in Org
             PROVE  /\ Legacy[o] <= Len(log'[o])
                    /\ \A i \in 1..Legacy[o] : log'[o][i].entry_hash = NoHash
  BY DEF LegacyUnhashed
<1>1. /\ Len(log[o]) \in Nat /\ Len(log'[o]) \in Nat /\ Len(log[o]) <= Len(log'[o])
      /\ Legacy[o] \in Nat /\ Legacy[o] <= Len(log[o])
  BY LogGrows, ChainAssumption DEF LegacyUnhashed
<1>2. ASSUME NEW i \in 1..Legacy[o] PROVE log'[o][i].entry_hash = NoHash
  <2>1. i \in 0..Len(log[o]) /\ i # 0
    BY <1>1
  <2>2. TipAt(log'[o], i) = TipAt(log[o], i)
    BY <2>1, LogGrows
  <2>3. log'[o][i].entry_hash = log[o][i].entry_hash
    BY <2>1, <2>2 DEF TipAt
  <2> QED BY <2>3 DEF LegacyUnhashed
<1> QED BY <1>1, <1>2

\* In every reachable state.
LEMMA LegacyCorrect == Spec => []LegacyUnhashed
<1>1. Init => LegacyUnhashed
  <2> SUFFICES ASSUME Init, NEW o \in Org
               PROVE  /\ Legacy[o] <= Len(log[o])
                      /\ \A i \in 1..Legacy[o] : log[o][i].entry_hash = NoHash
    BY DEF LegacyUnhashed
  <2>1. log[o] = [i \in 1..Legacy[o] |-> LegacyRow(i, LegacyBody)] /\ Legacy[o] \in Nat
    BY ChainAssumption DEF Init
  <2>2. log[o] \in [1..Legacy[o] -> {LegacyRow(i, LegacyBody) : i \in 1..Legacy[o]}]
    BY <2>1
  <2>3. Len(log[o]) = Legacy[o]
    BY <2>1, <2>2
  <2> QED BY <2>1, <2>3 DEF LegacyRow
<1> QED BY <1>1, LegacyStep, CoreCorrect, PTL DEF Spec

\* What the walk of the verifier finds in a chain that is linked.
LEMMA LinkedVerifies ==
  ASSUME Shape, ChainLinked, LegacyUnhashed, NEW o \in Org
  PROVE  verify_chain(o, log[o]).intact
<1> DEFINE rows == log[o]
           n == Len(rows)
           l == Legacy[o]
<1>1. n \in Nat /\ l \in 0..n /\ DOMAIN rows = 1..n
  BY LogIsSeq, ChainAssumption DEF LegacyUnhashed
<1>2. ASSUME NEW i \in (l + 1)..n
      PROVE  /\ i \in DOMAIN rows /\ rows[i].seq = i /\ i \in Nat \ {0}
             /\ rows[i] = NextLink(o, IF i = 1 THEN NoTip ELSE rows[i - 1], rows[i].body)
  BY <1>1 DEF ChainLinked
<1>3. ASSUME NEW i \in (l + 1)..n
      PROVE  rows[i].entry_hash =
               entry_digest(o, i, rows[i].body, IF i = 1 THEN NoHash ELSE rows[i - 1].entry_hash)
  <2> DEFINE tp == IF i = 1 THEN NoTip ELSE rows[i - 1]
  <2>1. tp.seq + 1 = i
    <3>1. CASE i = 1
      BY <3>1 DEF NoTip
    <3>2. CASE i # 1
      <4>1. i - 1 \in DOMAIN rows /\ rows[i - 1].seq = i - 1
        BY <1>1, <3>2 DEF ChainLinked
      <4> QED BY <1>1, <3>2, <4>1
    <3> QED BY <3>1, <3>2
  <2>2. rows[i].entry_hash = entry_digest(o, tp.seq + 1, rows[i].body, tp.entry_hash)
    BY <1>2, LinkDigest
  <2>3. tp.entry_hash = IF i = 1 THEN NoHash ELSE rows[i - 1].entry_hash
    BY DEF NoTip
  <2> HIDE DEF tp
  <2> QED BY <2>1, <2>2, <2>3
<1>4. Layout(rows, l, n)
  <2>1. \A i \in (l + 1)..n : rows[i].entry_hash # NoHash
    BY <1>3, Digests
  <2> QED BY <1>1, <1>2, <2>1 DEF Layout, LegacyUnhashed
<1>5. ASSUME NEW i \in (l + 1)..n PROVE i \notin Failing(o, rows)
  <2>1. rows[i].seq = i /\ i \in Nat \ {0}
    BY <1>2
  <2>2. i # 1 => i - 1 \in 1..n /\ rows[i - 1].seq = i - 1
    BY <1>1 DEF ChainLinked
  <2>3. i = l + 1 /\ i # 1 => rows[i - 1].entry_hash = NoHash
    <3>1. i = l + 1 /\ i # 1 => i - 1 \in 1..l
      BY <1>1
    <3> QED BY <3>1 DEF LegacyUnhashed
  <2>4. rows[i].entry_hash = expected_hash(o, rows[i],
          IF i = l + 1 THEN NoHash ELSE rows[i - 1].entry_hash)
    BY <1>1, <1>3, <2>1, <2>3 DEF expected_hash
  <2>5. i # l + 1 => rows[i - 1].seq = i - 1
    BY <1>1, <2>2
  <2> HIDE DEF rows, n, l
  <2> QED BY <1>4, <2>1, <2>4, <2>5, LinkPasses
<1>6. Failing(o, rows) = {}
  <2>1. n + 1 \in (l + 1)..(n + 1)
    BY <1>1
  <2>2. Chained(rows) = (l + 1)..n
    BY <1>4, <2>1, WalkAt
  <2> QED BY <1>5, <2>2 DEF Failing
<1> QED BY <1>4, <1>6, WalkPasses

(***************************************************************************)
(* Whatever overlaps, retries, fails or is dropped, the server's own       *)
(* verifier finds the committed log intact.                                *)
(***************************************************************************)
THEOREM ServerVerifiesItsLog == Spec => []ChainVerifies
<1>1. CoreInv /\ LegacyUnhashed => ChainVerifies
  BY LinkedVerifies DEF CoreInv, ChainVerifies
<1> QED BY <1>1, CoreCorrect, LegacyCorrect, PTL

(***************************************************************************)
(* An attempt is lost only to an append of somebody else during the call.  *)
(***************************************************************************)
THEOREM LosingIsProgress == Spec => []RetriesAreOthersProgress
BY CoreCorrect, PTL DEF CoreInv

\* Each step appends a link to the tip, or leaves the log alone.
LEMMA AppendStep ==
  CoreInv /\ [Next]_vars =>
    [\A o \in Org : log'[o] # log[o] =>
       \E e \in Entry : log'[o] = Append(log[o], NextLink(o, ReadTip(o), e))]_log
<1> SUFFICES ASSUME CoreInv, [Next]_vars, NEW o \in Org, log'[o] # log[o]
             PROVE  \E e \in Entry : log'[o] = Append(log[o], NextLink(o, ReadTip(o), e))
  OBVIOUS
<1> USE DEF CoreInv
<1>1. PICK w \in Writer : Commit(w) /\ call[w].org = o
  BY LogChange, CommitAppends DEF Appends
<1>2. /\ log' = [log EXCEPT ![o] = Append(log[o], Link(w))]
      /\ tip[w] = ReadTip(o)
  BY <1>1, CommitAppends DEF Appends
<1>3. Link(w) = NextLink(o, ReadTip(o), call[w].entry)
  BY <1>1, <1>2 DEF Link
<1>4. call[w].entry \in Entry
  BY <1>1, CallKnown DEF Commit
<1> QED BY <1>2, <1>3, <1>4 DEF Shape

(***************************************************************************)
(* Rows are only ever added at the end of an org's log, each the link that *)
(* follows from the tip as it is at that moment.                           *)
(***************************************************************************)
THEOREM LogIsAppendOnly == Spec => AppendOnly
BY AppendStep, CoreCorrect, PTL DEF Spec, AppendOnly

-----------------------------------------------------------------------------
(***************************************************************************)
(* The advisory lock.  It is held by exactly the writer inside the org's   *)
(* transaction, so nobody commits between that writer's read and its       *)
(* commit, and what it read is current.                                    *)
(***************************************************************************)
LockInv == LockHeldInTxn /\ LockMakesReadsCurrent

\* Each step keeps the lock with the writer whose transaction took it.
LEMMA LockStep == CoreInv /\ LockInv /\ [Next]_vars => LockInv'
<1> SUFFICES ASSUME CoreInv, LockInv, AdvisoryLock, [Next]_vars PROVE LockInv'
  BY DEF LockInv, LockHeldInTxn, LockMakesReadsCurrent
<1> USE DEF CoreInv, LockInv
<1>1. LockHeldInTxn'
  <2> USE DEF LockHeldInTxn, InTxn, TypeOK, Goto
  <2>1. ASSUME NEW w \in Writer, NEW o \in Org, NEW e \in Entry, Record(w, o, e)
        PROVE  LockHeldInTxn'
    BY <2>1 DEF Record
  <2>2. ASSUME NEW w \in Writer, BeginLocked(w) PROVE LockHeldInTxn'
    BY <2>2, CallKnown, ChainAssumption DEF BeginLocked
  <2>3. ASSUME NEW w \in Writer, Read(w) \/ Insert(w) PROVE LockHeldInTxn'
    BY <2>3 DEF Read, Insert
  <2>4. ASSUME NEW w \in Writer, Commit(w) \/ PositionLost(w) \/ Fail(w) \/ Drop(w)
        PROVE  LockHeldInTxn'
    <3>1. /\ lock' = [o \in Org |-> IF lock[o] = w THEN None ELSE lock[o]]
          /\ pc'[w] \in {"idle", "begin", "done"}
          /\ \A v \in Writer : v # w => pc'[v] = pc[v] /\ call'[v] = call[v]
      BY <2>4 DEF Commit, PositionLost, Fail, Drop, Release, Return
    <3> QED BY <3>1, ChainAssumption
  <2>5. ASSUME NEW w \in Writer, Finish(w) PROVE LockHeldInTxn'
    <3>1. /\ lock' = lock /\ pc[w] = "done" /\ pc'[w] = "idle"
          /\ \A v \in Writer : v # w => pc'[v] = pc[v] /\ call'[v] = call[v]
      BY <2>5 DEF Finish, Return
    <3> QED BY <3>1
  <2>6. CASE UNCHANGED vars
    BY <2>6 DEF vars
  <2>7. ASSUME NEW w \in Writer, BeginUnlocked(w) PROVE FALSE
    BY <2>7 DEF BeginUnlocked
  <2> QED BY <2>1, <2>2, <2>3, <2>4, <2>5, <2>6, <2>7 DEF Next, Step
<1>2. ASSUME NEW w \in Writer, Commit(w), NEW v \in Writer, v # w, pc[v] \in InTxn
      PROVE  log'[call[v].org] = log[call[v].org]
  <2>1. call[v].org \in Org /\ call[v].org # call[w].org
    BY <1>2, CallKnown DEF Commit, InTxn, LockHeldInTxn
  <2> QED BY <1>2, <2>1, CommitAppends DEF Appends
<1>3. ASSUME NEW v \in Writer, pc'[v] \in {"insert", "commit"}, NEW o, o = call[v].org
      PROVE  tip'[v] = ReadTip(o)' /\ call'[v].org = o
  <2>1. /\ call'[v] = call[v] /\ o \in Org /\ pc[v] \in InTxn
        /\ tip'[v] = ReadTip(o)
    BY <1>3, HeldTips DEF LockMakesReadsCurrent, InTxn, Read, Shape
  <2>2. log'[o] = log[o]
    <3>1. ASSUME NEW w \in Writer, Commit(w) PROVE w # v
      BY <1>3, <3>1 DEF Commit, Goto, TypeOK
    <3> QED BY <1>2, <1>3, <2>1, <3>1, LogChange
  <2>3. ReadTip(o)' = ReadTip(o)
    BY <2>2 DEF ReadTip, Rows
  <2> QED BY <1>3, <2>1, <2>3
<1>4. ASSUME NEW v \in Writer PROVE attempts'[v] = 0
  <2>1. ASSUME PositionLost(v) PROVE FALSE
    <3> DEFINE o == call[v].org
    <3>1. o \in Org /\ tip[v] = ReadTip(o)
      BY <2>1, CallKnown DEF PositionLost, LockMakesReadsCurrent
    <3>2. tip[v].seq = Len(log[o]) /\ Len(log[o]) \in Nat /\ DOMAIN log[o] = 1..Len(log[o])
      BY <3>1, TipIsLast, LogIsSeq
    <3>3. tip[v].seq + 1 \in 1..Len(log[o])
      BY <2>1, <3>1, <3>2 DEF PositionLost, PositionTaken, ChainLinked
    <3> QED BY <3>2, <3>3
  <2>2. attempts[v] = 0 /\ attempts \in [Writer -> 0..APPEND_ATTEMPTS]
    BY DEF LockMakesReadsCurrent, TypeOK
  <2> QED BY <2>1, <2>2 DEF Next, Step, Record, BeginLocked, BeginUnlocked, Read, Insert,
          PositionLost, Commit, Finish, Fail, Drop, Return, vars
<1> QED BY <1>1, <1>3, <1>4 DEF LockMakesReadsCurrent

\* No lock is held initially.
LEMMA LockInit == Init => LockInv
BY ChainAssumption DEF Init, LockInv, LockHeldInTxn, LockMakesReadsCurrent, InTxn

\* The lock invariant holds in every reachable state.
LEMMA LockCorrect == Spec => []LockInv
BY LockInit, LockStep, CoreCorrect, PTL DEF Spec

(***************************************************************************)
(* Where the advisory lock exists every append inserts after the tip as it *)
(* is, so the unique index never refuses one and none is ever retried.     *)
(***************************************************************************)
THEOREM LockSerializes == Spec => []LockMakesReadsCurrent
BY LockCorrect, PTL DEF LockInv

-----------------------------------------------------------------------------
(***************************************************************************)
(* Entries.  A call owns its entry while it runs, and the entry is in the  *)
(* log from the call's commit on and never before: so no retry and no way  *)
(* out of a call records anything twice, or hides that nothing was.        *)
(***************************************************************************)
EntryInv == EntriesTracked /\ RecordedOnce /\ OutcomeIsTrue

\* The places of an entry in the logs are what RecordedIn says.
LEMMA RecordedMembers ==
  ASSUME NEW e
  PROVE  \A a : a \in Recorded(e) <=>
           \E o \in Org : \E i \in DOMAIN log[o] : a = <<o, i>> /\ log[o][i].body = e
BY DEF Recorded, RecordedIn

\* What the log records changes by the committed entry alone.
LEMMA RecordedChange ==
  ASSUME CoreInv, NEW w \in Writer, Commit(w)
  PROVE  \E a : \A e \in Entry :
           RecordedIn(log', e) = IF e = call[w].entry THEN Recorded(e) \cup {a} ELSE Recorded(e)
<1> DEFINE o == call[w].org
           n == Len(log[o])
<1>1. Appends(w, o, n)
  BY CommitAppends DEF CoreInv
<1> HIDE DEF o, n
<1> SUFFICES ASSUME NEW e \in Entry
             PROVE  RecordedIn(log', e) = IF e = call[w].entry THEN Recorded(e) \cup {<<o, n + 1>>}
                                                        ELSE Recorded(e)
  OBVIOUS
<1>2. /\ o \in Org /\ n \in Nat /\ DOMAIN log[o] = 1..n /\ DOMAIN log'[o] = 1..(n + 1)
      /\ \A u \in Org : u # o => log'[u] = log[u]
      /\ \A i \in 1..n : log'[o][i] = log[o][i]
      /\ log'[o][n + 1].body = call[w].entry
  BY <1>1 DEF Appends
<1>3. \A a : a \in RecordedIn(log', e) <=>
        \E u \in Org : \E i \in DOMAIN log'[u] : a = <<u, i>> /\ log'[u][i].body = e
  BY DEF RecordedIn
<1>4. ASSUME NEW u \in Org, NEW i \in DOMAIN log[u]
      PROVE  i \in DOMAIN log'[u] /\ log'[u][i] = log[u][i]
  BY <1>2, <1>4
<1>5. ASSUME NEW u \in Org, NEW i \in DOMAIN log'[u]
      PROVE  \/ u = o /\ i = n + 1
             \/ i \in DOMAIN log[u] /\ log'[u][i] = log[u][i]
  BY <1>2, <1>5
<1>6. n + 1 \in DOMAIN log'[o] /\ n + 1 \notin DOMAIN log[o]
  BY <1>2
<1>7. ASSUME NEW a, a \in RecordedIn(log', e)
      PROVE  a \in Recorded(e) \/ (e = call[w].entry /\ a = <<o, n + 1>>)
  BY <1>2, <1>3, <1>5, <1>7, RecordedMembers
<1>8. ASSUME NEW a, a \in Recorded(e) PROVE a \in RecordedIn(log', e)
  BY <1>3, <1>4, <1>8, RecordedMembers
<1>9. e = call[w].entry => <<o, n + 1>> \in RecordedIn(log', e)
  BY <1>2, <1>3, <1>6
<1> QED BY <1>7, <1>8, <1>9

\* Each step keeps entries recorded once, and outcomes true.
LEMMA EntryStep == CoreInv /\ EntryInv /\ [Next]_vars => EntryInv'
<1> SUFFICES ASSUME CoreInv, EntryInv, [Next]_vars PROVE EntryInv'
  OBVIOUS
<1> USE DEF EntryInv, Recorded
<1>0. /\ pc \in [Writer -> {"idle", "begin", "done"} \cup InTxn]
      /\ call \in [Writer -> [org : Org, entry : Entry] \cup {None}]
      /\ outcome \in [Entry -> Outcome]
  BY DEF CoreInv, TypeOK
<1>1. UNCHANGED log => \A e \in Entry : RecordedIn(log', e) = Recorded(e)
  OBVIOUS
<1>2. ASSUME NEW w \in Writer, NEW o \in Org, NEW e \in Entry, Record(w, o, e)
      PROVE  EntryInv'
  <2>1. /\ outcome[e] = "none" /\ Recorded(e) = {}
        /\ pc' = [pc EXCEPT ![w] = "begin"]
        /\ call' = [call EXCEPT ![w] = [org |-> o, entry |-> e]]
        /\ outcome' = [outcome EXCEPT ![e] = "open"]
        /\ \A x \in Entry : RecordedIn(log', x) = Recorded(x)
    BY <1>1, <1>2 DEF Record, Goto, OutcomeIsTrue
  <2>2. \A v \in Writer : pc[v] # "idle" => call[v].entry # e
    BY <2>1 DEF EntriesTracked
  <2>3. \A v \in Writer : pc[v] # "idle" => call[v].entry \in Entry
    BY CallKnown DEF CoreInv
  <2>4. EntriesTracked'
    BY <1>0, <2>1, <2>2, <2>3 DEF EntriesTracked
  <2> QED BY <1>0, <2>1, <2>4 DEF RecordedOnce, OutcomeIsTrue
<1>3. ASSUME NEW w \in Writer, Commit(w) PROVE EntryInv'
  <2> DEFINE e == call[w].entry
  <2>1. /\ pc[w] = "commit" /\ pc' = [pc EXCEPT ![w] = "done"]
        /\ UNCHANGED <<call, outcome>> /\ e \in Entry
        /\ Recorded(e) = {} /\ outcome[e] = "open"
    BY <1>3, CallKnown DEF Commit, Goto, EntriesTracked, CoreInv
  <2>2. PICK a : \A x \in Entry :
          RecordedIn(log', x) = IF x = e THEN Recorded(x) \cup {a} ELSE Recorded(x)
    BY <1>3, RecordedChange
  <2> HIDE DEF e
  <2>3. RecordedIn(log', e) = {a} /\ \A x \in Entry : x # e => RecordedIn(log', x) = Recorded(x)
    BY <2>1, <2>2
  <2>4. \A v \in Writer : pc[v] # "idle" /\ v # w => call[v].entry \in Entry \ {e}
    BY <2>1, CallKnown DEF e, EntriesTracked, CoreInv
  <2>5. EntriesTracked'
    BY <1>0, <2>1, <2>3, <2>4 DEF e, EntriesTracked
  <2> QED BY <2>1, <2>3, <2>5 DEF RecordedOnce, OutcomeIsTrue
<1>4. ASSUME NEW w \in Writer, NEW out \in Outcome \ {"none"}, pc[w] # "idle", Return(w, out),
             UNCHANGED log,
             out = "appended" => pc[w] = "done", out = "gave_up" => pc[w] # "done"
      PROVE  EntryInv'
  <2>1. /\ pc' = [pc EXCEPT ![w] = "idle"]
        /\ call' = [call EXCEPT ![w] = None]
        /\ outcome' = [outcome EXCEPT ![call[w].entry] = out]
        /\ call[w].entry \in Entry
        /\ \A x \in Entry : RecordedIn(log', x) = Recorded(x)
    BY <1>1, <1>4, CallKnown DEF Return, Goto, CoreInv
  <2>2. \A v \in Writer : pc[v] # "idle" /\ v # w => call[v].entry \in Entry \ {call[w].entry}
    BY <1>4, CallKnown DEF EntriesTracked, CoreInv
  <2>3. EntriesTracked'
    BY <1>0, <2>1, <2>2 DEF EntriesTracked
  <2>4. OutcomeIsTrue'
    BY <1>0, <1>4, <2>1 DEF EntriesTracked, OutcomeIsTrue
  <2> QED BY <2>1, <2>3, <2>4 DEF RecordedOnce
<1>5. ASSUME NEW w \in Writer,
             UNCHANGED <<log, call, outcome>>,
             \E p \in {"begin"} \cup InTxn :
               pc[w] \notin {"idle", "done"} /\ pc' = [pc EXCEPT ![w] = p]
      PROVE  EntryInv'
  <2>1. \A v \in Writer : /\ pc'[v] = "idle" <=> pc[v] = "idle"
                          /\ pc'[v] = "done" <=> pc[v] = "done"
    BY <1>0, <1>5 DEF InTxn
  <2>2. \A v \in Writer : pc[v] # "idle" => call[v].entry \in Entry
    BY CallKnown DEF CoreInv
  <2>3. EntriesTracked'
    BY <1>1, <1>5, <2>1, <2>2 DEF EntriesTracked
  <2> QED BY <1>1, <1>5, <2>3 DEF RecordedOnce, OutcomeIsTrue
<1>6. CASE UNCHANGED vars
  <2>1. \A v \in Writer : pc[v] # "idle" => call[v].entry \in Entry
    BY CallKnown DEF CoreInv
  <2> QED BY <1>1, <1>6, <2>1 DEF vars, EntriesTracked, RecordedOnce, OutcomeIsTrue
<1>7. ASSUME NEW w \in Writer, PositionLost(w) \/ Leave(w) PROVE EntryInv'
  <2>1. CASE PositionLost(w) /\ attempts[w] + 1 < APPEND_ATTEMPTS
    BY <1>5, <2>1 DEF PositionLost, Goto
  <2>2. CASE PositionLost(w) /\ ~(attempts[w] + 1 < APPEND_ATTEMPTS)
    BY <1>4, <2>2 DEF PositionLost, Outcome
  <2>3. CASE Leave(w)
    BY <1>4, <2>3 DEF Leave, Finish, Fail, Drop, Outcome, InTxn
  <2> QED BY <1>7, <2>1, <2>2, <2>3
<1>8. ASSUME NEW w \in Writer,
             BeginLocked(w) \/ BeginUnlocked(w) \/ Read(w) \/ Insert(w)
      PROVE  EntryInv'
  BY <1>5, <1>8 DEF BeginLocked, BeginUnlocked, Read, Insert, Goto, InTxn
<1> QED BY <1>2, <1>3, <1>6, <1>7, <1>8 DEF Next, Step, Leave

\* No entry is recorded initially.
LEMMA EntryInit == Init => EntryInv
<1> SUFFICES ASSUME Init PROVE EntryInv
  OBVIOUS
<1>1. \A e \in Entry : Recorded(e) = {}
  BY ChainAssumption DEF Init, Recorded, RecordedIn, LegacyRow
<1> QED BY <1>1 DEF Init, EntryInv, EntriesTracked, RecordedOnce, OutcomeIsTrue

\* The entry invariant holds in every reachable state.
LEMMA EntryCorrect == Spec => []EntryInv
BY EntryInit, EntryStep, CoreCorrect, PTL DEF Spec

\* No entry is recorded twice.
THEOREM EntriesRecordedOnce == Spec => []RecordedOnce
BY EntryCorrect, PTL DEF EntryInv

(***************************************************************************)
(* A call that returned without a failure has its entry in the log, and    *)
(* one that gave up has not.                                               *)
(***************************************************************************)
THEOREM OutcomesAreTrue == Spec => []OutcomeIsTrue
BY EntryCorrect, PTL DEF EntryInv

\* The inductive invariant: every part of it, at every step.
THEOREM InductiveInvariant == Spec => []IInv
<1>1. CoreInv /\ LegacyUnhashed /\ LockInv /\ EntryInv => IInv
  BY DEF CoreInv, LockInv, EntryInv, IInv
<1> QED BY <1>1, CoreCorrect, LegacyCorrect, LockCorrect, EntryCorrect, PTL
=============================================================================
