--------------------------- MODULE OrgClaimProofs ----------------------------
(***************************************************************************)
(* Theorems about claiming a namespace, for every number of claims,        *)
(* tokens, slugs and replicas, every quota and every collision of lock     *)
(* keys.                                                                   *)
(***************************************************************************)
EXTENDS OrgClaim, FiniteSetTheorems, TLAPS

\* The steps of a claim that move only its program counter and its answer.
Quiet(c) ==
  \/ Authenticate(c) \/ Lookup(c) \/ Guard(c) \/ BeginFails(c) \/ Count(c)
  \/ CommitAnswerLost(c) \/ Respond(c)

\* The steps that end a claim's transaction and change nothing else.
Gone(c) == OverQuota(c) \/ InsertConflicts(c) \/ TxnFails(c) \/ Cancel(c)

\* A running or answered claim has a known token and name.
LEMMA ClaimKnown ==
  ASSUME TypeOK, NEW c \in Claim, pc[c] # "idle" \/ resp[c] # "none"
  PROVE  /\ req[c] \in ClaimRequest
         /\ req[c].token \in Token
         /\ pc[c] \notin {"idle", "auth"} => req[c].slug \in Slug
BY DEF TypeOK, ClaimRequest

\* A quiet step stays outside transactions, or moves from count to insert.
LEMMA QuietMoves ==
  ASSUME NEW c \in Claim, Quiet(c)
  PROVE  /\ UNCHANGED <<owner, lock, held, audit, req>>
         /\ pc[c] # "idle"
         /\ \/ pc[c] = "count" /\ pc' = [pc EXCEPT ![c] = "insert"]
            \/ pc[c] \notin InTxn /\ \E n \in {"idle", "lookup", "guard", "begin"} :
                 pc' = [pc EXCEPT ![c] = n]
BY DEF Quiet, Authenticate, Lookup, Guard, BeginFails, Count, CommitAnswerLost,
   Respond, Continue, Reply, txnVars, InTxn

\* A step that ends a transaction without a commit.
LEMMA GoneMoves ==
  ASSUME TypeOK, NEW c \in Claim, Gone(c)
  PROVE  /\ UNCHANGED <<owner, audit, req>>
         /\ EndTxn(c)
         /\ pc[c] # "idle"
         /\ pc' = [pc EXCEPT ![c] = "idle"]
BY DEF Gone, OverQuota, InsertConflicts, TxnFails, Cancel, Reply, InTxn

\* Every step is of one of these kinds.
LEMMA Kinds ==
  ASSUME [Next]_vars
  PROVE  \/ UNCHANGED vars
         \/ \E c \in Claim, q \in ClaimRequest : Receive(c, q)
         \/ \E c \in Claim : Quiet(c) \/ Gone(c) \/ Begin(c) \/ Insert(c) \/ Commit(c)
                             \/ RecordAudit(c)
         \/ \E s \in Slug : OperatorCreates(s)
BY DEF Next, Progress, Quiet, Gone
-----------------------------------------------------------------------------
\* An answer keeps the control variables typed.
LEMMA ReplyAnswers ==
  ASSUME NEW c \in Claim, Quiet(c) \/ Gone(c)
  PROVE  resp' = resp \/ \E a \in Answer : resp' = [resp EXCEPT ![c] = a]
BY DEF Quiet, Gone, Authenticate, Lookup, Guard, BeginFails, Count, CommitAnswerLost,
   Respond, OverQuota, InsertConflicts, TxnFails, Cancel, Continue, Reply, Answer

\* A claim that leaves "auth" names a well-formed slug.
LEMMA QuietSlug ==
  ASSUME TypeOK, NEW c \in Claim, Quiet(c), pc'[c] \notin {"idle", "auth"}
  PROVE  req[c].slug \in Slug
<1>1. CASE Authenticate(c)
  <2>1. req[c].slug # Malformed
    BY <1>1 DEF Authenticate, Reply, TypeOK
  <2>2. req[c] \in ClaimRequest
    BY <1>1, ClaimKnown DEF Authenticate
  <2> QED BY <2>1, <2>2 DEF ClaimRequest
<1>2. CASE ~Authenticate(c)
  <2>1. pc[c] \notin {"idle", "auth"}
    BY <1>2 DEF Quiet, Lookup, Guard, BeginFails, Count, CommitAnswerLost, Respond
  <2> QED BY <2>1 DEF TypeOK
<1> QED BY <1>1, <1>2

\* Each step keeps the types.
LEMMA TypeStep ==
  ASSUME TypeOK, [Next]_vars PROVE TypeOK'
<1>1. CASE UNCHANGED vars
  BY <1>1 DEF TypeOK, vars, txnVars
<1>2. ASSUME NEW c \in Claim, NEW q \in ClaimRequest, Receive(c, q) PROVE TypeOK'
  BY <1>2, ClaimAssumption DEF Receive, TypeOK, txnVars, ClaimRequest, Answer
<1>3. ASSUME NEW c \in Claim, Quiet(c) PROVE TypeOK'
  <2>1. PICK n \in {"idle", "lookup", "guard", "begin", "insert"} : pc' = [pc EXCEPT ![c] = n]
    BY <1>3, QuietMoves
  <2>2. UNCHANGED <<owner, lock, held, audit, req>> /\ pc[c] # "idle" /\ pc'[c] = n
    BY <1>3, <2>1, QuietMoves DEF TypeOK
  <2>3. pc' \in [Claim -> {"idle", "auth", "lookup", "guard", "begin", "audit", "respond"}
                          \cup InTxn]
    BY <2>1 DEF TypeOK, InTxn
  <2>4. resp' \in [Claim -> Answer]
    BY <1>3, ReplyAnswers DEF TypeOK
  <2>5. \A d \in Claim : d # c => pc'[d] = pc[d] /\ resp'[d] = resp[d]
    BY <1>3, <2>1, ReplyAnswers DEF TypeOK
  <2>6. req[c] # None
    BY <2>2 DEF TypeOK
  <2>7. n \notin {"idle", "auth"} => req[c].slug \in Slug
    BY <1>3, <2>2, QuietSlug
  <2> QED BY <2>2, <2>3, <2>4, <2>5, <2>6, <2>7 DEF TypeOK
<1>4. ASSUME NEW c \in Claim, Gone(c) PROVE TypeOK'
  <2>1. /\ UNCHANGED <<owner, audit, req>> /\ EndTxn(c)
        /\ pc[c] # "idle" /\ pc' = [pc EXCEPT ![c] = "idle"]
    BY <1>4, GoneMoves
  <2>2. resp' \in [Claim -> Answer] /\ \A d \in Claim : d # c => resp'[d] = resp[d]
    BY <1>4, ReplyAnswers DEF TypeOK
  <2>3. pc' \in [Claim -> {"idle", "auth", "lookup", "guard", "begin", "audit", "respond"}
                          \cup InTxn]
    BY <2>1 DEF TypeOK
  <2>4. \A d \in Claim : pc'[d] \in {pc[d], "idle"} /\ (req[d] = None => d # c)
    BY <2>1 DEF TypeOK
  <2>5. lock' \in [LockKey -> Claim \cup {None}] /\ held' \in [Slug -> Claim \cup {None}]
    BY <2>1 DEF TypeOK, EndTxn
  <2> QED BY <2>1, <2>2, <2>3, <2>4, <2>5 DEF TypeOK
<1>5. ASSUME NEW c \in Claim, Begin(c) PROVE TypeOK'
  <2>1. req[c] \in ClaimRequest /\ LockOf[req[c].token] \in LockKey
    BY <1>5, ClaimKnown, ClaimAssumption DEF Begin
  <2> QED BY <1>5, <2>1, ClaimAssumption DEF Begin, TypeOK, Continue, InTxn
<1>6. ASSUME NEW c \in Claim, Insert(c) PROVE TypeOK'
  BY <1>6, ClaimKnown, ClaimAssumption DEF Insert, TypeOK, Continue, InTxn
<1>7. ASSUME NEW c \in Claim, Commit(c) PROVE TypeOK'
  BY <1>7, ClaimKnown, ClaimAssumption DEF Commit, TypeOK, Continue, EndTxn
<1>8. ASSUME NEW c \in Claim, RecordAudit(c) PROVE TypeOK'
  <2>1. /\ pc[c] = "audit" /\ req[c].slug \in Slug /\ req[c].token \in Token
        /\ req[c] \in ClaimRequest
    BY <1>8, ClaimKnown DEF RecordAudit
  <2>2. Append(audit[req[c].slug], req[c].token) \in Seq(Token)
    BY <2>1 DEF TypeOK
  <2>3. audit' \in [Slug -> Seq(Token)]
    BY <1>8, <2>1, <2>2 DEF RecordAudit, TypeOK
  <2> QED BY <1>8, <2>1, <2>3, ClaimAssumption DEF RecordAudit, TypeOK, txnVars, Continue
<1>9. ASSUME NEW s \in Slug, OperatorCreates(s) PROVE TypeOK'
  BY <1>9 DEF OperatorCreates, TypeOK, txnVars
<1> QED BY <1>1, <1>2, <1>3, <1>4, <1>5, <1>6, <1>7, <1>8, <1>9, Kinds

\* The types hold initially.
LEMMA TypeInit == Init => TypeOK
BY ClaimAssumption DEF Init, TypeOK, Answer

(***************************************************************************)
(* Type correctness.                                                       *)
(***************************************************************************)
THEOREM TypeCorrect == Spec => []TypeOK
BY TypeInit, TypeStep, PTL DEF Spec
-----------------------------------------------------------------------------
(***************************************************************************)
(* Mutual exclusion.  A claim in its transaction holds its token's lock,   *)
(* and one about to commit the only uncommitted row of its slug.           *)
(***************************************************************************)
TxnInv ==
  /\ TypeOK
  /\ LockHeldInTxn /\ RowHeldAtCommit /\ FreshAtCommit
  /\ CountedOnlyScoped

\* No transaction is open initially.
LEMMA TxnInit == Init => TxnInv
BY TypeInit, ClaimAssumption
   DEF TxnInv, Init, LockHeldInTxn, RowHeldAtCommit, FreshAtCommit, CountedOnlyScoped, InTxn

\* Two claims inside transactions have different locks, so different tokens.
LEMMA OneClaimPerToken ==
  ASSUME TxnInv, NEW c \in Claim, NEW d \in Claim, pc[c] \in InTxn, pc[d] \in InTxn,
         req[c].token = req[d].token
  PROVE  c = d
<1>1. LockOf[req[c].token] \in LockKey
  BY ClaimKnown, ClaimAssumption DEF TxnInv, InTxn
<1> QED BY <1>1 DEF TxnInv, LockHeldInTxn

\* Each step keeps locks and uncommitted rows with their transactions.
LEMMA TxnStep ==
  ASSUME TxnInv, [Next]_vars PROVE TxnInv'
<1>0. TypeOK /\ TypeOK'
  BY TypeStep DEF TxnInv
<1> USE DEF LockHeldInTxn, RowHeldAtCommit, FreshAtCommit, CountedOnlyScoped
<1>1. CASE UNCHANGED vars
  BY <1>0, <1>1 DEF TxnInv, vars, txnVars
<1>2. ASSUME NEW c \in Claim, NEW q \in ClaimRequest, Receive(c, q) PROVE TxnInv'
  BY <1>0, <1>2 DEF TxnInv, Receive, txnVars, InTxn, TypeOK
<1>3. ASSUME NEW c \in Claim, Quiet(c) PROVE TxnInv'
  <2>1. UNCHANGED <<owner, lock, held, req>>
    BY <1>3, QuietMoves
  <2>2. CASE pc[c] = "count" /\ pc' = [pc EXCEPT ![c] = "insert"]
    BY <1>0, <2>1, <2>2 DEF TxnInv, InTxn, TypeOK
  <2>3. ASSUME pc[c] \notin InTxn, NEW n \in {"idle", "lookup", "guard", "begin"},
               pc' = [pc EXCEPT ![c] = n]
        PROVE  TxnInv'
    BY <1>0, <2>1, <2>3 DEF TxnInv, InTxn, TypeOK
  <2> QED BY <1>3, <2>2, <2>3, QuietMoves
<1>4. ASSUME NEW c \in Claim, Gone(c) PROVE TxnInv'
  <2>1. /\ UNCHANGED <<owner, req>> /\ EndTxn(c) /\ pc' = [pc EXCEPT ![c] = "idle"]
    BY <1>0, <1>4, GoneMoves
  <2> QED BY <1>0, <2>1, ClaimAssumption DEF TxnInv, InTxn, TypeOK, EndTxn
<1>5. ASSUME NEW c \in Claim, Begin(c) PROVE TxnInv'
  <2>1. pc[c] = "begin" /\ LockOf[req[c].token] \in LockKey
    BY <1>0, <1>5, ClaimKnown, ClaimAssumption DEF Begin
  <2> QED BY <1>0, <1>5, <2>1, ClaimAssumption DEF TxnInv, Begin, Continue, InTxn, TypeOK
<1>6. ASSUME NEW c \in Claim, Insert(c) PROVE TxnInv'
  <2>1. pc[c] = "insert" /\ req[c].slug \in Slug
    BY <1>0, <1>6, ClaimKnown DEF Insert
  <2> QED BY <1>0, <1>6, <2>1, ClaimAssumption DEF TxnInv, Insert, Continue, InTxn, TypeOK
<1>7. ASSUME NEW c \in Claim, Commit(c) PROVE TxnInv'
  <2>1. pc[c] = "commit" /\ req[c].slug \in Slug
    BY <1>0, <1>7, ClaimKnown DEF Commit
  <2>2. \A d \in Claim : pc[d] = "commit" /\ req[d].slug = req[c].slug => d = c
    BY <2>1 DEF TxnInv
  <2> QED BY <1>0, <1>7, <2>1, <2>2, ClaimAssumption
          DEF TxnInv, Commit, Continue, EndTxn, InTxn, TypeOK
<1>8. ASSUME NEW c \in Claim, RecordAudit(c) PROVE TxnInv'
  BY <1>0, <1>8 DEF TxnInv, RecordAudit, Continue, txnVars, InTxn, TypeOK
<1>9. ASSUME NEW s \in Slug, OperatorCreates(s) PROVE TxnInv'
  BY <1>0, <1>9, ClaimAssumption DEF TxnInv, OperatorCreates, txnVars, InTxn, TypeOK
<1> QED BY <1>1, <1>2, <1>3, <1>4, <1>5, <1>6, <1>7, <1>8, <1>9, Kinds
-----------------------------------------------------------------------------
(***************************************************************************)
(* The quota.  A claim that passed the count stays under quota until it    *)
(* commits, because a commit by the same token would need the same lock.   *)
(***************************************************************************)
QuotaInv == TxnInv /\ UnderQuota /\ QuotaRespected

\* The set of a token's orgs is finite, and grows by one org at a time.
LEMMA ClaimedFinite ==
  ASSUME NEW t \in Token
  PROVE  IsFiniteSet(ClaimedBy(t)) /\ Cardinality(ClaimedBy(t)) \in Nat
<1>1. ClaimedBy(t) \in SUBSET Slug
  BY DEF ClaimedBy
<1> QED BY <1>1, FS_Subset, FS_CardinalityType, ClaimAssumption

\* A new owner adds the org to his own set and to nobody else's.
LEMMA ClaimedMoves ==
  ASSUME TypeOK, NEW s \in Slug, NEW u, owner[s] = None, owner' = [owner EXCEPT ![s] = u],
         NEW t \in Token
  PROVE  /\ t # u => ClaimedBy(t)' = ClaimedBy(t)
         /\ t = u => Cardinality(ClaimedBy(t)') = Cardinality(ClaimedBy(t)) + 1
<1>1. s \notin ClaimedBy(t)
  BY ClaimAssumption DEF ClaimedBy
<1>2. t # u => ClaimedBy(t)' = ClaimedBy(t)
  BY ClaimAssumption DEF ClaimedBy, TypeOK
<1>3. t = u => ClaimedBy(t)' = ClaimedBy(t) \cup {s}
  BY DEF ClaimedBy, TypeOK
<1> QED BY <1>1, <1>2, <1>3, ClaimedFinite, FS_AddElement

\* No scoped token owns an org initially.
LEMMA QuotaInit == Init => QuotaInv
<1> SUFFICES ASSUME Init PROVE QuotaInv
  OBVIOUS
<1>1. \A t \in Token : ClaimedBy(t) = {}
  BY ClaimAssumption DEF Init, ClaimedBy
<1>2. QuotaRespected
  BY <1>1, FS_EmptySet, ClaimAssumption DEF QuotaRespected
<1>3. UnderQuota
  BY DEF Init, UnderQuota
<1> QED BY <1>2, <1>3, TxnInit DEF QuotaInv

\* Each step keeps the quota; a commit uses the place its count found.
LEMMA QuotaStep ==
  ASSUME QuotaInv, [Next]_vars PROVE QuotaInv'
<1>0. TypeOK /\ TxnInv /\ TxnInv' /\ UnderQuota /\ QuotaRespected
  BY TxnStep DEF QuotaInv, TxnInv
\* A step that leaves the orgs alone and takes no claim past the count.
<1>1. ASSUME UNCHANGED owner,
             \A c \in Claim : pc'[c] \in {"insert", "commit"} /\ Scoped(req'[c].token) =>
               /\ req'[c] = req[c]
               /\ \/ pc[c] \in {"insert", "commit"}
                  \/ Cardinality(ClaimedBy(req[c].token)) < MaxOrgs
      PROVE  QuotaInv'
  <2>1. \A t : ClaimedBy(t)' = ClaimedBy(t)
    BY <1>1 DEF ClaimedBy
  <2>2. UnderQuota'
    BY <1>0, <1>1, <2>1 DEF UnderQuota
  <2>3. QuotaRespected'
    BY <1>0, <2>1 DEF QuotaRespected
  <2> QED BY <1>0, <2>2, <2>3 DEF QuotaInv
<1>2. CASE UNCHANGED vars
  BY <1>1, <1>2 DEF vars
<1>3. ASSUME NEW c \in Claim, NEW q \in ClaimRequest, Receive(c, q) PROVE QuotaInv'
  BY <1>0, <1>1, <1>3 DEF Receive, TypeOK
<1>4. ASSUME NEW c \in Claim, Quiet(c) PROVE QuotaInv'
  <2>1. CASE Count(c)
    BY <1>0, <1>1, <2>1 DEF Count, Continue, TypeOK
  <2>2. CASE ~Count(c)
    <3>1. pc[c] # "count"
      BY <1>4, <2>2 DEF Quiet, Authenticate, Lookup, Guard, BeginFails, CommitAnswerLost, Respond
    <3> QED BY <1>0, <1>1, <1>4, <3>1, QuietMoves DEF TypeOK
  <2> QED BY <2>1, <2>2
<1>5. ASSUME NEW c \in Claim, Gone(c) PROVE QuotaInv'
  BY <1>0, <1>1, <1>5, GoneMoves DEF TypeOK
<1>6. ASSUME NEW c \in Claim, Begin(c) PROVE QuotaInv'
  BY <1>0, <1>1, <1>6 DEF Begin, Continue, TypeOK
<1>7. ASSUME NEW c \in Claim, Insert(c) \/ RecordAudit(c) PROVE QuotaInv'
  BY <1>0, <1>1, <1>7 DEF Insert, RecordAudit, Continue, TypeOK
<1>8. ASSUME NEW c \in Claim, Commit(c) PROVE QuotaInv'
  <2> DEFINE t == req[c].token
             s == req[c].slug
  <2>1. /\ pc[c] = "commit" /\ t \in Token /\ s \in Slug /\ owner[s] = None
        /\ owner' = [owner EXCEPT ![s] = t] /\ UNCHANGED req
        /\ pc' = [pc EXCEPT ![c] = "audit"]
    BY <1>0, <1>8, ClaimKnown DEF TxnInv, FreshAtCommit, Commit, Continue
  <2>2. \A u \in Token : u # t => ClaimedBy(u)' = ClaimedBy(u)
    BY <1>0, <2>1, ClaimedMoves
  <2>3. Cardinality(ClaimedBy(t)') = Cardinality(ClaimedBy(t)) + 1
    BY <1>0, <2>1, ClaimedMoves
  <2>4. Scoped(t) => Cardinality(ClaimedBy(t)) < MaxOrgs
    BY <1>0, <2>1 DEF UnderQuota
  <2>5. QuotaRespected'
    <3> SUFFICES ASSUME NEW u \in Token, Scoped(u)
                 PROVE  Cardinality(ClaimedBy(u)') <= MaxOrgs
      BY DEF QuotaRespected, Scoped
    <3>1. CASE u = t
      BY <2>1, <2>3, <2>4, <3>1, ClaimedFinite, ClaimAssumption
    <3>2. CASE u # t
      BY <1>0, <2>2, <3>2 DEF QuotaRespected
    <3> QED BY <3>1, <3>2
  <2>6. UnderQuota'
    <3> SUFFICES ASSUME NEW d \in Claim, pc'[d] \in {"insert", "commit"},
                        Scoped(req[d].token)
                 PROVE  Cardinality(ClaimedBy(req[d].token))' < MaxOrgs
      BY <2>1 DEF UnderQuota, Scoped
    <3>0. req' = req
      BY <2>1
    <3>1. d # c /\ pc[d] \in {"insert", "commit"}
      BY <1>0, <2>1 DEF TypeOK
    <3>2. req[d].token \in Token
      BY <1>0, <3>1, ClaimKnown
    <3>3. req[d].token # t
      BY <1>0, <2>1, <3>1, OneClaimPerToken DEF InTxn
    <3>4. Cardinality(ClaimedBy(req[d].token)) < MaxOrgs
      BY <1>0, <3>1 DEF UnderQuota
    <3>5. ClaimedBy(req[d].token)' = ClaimedBy(req[d].token)
      BY <2>2, <3>0, <3>2, <3>3 DEF ClaimedBy
    <3> QED BY <3>4, <3>5
  <2> QED BY <1>0, <2>5, <2>6 DEF QuotaInv
<1>9. ASSUME NEW s \in Slug, OperatorCreates(s) PROVE QuotaInv'
  <2>0. UNCHANGED <<pc, req>>
    BY <1>9 DEF OperatorCreates
  <2>1. \A t \in Token : ClaimedBy(t)' = ClaimedBy(t)
    BY <1>0, <1>9, ClaimedMoves, ClaimAssumption DEF OperatorCreates
  <2>2. UnderQuota'
    <3> SUFFICES ASSUME NEW d \in Claim, pc[d] \in {"insert", "commit"},
                        Scoped(req[d].token)
                 PROVE  Cardinality(ClaimedBy(req[d].token))' < MaxOrgs
      BY <2>0 DEF UnderQuota, Scoped
    <3>1. req[d].token \in Token
      BY <1>0, ClaimKnown
    <3>2. ClaimedBy(req[d].token)' = ClaimedBy(req[d].token)
      BY <2>0, <2>1, <3>1 DEF ClaimedBy
    <3> QED BY <1>0, <3>2 DEF UnderQuota
  <2>3. QuotaRespected'
    BY <1>0, <2>1 DEF QuotaRespected, Scoped
  <2> QED BY <1>0, <2>2, <2>3 DEF QuotaInv
<1> QED BY <1>2, <1>3, <1>4, <1>5, <1>6, <1>7, <1>8, <1>9, Kinds

(***************************************************************************)
(* No interleaving of claims gives a scoped token more orgs than its       *)
(* quota, although no index bounds them.                                   *)
(***************************************************************************)
THEOREM QuotaHolds == Spec => []QuotaRespected
<1>1. QuotaInv => QuotaRespected
  BY DEF QuotaInv
<1> QED BY <1>1, QuotaInit, QuotaStep, PTL DEF Spec
-----------------------------------------------------------------------------
\* An org that is there keeps its owner through every step.
LEMMA OwnerKept ==
  ASSUME TxnInv, [Next]_vars, NEW s \in Slug, owner[s] # None
  PROVE  owner'[s] = owner[s]
<1>1. ASSUME NEW c \in Claim, Quiet(c) \/ Gone(c) PROVE owner'[s] = owner[s]
  BY <1>1, QuietMoves, GoneMoves DEF TxnInv
<1>2. ASSUME NEW c \in Claim, Commit(c) PROVE owner'[s] = owner[s]
  BY <1>2 DEF TxnInv, FreshAtCommit, Commit, TypeOK
<1>3. CASE UNCHANGED owner
  BY <1>3
<1>4. ASSUME NEW u \in Slug, OperatorCreates(u) PROVE owner'[s] = owner[s]
  BY <1>4 DEF OperatorCreates
<1> QED BY <1>1, <1>2, <1>3, <1>4, Kinds DEF vars, Receive, Begin, Insert, RecordAudit

(***************************************************************************)
(* A claimed namespace is never taken over.                                *)
(***************************************************************************)
THEOREM NamespacesKeepOwner == Spec => OwnerForGood
<1>1. TxnInv /\ [Next]_vars => [\A s \in Slug : owner[s] # None => owner'[s] = owner[s]]_owner
  BY OwnerKept
<1> QED BY <1>1, TxnInit, TxnStep, PTL DEF Spec, OwnerForGood

\* So a token's orgs are never fewer than they were.
LEMMA ClaimedGrows ==
  ASSUME TxnInv, [Next]_vars, NEW t \in Token
  PROVE  /\ Cardinality(ClaimedBy(t)) \in Nat /\ Cardinality(ClaimedBy(t)') \in Nat
         /\ Cardinality(ClaimedBy(t)) <= Cardinality(ClaimedBy(t)')
<1>1. ClaimedBy(t) \in SUBSET (ClaimedBy(t)')
  BY OwnerKept, ClaimAssumption DEF ClaimedBy
<1>2. ClaimedBy(t)' \in SUBSET Slug
  BY DEF ClaimedBy
<1>3. IsFiniteSet(ClaimedBy(t)')
  BY <1>2, FS_Subset, ClaimAssumption
<1> QED BY <1>1, <1>3, FS_Subset, FS_CardinalityType, ClaimedFinite

(***************************************************************************)
(* Outcomes: what a claim is told and what the trail says of it.           *)
(***************************************************************************)
LEMMA OutcomeInit == Init => IInv
BY QuotaInit, ClaimAssumption
   DEF QuotaInv, TxnInv, IInv, Init, SoleAuditor, TrailNamesOwner, AnswersAreTrue

\* Truth(c, a): the answer a would be true of claim c.
Truth(c, a) ==
  LET t == req[c].token  s == req[c].slug IN
    /\ a \in {"created", "org_taken", "already_yours", "org_quota_exceeded"} => s \in Slug
    /\ a = "created" => owner[s] = t
    /\ a = "org_taken" => owner[s] # None
    /\ a = "already_yours" => owner[s] # None /\ Scope[t] = s
    /\ a = "org_quota_exceeded" => Scoped(t) /\ Cardinality(ClaimedBy(t)) >= MaxOrgs

\* An answer that was true stays true.
LEMMA TruthKept ==
  ASSUME TxnInv, [Next]_vars, NEW c \in Claim, req[c].token \in Token, req'[c] = req[c],
         NEW a, Truth(c, a)
  PROVE  Truth(c, a)'
<1> DEFINE t == req[c].token
           s == req[c].slug
<1>1. /\ a = "created" => owner'[s] = t
      /\ a \in {"org_taken", "already_yours"} => owner'[s] # None
  BY OwnerKept, ClaimAssumption DEF Truth
<1>2. a = "org_quota_exceeded" => Scoped(t) /\ Cardinality(ClaimedBy(t)') >= MaxOrgs
  <2>1. Cardinality(ClaimedBy(t)) >= MaxOrgs => Cardinality(ClaimedBy(t)') >= MaxOrgs
    BY ClaimedGrows, ClaimAssumption
  <2> QED BY <2>1 DEF Truth
<1>3. ClaimedBy(t)' = ClaimedBy(req[c].token)'
  BY DEF ClaimedBy
<1> QED BY <1>1, <1>2, <1>3 DEF Truth, Scoped

\* Each step that answers gives an answer that is true before the step.
LEMMA AnswersWhenTrue ==
  ASSUME IInv, [Next]_vars, NEW c \in Claim, resp'[c] # resp[c] \/ req'[c] # req[c]
  PROVE  resp'[c] = "none" \/ (req'[c] = req[c] /\ pc[c] # "idle" /\ Truth(c, resp'[c]))
<1>0. TypeOK /\ SoleAuditor /\ CountedOnlyScoped
  BY DEF IInv
<1>1. CASE UNCHANGED vars
  BY <1>1 DEF vars
<1>2. ASSUME NEW d \in Claim, NEW q \in ClaimRequest, Receive(d, q)
      PROVE  resp'[c] = "none" \/ (resp'[c] = resp[c] /\ req'[c] = req[c])
  BY <1>0, <1>2 DEF Receive, TypeOK
<1>3. ASSUME NEW d \in Claim, Quiet(d) \/ Gone(d)
      PROVE  req'[c] = req[c] /\ (resp'[c] # resp[c] => pc[c] # "idle" /\ Truth(c, resp'[c]))
  <2>1. req' = req /\ pc[d] # "idle" /\ (c # d => resp'[c] = resp[c])
    BY <1>0, <1>3, QuietMoves, GoneMoves, ReplyAnswers DEF TypeOK
  <2> SUFFICES ASSUME c = d, resp'[c] # resp[c] PROVE Truth(c, resp'[c])
    BY <2>1
  <2> USE <1>0
  <2>2. CASE Authenticate(c) \/ BeginFails(c) \/ CommitAnswerLost(c) \/ TxnFails(c) \/ Cancel(c)
    BY <2>2 DEF Authenticate, BeginFails, CommitAnswerLost, TxnFails, Cancel, Reply,
       Continue, Truth, TypeOK
  <2>3. CASE Guard(c) \/ Count(c)
    BY <2>3 DEF Guard, Count, Continue
  <2>4. CASE Lookup(c)
    BY <2>4 DEF Lookup, Reply, Continue, Truth, TypeOK
  <2>5. CASE Respond(c)
    BY <2>5 DEF Respond, Reply, Truth, TypeOK, SoleAuditor
  <2>6. CASE InsertConflicts(c)
    BY <2>6 DEF InsertConflicts, Reply, Truth, TypeOK
  <2>7. CASE OverQuota(c)
    BY <2>7 DEF OverQuota, Reply, Truth, TypeOK, CountedOnlyScoped
  <2> QED BY <1>3, <2>2, <2>3, <2>4, <2>5, <2>6, <2>7 DEF Quiet, Gone
<1>4. ASSUME NEW d \in Claim, Begin(d) \/ Insert(d) \/ Commit(d) \/ RecordAudit(d)
      PROVE  UNCHANGED <<req, resp>>
  BY <1>4 DEF Begin, Insert, Commit, RecordAudit, Continue
<1>5. ASSUME NEW s \in Slug, OperatorCreates(s) PROVE UNCHANGED <<req, resp>>
  BY <1>5 DEF OperatorCreates
<1> QED BY <1>1, <1>2, <1>3, <1>4, <1>5, Kinds

\* Each step keeps the answers true.
LEMMA AnswerStep ==
  ASSUME IInv, [Next]_vars PROVE AnswersAreTrue'
<1>0. TypeOK /\ TxnInv /\ AnswersAreTrue
  BY DEF IInv, TxnInv
<1> SUFFICES ASSUME NEW c \in Claim PROVE Truth(c, resp[c])'
  BY DEF AnswersAreTrue, Truth
<1>1. CASE resp'[c] = "none"
  BY <1>1 DEF Truth
<1>2. CASE resp'[c] # "none"
  <2> SUFFICES ASSUME NEW a, resp'[c] = a PROVE Truth(c, resp[c])'
    OBVIOUS
  <2>1. req'[c] = req[c] /\ req[c].token \in Token /\ Truth(c, a)
    <3>1. CASE resp'[c] = resp[c] /\ req'[c] = req[c]
      BY <1>0, <1>2, <3>1, ClaimKnown DEF AnswersAreTrue, Truth
    <3>2. CASE ~(resp'[c] = resp[c] /\ req'[c] = req[c])
      BY <1>0, <1>2, <3>2, AnswersWhenTrue, ClaimKnown
    <3> QED BY <3>1, <3>2
  <2>2. Truth(c, a)'
    BY <1>0, <2>1, TruthKept
  <2> QED BY <2>2 DEF Truth
<1> QED BY <1>1, <1>2

\* One auditor for an org, and an entry that names its owner.
LEMMA TrailStep ==
  ASSUME IInv, [Next]_vars PROVE SoleAuditor' /\ TrailNamesOwner'
<1>0. TypeOK /\ TxnInv /\ SoleAuditor /\ TrailNamesOwner /\ FreshAtCommit
  BY DEF IInv, TxnInv
<1> USE DEF SoleAuditor, TrailNamesOwner
<1>1. \A c \in Claim : pc[c] \in {"audit", "respond"} =>
        req[c].slug \in Slug /\ owner[req[c].slug] # None
  BY <1>0, ClaimKnown, ClaimAssumption
\* A step that writes no audit entry and lets nobody past the commit.
<1>2. ASSUME UNCHANGED audit,
             \A c \in Claim : pc'[c] \in {"audit", "respond"} => pc'[c] = pc[c] /\ req'[c] = req[c]
      PROVE  SoleAuditor' /\ TrailNamesOwner'
  <2>1. \A s \in Slug : owner[s] # None => owner'[s] = owner[s]
    BY <1>0, OwnerKept
  <2>2. \A s \in Slug : audit[s] # <<>> => owner[s] # None
    <3> SUFFICES ASSUME NEW s \in Slug, audit[s] # <<>>, owner[s] = None PROVE FALSE
      OBVIOUS
    <3>1. audit[s] = <<None>> /\ audit[s] \in Seq(Token)
      BY <1>0 DEF TypeOK
    <3>2. audit[s][1] \in Token
      BY <3>1
    <3> QED BY <3>1, <3>2, ClaimAssumption
  <2> QED BY <1>0, <1>1, <1>2, <2>1, <2>2
<1>3. CASE UNCHANGED vars
  BY <1>2, <1>3 DEF vars
<1>4. ASSUME NEW c \in Claim, NEW q \in ClaimRequest, Receive(c, q)
      PROVE  SoleAuditor' /\ TrailNamesOwner'
  BY <1>0, <1>2, <1>4 DEF Receive, TypeOK
<1>5. ASSUME NEW c \in Claim, Quiet(c) \/ Gone(c) PROVE SoleAuditor' /\ TrailNamesOwner'
  BY <1>0, <1>2, <1>5, QuietMoves, GoneMoves DEF TypeOK
<1>6. ASSUME NEW c \in Claim, Begin(c) \/ Insert(c) PROVE SoleAuditor' /\ TrailNamesOwner'
  BY <1>0, <1>2, <1>6 DEF Begin, Insert, Continue, TypeOK
<1>7. ASSUME NEW s \in Slug, OperatorCreates(s) PROVE SoleAuditor' /\ TrailNamesOwner'
  BY <1>0, <1>2, <1>7 DEF OperatorCreates
<1>8. ASSUME NEW c \in Claim, Commit(c) PROVE SoleAuditor' /\ TrailNamesOwner'
  <2> DEFINE s == req[c].slug
  <2>1. /\ pc[c] = "commit" /\ s \in Slug /\ owner[s] = None /\ req[c].token \in Token
        /\ owner' = [owner EXCEPT ![s] = req[c].token] /\ UNCHANGED <<req, audit>>
        /\ pc' = [pc EXCEPT ![c] = "audit"]
    BY <1>0, <1>8, ClaimKnown DEF FreshAtCommit, Commit, Continue
  <2>2. audit[s] = <<>>
    <3> SUFFICES ASSUME audit[s] # <<>> PROVE FALSE
      OBVIOUS
    <3>1. audit[s] = <<None>> /\ audit[s] \in Seq(Token)
      BY <1>0, <2>1 DEF TypeOK
    <3>2. audit[s][1] \in Token
      BY <3>1
    <3> QED BY <3>1, <3>2, ClaimAssumption
  <2>3. \A d \in Claim : pc[d] \in {"audit", "respond"} => req[d].slug # s
    BY <1>1, <2>1
  <2> QED BY <1>0, <2>1, <2>2, <2>3 DEF TypeOK
<1>9. ASSUME NEW c \in Claim, RecordAudit(c) PROVE SoleAuditor' /\ TrailNamesOwner'
  <2> DEFINE s == req[c].slug
             t == req[c].token
  <2>1. /\ pc[c] = "audit" /\ s \in Slug /\ t \in Token /\ owner[s] = t /\ audit[s] = <<>>
        /\ UNCHANGED <<owner, req>> /\ pc' = [pc EXCEPT ![c] = "respond"]
        /\ UNCHANGED audit \/ audit' = [audit EXCEPT ![s] = Append(audit[s], t)]
    BY <1>0, <1>9, ClaimKnown DEF RecordAudit, Continue, txnVars
  <2>2. Append(audit[s], t) = <<t>>
    BY <2>1
  <2> QED BY <1>0, <2>1, <2>2 DEF TypeOK
<1> QED BY <1>3, <1>4, <1>5, <1>6, <1>7, <1>8, <1>9, Kinds

\* Each step keeps the inductive invariant.
LEMMA OutcomeStep ==
  ASSUME IInv, [Next]_vars PROVE IInv'
BY QuotaStep, AnswerStep, TrailStep DEF IInv, QuotaInv, TxnInv

(***************************************************************************)
(* The inductive invariant of claiming.                                    *)
(***************************************************************************)
THEOREM InductiveInvariant == Spec => []IInv
BY OutcomeInit, OutcomeStep, PTL DEF Spec

(***************************************************************************)
(* What a claim is told is true of the orgs, and stays true.               *)
(***************************************************************************)
THEOREM ClaimsAnsweredTruly == Spec => []AnswersAreTrue
<1>1. IInv => AnswersAreTrue
  BY DEF IInv
<1> QED BY <1>1, InductiveInvariant, PTL

(***************************************************************************)
(* The trail has at most one claim entry for an org, by its owner.         *)
(***************************************************************************)
THEOREM TrailShowsOwner == Spec => []TrailNamesOwner
<1>1. IInv => TrailNamesOwner
  BY DEF IInv
<1> QED BY <1>1, InductiveInvariant, PTL
=============================================================================
