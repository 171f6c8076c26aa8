---------------------------- MODULE PublishProofs ----------------------------
(***************************************************************************)
(* Theorems about the publish pipeline, for every number of requests,      *)
(* packages, versions, tokens and artifacts.                               *)
(***************************************************************************)
EXTENDS Publish, FiniteLemmas, TLAPS

\* Going on to the next await keeps the request variables typed.
LEMMA ContinueType ==
  ASSUME RequestTypeOK, NEW r \in Request, pc[r] # "idle",
         NEW n \in Active, Continue(r, n)
  PROVE  RequestTypeOK'
BY DEF RequestTypeOK, Continue

\* So does answering.
LEMMA ReplyType ==
  ASSUME RequestTypeOK, NEW r \in Request, pc[r] # "idle",
         NEW c \in Answer, Reply(r, c)
  PROVE  RequestTypeOK'
BY DEF RequestTypeOK, Reply

\* Ending a transaction keeps the database typed.
LEMMA UnlockType ==
  ASSUME DbTypeOK, NEW r \in Request, Unlock(r), UNCHANGED <<packages, versions>>
  PROVE  DbTypeOK'
BY DEF DbTypeOK, Unlock

\* What a running or answered request asks for is known.
LEMMA RequestKnown ==
  ASSUME RequestTypeOK, NEW r \in Request, pc[r] # "idle" \/ resp[r] # "none"
  PROVE  /\ req[r] \in PublishRequest
         /\ ReleaseOf(r) \in Release
         /\ RowOf(r) \in VersionRow
         /\ KeyOf(r) \in Key
         /\ req[r].package \in Package
         /\ req[r].meta \in Meta
         /\ req[r].content \in Content
BY DEF RequestTypeOK, PublishRequest, ReleaseOf, Release, RowOf, VersionRow,
       KeyOf, Key, artifact_key

-----------------------------------------------------------------------------
(***************************************************************************)
(* Type correctness.  Two facts about one step carry it: a step that ends  *)
(* or continues a request keeps the request variables typed, and what a    *)
(* running request asks for is always known.                               *)
(***************************************************************************)
\* The parts of TypeOK a control step leaves alone.
LEMMA FrameTypes ==
  /\ StoreTypeOK /\ UNCHANGED storeVars => StoreTypeOK'
  /\ DbTypeOK /\ UNCHANGED dbVars => DbTypeOK'
  /\ AuditTypeOK /\ UNCHANGED auditVars => AuditTypeOK'
BY DEF StoreTypeOK, storeVars, DbTypeOK, dbVars, AuditTypeOK, auditVars

\* A put of a key by the request that may be writing it keeps the store typed.
LEMMA StoreTypes ==
  ASSUME StoreTypeOK, NEW r \in Request, NEW k \in Key,
         \/ MemoryPut(k) \/ MemoryPutRefused(k) \/ S3Put(k)
         \/ LocalOpen(r, k) \/ LocalClose(r) \/ LocalAbort(r) \/ StoreRestart
  PROVE  StoreTypeOK'
BY DEF StoreTypeOK, ObjectState, storeVars, Request, MemoryPut, MemoryPutRefused,
       S3Put, LocalOpen, LocalClose, LocalAbort, StoreRestart

\* Each step keeps the types.
LEMMA TypeStep == TypeOK /\ [Next]_vars => TypeOK'
<1> SUFFICES ASSUME TypeOK, [Next]_vars PROVE TypeOK'
  OBVIOUS
<1> USE DEF TypeOK
<1>1. ASSUME NEW r \in Request, NEW q \in PublishRequest, Receive(r, q) PROVE TypeOK'
  <2>1. RequestTypeOK'
    BY <1>1, PublishAssumption DEF RequestTypeOK, Receive, Active, BeforeTxn, Answer
  <2> QED BY <1>1, <2>1, FrameTypes DEF Receive
<1>2. ASSUME NEW r \in Request,
             \/ Authenticate(r) \/ AuthorizePublish(r) \/ ReadBody(r) \/ VerifyTag(r)
             \/ FindPackage(r) \/ FindVersion(r) \/ PutFails(r) \/ UpsertFails(r)
             \/ InsertVersion(r) \/ Respond(r)
      PROVE  TypeOK'
  <2>1. UNCHANGED <<storeVars, dbVars, auditVars>>
    BY <1>2 DEF Authenticate, AuthorizePublish, ReadBody, VerifyTag, FindPackage,
       FindVersion, PutFails, UpsertFails, InsertVersion, Respond
  <2>2. /\ pc[r] # "idle"
        /\ (\E n \in Active : Continue(r, n)) \/ (\E c \in Answer : Reply(r, c))
    BY <1>2 DEF Authenticate, AuthorizePublish, ReadBody, VerifyTag, FindPackage,
       FindVersion, PutFails, UpsertFails, InsertVersion, Respond,
       Active, BeforeTxn, InTxn, Committed, Answer
  <2>3. RequestTypeOK'
    BY <2>2, ContinueType, ReplyType
  <2> QED BY <2>1, <2>3, FrameTypes
<1>3. ASSUME NEW r \in Request, Put(r) \/ PutLocal(r) PROVE TypeOK'
  <2>1. pc[r] = "put" /\ KeyOf(r) \in Key
    BY <1>3, RequestKnown DEF Put, PutLocal
  <2>2. StoreTypeOK'
    BY <1>3, <2>1, StoreTypes DEF Put, PutLocal
  <2>3. (\E n \in Active : Continue(r, n)) \/ (\E c \in Answer : Reply(r, c))
    BY <1>3 DEF Put, PutLocal, Active, BeforeTxn, Answer
  <2>4. RequestTypeOK'
    BY <2>1, <2>3, ContinueType, ReplyType
  <2> QED BY <1>3, <2>2, <2>4, FrameTypes DEF Put, PutLocal
<1>4. ASSUME NEW r \in Request, LocalWriteEnds(r) PROVE TypeOK'
  <2>1. StoreTypeOK'
    <3>1. CASE LocalClose(r)
      BY <3>1 DEF StoreTypeOK, ObjectState, Request, LocalClose
    <3>2. CASE LocalAbort(r)
      BY <3>2 DEF StoreTypeOK, ObjectState, Request, LocalAbort
    <3> QED BY <1>4, <3>1, <3>2 DEF LocalWriteEnds
  <2>2. \/ pc[r] = "putting" /\ (Continue(r, "upsert") \/ Reply(r, "internal"))
        \/ UNCHANGED <<pc, req, resp>>
    BY <1>4 DEF LocalWriteEnds
  <2>3. RequestTypeOK'
    <3>1. CASE UNCHANGED <<pc, req, resp>>
      BY <3>1 DEF RequestTypeOK
    <3>2. CASE pc[r] = "putting" /\ (Continue(r, "upsert") \/ Reply(r, "internal"))
      BY <3>2, ContinueType, ReplyType DEF Active, BeforeTxn, Answer
    <3> QED BY <2>2, <3>1, <3>2
  <2> QED BY <1>4, <2>1, <2>3, FrameTypes DEF LocalWriteEnds
<1>5. ASSUME NEW r \in Request,
             \/ UpsertPackage(r) \/ InsertConflicts(r) \/ TxnFails(r)
             \/ Commit(r) \/ CommitAnswerLost(r) \/ Cancel(r)
      PROVE  TypeOK'
  <2>1. pc[r] # "idle"
    BY <1>5 DEF UpsertPackage, InsertConflicts, TxnFails, Commit, CommitAnswerLost,
       Cancel, InTxn
  <2>2. DbTypeOK'
    <3>1. CASE UpsertPackage(r)
      BY <3>1 DEF DbTypeOK, UpsertPackage
    <3>2. CASE InsertConflicts(r) \/ TxnFails(r) \/ Cancel(r)
      BY <3>2, UnlockType DEF InsertConflicts, TxnFails, Cancel
    <3>3. CASE Commit(r) \/ CommitAnswerLost(r)
      BY <3>3, <2>1, RequestKnown DEF DbTypeOK, Commit, CommitAnswerLost, ApplyTxn, Unlock
    <3> QED BY <1>5, <3>1, <3>2, <3>3
  <2>3. (\E n \in Active : Continue(r, n)) \/ (\E c \in Answer : Reply(r, c))
    BY <1>5 DEF UpsertPackage, InsertConflicts, TxnFails, Commit, CommitAnswerLost, Cancel,
       Active, BeforeTxn, InTxn, Committed, Answer
  <2>4. RequestTypeOK'
    BY <2>1, <2>3, ContinueType, ReplyType
  <2> QED BY <1>5, <2>2, <2>4, FrameTypes
          DEF UpsertPackage, InsertConflicts, TxnFails, Commit, CommitAnswerLost, Cancel
<1>6. ASSUME NEW r \in Request, RecordAudit(r) PROVE TypeOK'
  <2>1. pc[r] = "audit" /\ ReleaseOf(r) \in Release /\ req[r].content \in Content
    BY <1>6, RequestKnown DEF RecordAudit
  <2>2. RequestTypeOK'
    BY <1>6, <2>1, ContinueType DEF RecordAudit, Active, Committed
  <2>3. AuditTypeOK'
    <3>1. Append(audit[ReleaseOf(r)], req[r].content) \in Seq(Content)
      BY <2>1 DEF AuditTypeOK
    <3> QED BY <1>6, <2>1, <3>1 DEF RecordAudit, AuditTypeOK
  <2> QED BY <1>6, <2>2, <2>3, FrameTypes DEF RecordAudit
<1>7. ASSUME Restart PROVE TypeOK'
  <2>1. StoreTypeOK'
    BY <1>7 DEF Restart, StoreRestart, StoreTypeOK, ObjectState
  <2>2. RequestTypeOK'
    BY <1>7 DEF Restart, RequestTypeOK, Answer
  <2>3. DbTypeOK'
    BY <1>7 DEF Restart, DbTypeOK
  <2> QED BY <1>7, <2>1, <2>2, <2>3, FrameTypes DEF Restart
<1>8. ASSUME UNCHANGED vars PROVE TypeOK'
  BY <1>8, FrameTypes DEF vars, RequestTypeOK
<1> QED BY <1>1, <1>2, <1>3, <1>4, <1>5, <1>6, <1>7, <1>8 DEF Next, Step

\* The types hold initially.
LEMMA TypeInit == Init => TypeOK
BY DEF Init, StoreInit, TypeOK, StoreTypeOK, ObjectState, RequestTypeOK, Active, Answer,
       DbTypeOK, AuditTypeOK

(***************************************************************************)
(* Every variable of the pipeline keeps its type, and a request slot that  *)
(* has never been used holds no answer.                                    *)
(***************************************************************************)
THEOREM TypeCorrect == Spec => []TypeOK
BY TypeInit, TypeStep, PTL DEF Spec

-----------------------------------------------------------------------------
(***************************************************************************)
(* Who changes what: the only steps that touch the store, and the only     *)
(* steps that change committed rows.                                       *)
(***************************************************************************)
LEMMA StoreChange ==
  [Next]_vars =>
    \/ UNCHANGED storeVars
    \/ \E r \in Request : Put(r) \/ PutLocal(r) \/ LocalWriteEnds(r)
    \/ Restart
BY DEF Next, Step, Receive, Authenticate, AuthorizePublish, ReadBody, VerifyTag,
   FindPackage, FindVersion, PutFails, UpsertPackage, UpsertFails, InsertVersion,
   InsertConflicts, TxnFails, Commit, CommitAnswerLost, RecordAudit, Respond, Cancel, vars

\* Row locks follow the program counter, and a commit is always of a new release.
TxnInv == RowLockHeldInTxn /\ FreshAtCommit

\* Only a commit changes what is committed.
LEMMA RowChange ==
  [Next]_vars =>
    UNCHANGED <<packages, versions>> \/ \E r \in Request : Commit(r) \/ CommitAnswerLost(r)
BY DEF Next, Step, Receive, Authenticate, AuthorizePublish, ReadBody, VerifyTag,
   FindPackage, FindVersion, Put, PutLocal, PutFails, LocalWriteEnds, UpsertPackage,
   UpsertFails, InsertVersion, InsertConflicts, TxnFails,
   RecordAudit, Respond, Cancel, Restart, dbVars, vars

\* Whether or not the answer arrives, it applies the request's own transaction.
LEMMA CommitApplies ==
  ASSUME TypeOK, TxnInv, NEW r \in Request, Commit(r) \/ CommitAnswerLost(r)
  PROVE  /\ pc[r] = "commit" /\ versions[ReleaseOf(r)] = None
         /\ ReleaseOf(r) \in Release /\ RowOf(r) \in VersionRow
         /\ packages' = [packages EXCEPT ![req[r].package] = req[r].meta]
         /\ versions' = [versions EXCEPT ![ReleaseOf(r)] = RowOf(r)]
         /\ Unlock(r) /\ UNCHANGED <<req, storeVars, auditVars>>
         /\ \E n \in {"audit", "idle"} : pc' = [pc EXCEPT ![r] = n]
BY RequestKnown DEF TypeOK, Commit, CommitAnswerLost, ApplyTxn, Continue, Reply,
   TxnInv, FreshAtCommit

-----------------------------------------------------------------------------
(***************************************************************************)
(* Transactions.  The row lock and the program counter move together, so   *)
(* at most one transaction is open on a package, and what its insert saw   *)
(* of the version index is still true when it commits.                     *)
(***************************************************************************)
\* Each step keeps every row lock with the transaction that wrote the row.
LEMMA TxnStep == TypeOK /\ TxnInv /\ [Next]_vars => TxnInv'
<1> SUFFICES ASSUME TypeOK, TxnInv, [Next]_vars PROVE TxnInv'
  OBVIOUS
<1> USE DEF TypeOK, RequestTypeOK, DbTypeOK, TxnInv, RowLockHeldInTxn, FreshAtCommit,
            InTxn, ReleaseOf, Continue, Reply
<1>1. ASSUME NEW r \in Request, NEW q \in PublishRequest, Receive(r, q) PROVE TxnInv'
  BY <1>1 DEF Receive, dbVars
<1>2. ASSUME NEW r \in Request,
             \/ Authenticate(r) \/ AuthorizePublish(r) \/ ReadBody(r) \/ VerifyTag(r)
             \/ FindPackage(r) \/ FindVersion(r) \/ Put(r) \/ PutLocal(r) \/ PutFails(r)
             \/ LocalWriteEnds(r) \/ UpsertFails(r) \/ RecordAudit(r) \/ Respond(r)
      PROVE  TxnInv'
  <2>1. /\ UNCHANGED <<req, versions, rowLock>>
        /\ \/ UNCHANGED pc
           \/ \E n \in (BeforeTxn \cup Committed \cup {"idle"}) :
                pc[r] \notin InTxn /\ pc' = [pc EXCEPT ![r] = n]
    BY <1>2 DEF Authenticate, AuthorizePublish, ReadBody, VerifyTag, FindPackage,
       FindVersion, Put, PutLocal, PutFails, LocalWriteEnds, UpsertFails,
       RecordAudit, Respond, BeforeTxn, Committed, dbVars
  <2> QED BY <2>1 DEF BeforeTxn, Committed
<1>3. ASSUME NEW r \in Request, UpsertPackage(r) PROVE TxnInv'
  <2>1. req[r].package \in Package
    BY <1>3, RequestKnown DEF UpsertPackage
  <2> QED BY <1>3, <2>1, NoneIsNoObject DEF UpsertPackage, Request
<1>4. ASSUME NEW r \in Request, InsertVersion(r) PROVE TxnInv'
  BY <1>4 DEF InsertVersion, dbVars
<1>5. ASSUME NEW r \in Request, InsertConflicts(r) \/ TxnFails(r) \/ Cancel(r)
      PROVE  TxnInv'
  BY <1>5, NoneIsNoObject DEF InsertConflicts, TxnFails, Cancel, Unlock, Request
<1>6. ASSUME NEW r \in Request, Commit(r) \/ CommitAnswerLost(r) PROVE TxnInv'
  <2>1. rowLock[req[r].package] = r /\ req[r].package \in Package
    BY <1>6, CommitApplies, RequestKnown
  <2>2. /\ UNCHANGED req /\ Unlock(r)
        /\ \E n \in {"audit", "idle"} : pc' = [pc EXCEPT ![r] = n]
        /\ versions' = [versions EXCEPT ![ReleaseOf(r)] = RowOf(r)]
        /\ pc[r] = "commit"
    BY <1>6, CommitApplies
  <2>3. RowLockHeldInTxn'
    BY <2>2, NoneIsNoObject DEF Unlock, Request
  <2>4. FreshAtCommit'
    <3> SUFFICES ASSUME NEW s \in Request, pc'[s] = "commit"
                 PROVE  versions'[ReleaseOf(s)] = None
      BY <2>2
    <3>1. s # r /\ pc[s] = "commit" /\ versions[ReleaseOf(s)] = None
      BY <2>2
    <3>2. req[s].package # req[r].package
      BY <2>1, <2>2, <3>1
    <3>3. ReleaseOf(s) # ReleaseOf(r)
      BY <3>2
    <3> QED BY <2>2, <3>1, <3>3, RequestKnown
  <2> QED BY <2>3, <2>4
<1>7. ASSUME Restart PROVE TxnInv'
  BY <1>7, NoneIsNoObject DEF Restart, Request
<1>8. ASSUME UNCHANGED vars PROVE TxnInv'
  BY <1>8 DEF vars, dbVars
<1> QED BY <1>1, <1>2, <1>3, <1>4, <1>5, <1>6, <1>7, <1>8 DEF Next, Step

\* No transaction is open initially.
LEMMA TxnInit == Init => TxnInv
BY NoneIsNoObject DEF Init, TxnInv, RowLockHeldInTxn, FreshAtCommit, InTxn, Request

\* The transaction invariant holds in every reachable state.
LEMMA TxnCorrect == Spec => []TxnInv
BY TxnInit, TxnStep, TypeCorrect, PTL DEF Spec

(***************************************************************************)
(* A transaction never outlives its request, and no two are open on the    *)
(* same package row.                                                       *)
(***************************************************************************)
THEOREM LocksAreReleased == Spec => []RowLockHeldInTxn
BY TxnCorrect, PTL DEF TxnInv

\* No step changes a committed version.
LEMMA ImmutableStep ==
  TypeOK /\ TxnInv /\ [Next]_vars =>
    [\A pv \in Release : versions[pv] # None => versions'[pv] = versions[pv]]_versions
<1> SUFFICES ASSUME TypeOK, TxnInv, Next, versions' # versions
             PROVE  \A pv \in Release : versions[pv] # None => versions'[pv] = versions[pv]
  BY DEF vars, dbVars
<1>1. PICK r \in Request : Commit(r) \/ CommitAnswerLost(r)
  BY RowChange
<1>2. versions[ReleaseOf(r)] = None /\ versions' = [versions EXCEPT ![ReleaseOf(r)] = RowOf(r)]
  BY <1>1, CommitApplies
<1> QED BY <1>2 DEF TypeOK, DbTypeOK

(***************************************************************************)
(* A published version is never withdrawn, replaced or changed, whatever   *)
(* requests race, fail, time out or die with their process.                *)
(***************************************************************************)
THEOREM PublishedForGood == Spec => VersionsImmutable
BY ImmutableStep, TypeCorrect, TxnCorrect, PTL DEF Spec, VersionsImmutable

-----------------------------------------------------------------------------
(***************************************************************************)
(* Authorization.  What the checks established about a request stays true  *)
(* of it, since nobody rewrites a running request or its token's row; and  *)
(* a blocking write never brings a new object into the store when it ends. *)
(***************************************************************************)
AuthInv == Cleared /\ OpenFilePresent

\* Each step lets only cleared requests past the checks.
LEMMA AuthStep == TypeOK /\ AuthInv /\ [Next]_vars => AuthInv'
<1> SUFFICES ASSUME TypeOK, AuthInv, [Next]_vars PROVE AuthInv'
  OBVIOUS
<1> USE DEF TypeOK, RequestTypeOK, AuthInv
<1>1. Cleared'
  <2> USE DEF Cleared, PastBody, PastOrg, Active, BeforeTxn, InTxn, Committed,
              Continue, Reply
  <2>1. ASSUME NEW r \in Request, NEW q \in PublishRequest, Receive(r, q) PROVE Cleared'
    BY <2>1 DEF Receive
  <2>2. ASSUME NEW r \in Request, AuthorizePublish(r) PROVE Cleared'
    BY <2>2 DEF AuthorizePublish, authorize_publish, InScope, can_publish, MayPublish
  <2>3. ASSUME NEW r \in Request, ReadBody(r) PROVE Cleared'
    BY <2>3 DEF ReadBody
  <2>4. ASSUME NEW r \in Request, Step(r) \/ Cancel(r),
               ~AuthorizePublish(r), ~ReadBody(r)
        PROVE  Cleared'
    <3>1. /\ UNCHANGED req
          /\ \/ UNCHANGED pc
             \/ \E n \in {"org", "idle"} : pc' = [pc EXCEPT ![r] = n]
             \/ \E n \in PastBody : pc[r] \in PastBody /\ pc' = [pc EXCEPT ![r] = n]
      BY <2>4 DEF Step, Authenticate, VerifyTag, FindPackage, FindVersion, Put, PutLocal,
         PutFails, LocalWriteEnds, UpsertPackage, UpsertFails, InsertVersion,
         InsertConflicts, TxnFails, Commit, CommitAnswerLost, ApplyTxn, RecordAudit,
         Respond, Cancel
    <3> QED BY <3>1
  <2>5. ASSUME Restart PROVE Cleared'
    BY <2>5 DEF Restart
  <2>6. ASSUME UNCHANGED vars PROVE Cleared'
    BY <2>6 DEF vars
  <2> QED BY <2>1, <2>2, <2>3, <2>4, <2>5, <2>6 DEF Next
<1>2. OpenFilePresent'
  <2> USE DEF OpenFilePresent, Present, StoreTypeOK
  <2>1. ASSUME NEW r \in Request, Put(r) \/ PutLocal(r) PROVE OpenFilePresent'
    <3>1. KeyOf(r) \in Key
      BY <2>1, RequestKnown DEF Put, PutLocal
    <3> QED BY <2>1, <3>1 DEF Put, PutLocal, MemoryPut, S3Put, MemoryPutRefused,
            LocalOpen, storeVars, Request
  <2>2. ASSUME NEW r \in Request, LocalWriteEnds(r) PROVE OpenFilePresent'
    BY <2>2, NoneIsNoObject DEF LocalWriteEnds, LocalClose, LocalAbort, Request
  <2>3. ASSUME Restart PROVE OpenFilePresent'
    BY <2>3 DEF Restart, StoreRestart
  <2>4. ASSUME UNCHANGED storeVars PROVE OpenFilePresent'
    BY <2>4 DEF storeVars
  <2> QED BY <2>1, <2>2, <2>3, <2>4, StoreChange
<1> QED BY <1>1, <1>2

\* No request is past the checks initially.
LEMMA AuthInit == Init => AuthInv
BY DEF Init, StoreInit, AuthInv, Cleared, PastBody, PastOrg, Active, BeforeTxn, InTxn,
   Committed, OpenFilePresent, Request

\* The authorization invariant holds in every reachable state.
LEMMA AuthCorrect == Spec => []AuthInv
BY AuthInit, AuthStep, TypeCorrect, PTL DEF Spec

\* A step with an effect is one of a request that was cleared.
LEMMA EffectsStep ==
  TypeOK /\ TxnInv /\ AuthInv /\ [Next]_vars =>
    [/\ \A k \in Present' \ Present : \E r \in Request :
          /\ pc[r] = "put" /\ KeyOf(r) = k
          /\ MayPublish(req[r].token, OrgOf[req[r].package])
          /\ req[r].declared = req[r].content
     /\ \A pv \in Release : versions'[pv] # versions[pv] => \E r \in Request :
          /\ pc[r] = "commit" /\ ReleaseOf(r) = pv
          /\ MayPublish(req[r].token, OrgOf[req[r].package])]_<<objects, versions>>
<1> SUFFICES ASSUME TypeOK, TxnInv, AuthInv, Next
             PROVE  /\ \A k \in Present' \ Present : \E r \in Request :
                         /\ pc[r] = "put" /\ KeyOf(r) = k
                         /\ MayPublish(req[r].token, OrgOf[req[r].package])
                         /\ req[r].declared = req[r].content
                    /\ \A pv \in Release : versions'[pv] # versions[pv] => \E r \in Request :
                         /\ pc[r] = "commit" /\ ReleaseOf(r) = pv
                         /\ MayPublish(req[r].token, OrgOf[req[r].package])
  BY DEF vars, storeVars, dbVars
<1> USE DEF TypeOK, AuthInv
<1>1. ASSUME NEW k \in Present' \ Present
      PROVE  \E r \in Request : pc[r] = "put" /\ KeyOf(r) = k
  <2>1. ASSUME NEW r \in Request, Put(r) \/ PutLocal(r)
        PROVE  pc[r] = "put" /\ KeyOf(r) = k
    BY <1>1, <2>1 DEF Put, PutLocal, MemoryPut, S3Put, MemoryPutRefused, LocalOpen,
       storeVars, Present, StoreTypeOK
  <2>2. ASSUME NEW r \in Request, LocalWriteEnds(r) PROVE FALSE
    BY <1>1, <2>2 DEF LocalWriteEnds, LocalClose, LocalAbort, Request, Present,
       OpenFilePresent, StoreTypeOK
  <2>3. ASSUME Restart PROVE FALSE
    BY <1>1, <2>3 DEF Restart, StoreRestart, Present, StoreTypeOK
  <2>4. ASSUME UNCHANGED storeVars PROVE FALSE
    BY <1>1, <2>4 DEF storeVars, Present
  <2> QED BY <2>1, <2>2, <2>3, <2>4, StoreChange
<1>2. ASSUME NEW pv \in Release, versions'[pv] # versions[pv]
      PROVE  \E r \in Request : pc[r] = "commit" /\ ReleaseOf(r) = pv
  <2>1. PICK r \in Request : Commit(r) \/ CommitAnswerLost(r)
    BY <1>2, RowChange
  <2> QED BY <1>2, <2>1, CommitApplies DEF DbTypeOK
<1>3. ASSUME NEW r \in Request, pc[r] \in {"put", "commit"}
      PROVE  /\ MayPublish(req[r].token, OrgOf[req[r].package])
             /\ req[r].declared = req[r].content
  BY <1>3 DEF Cleared, PastBody, PastOrg, Active, BeforeTxn, InTxn, Committed
<1> QED BY <1>1, <1>2, <1>3

(***************************************************************************)
(* Nothing is stored or published on behalf of a token that may not        *)
(* publish to the org, or with another digest than the one declared.       *)
(***************************************************************************)
THEOREM PublishFailsClosed == Spec => EffectsAreAuthorized
BY EffectsStep, TypeCorrect, TxnCorrect, AuthCorrect, PTL DEF Spec, EffectsAreAuthorized

-----------------------------------------------------------------------------
(***************************************************************************)
(* Durability.  On S3, or in memory while the process lives, an object     *)
(* that is whole stays whole; so the blob a request put before its         *)
(* transaction is there when the row that names it is committed.           *)
(***************************************************************************)
StoredInv == BlobBeforeRow /\ CommittedArtifactAvailable

\* No step takes a whole object away, on a backend that keeps them.
LEMMA WholeStaysWhole ==
  ASSUME KeepsObjects, TypeOK, [Next]_vars, NEW k \in Key, objects[k] = "whole"
  PROVE  objects'[k] = "whole"
<1>1. ASSUME NEW r \in Request, Put(r) \/ PutLocal(r) \/ LocalWriteEnds(r)
      PROVE  objects'[k] = "whole"
  BY <1>1 DEF KeepsObjects, TypeOK, StoreTypeOK, storeVars, Put, PutLocal, LocalWriteEnds,
     MemoryPut, MemoryPutRefused, S3Put, LocalOpen, LocalClose, LocalAbort
<1>2. ASSUME Restart PROVE objects'[k] = "whole"
  BY <1>2 DEF KeepsObjects, Restart, StoreRestart
<1> QED BY <1>1, <1>2, StoreChange DEF storeVars

\* Each step keeps the blob in the store before the row that names it.
LEMMA StoredStep ==
  ASSUME KeepsObjects
  PROVE  TypeOK /\ TxnInv /\ StoredInv /\ [Next]_vars => StoredInv'
<1> SUFFICES ASSUME TypeOK, TxnInv, StoredInv, [Next]_vars PROVE StoredInv'
  OBVIOUS
<1> USE DEF TypeOK, StoredInv
<1>1. BlobBeforeRow'
  <2> SUFFICES ASSUME NEW r \in Request, pc'[r] \in PastPut
               PROVE  objects'[KeyOf(r)'] = "whole"
    BY DEF BlobBeforeRow
  <2>1. CASE pc[r] \in PastPut /\ req'[r] = req[r]
    <3>1. objects[KeyOf(r)] = "whole" /\ KeyOf(r) \in Key /\ KeyOf(r)' = KeyOf(r)
      BY <2>1, RequestKnown DEF BlobBeforeRow, PastPut, InTxn, KeyOf
    <3> QED BY <3>1, WholeStaysWhole
  <2>2. CASE ~(pc[r] \in PastPut /\ req'[r] = req[r])
    <3>1. Put(r) \/ LocalWriteEnds(r)
      BY <2>2 DEF Next, Step, Receive, Authenticate, AuthorizePublish, ReadBody, VerifyTag,
         FindPackage, FindVersion, Put, PutLocal, PutFails, LocalWriteEnds, UpsertPackage,
         UpsertFails, InsertVersion, InsertConflicts, TxnFails, Commit, CommitAnswerLost,
         RecordAudit, Respond, Cancel, Restart, vars, Continue, Reply, RequestTypeOK,
         PastPut, InTxn
    <3>2. Put(r)
      BY <3>1 DEF KeepsObjects, LocalWriteEnds, LocalClose, LocalAbort
    <3>3. KeyOf(r) \in Key /\ KeyOf(r)' = KeyOf(r)
      BY <3>2, RequestKnown DEF Put, Continue, Reply, KeyOf
    <3> QED BY <2>2, <3>2, <3>3 DEF Put, Continue, Reply, RequestTypeOK, StoreTypeOK,
            PastPut, InTxn, MemoryPut, S3Put
  <2> QED BY <2>1, <2>2
<1>2. CommittedArtifactAvailable'
  <2> SUFFICES ASSUME NEW pv \in Release, versions'[pv] # None
               PROVE  objects'[artifact_key(versions'[pv].sha256, versions'[pv].format)] = "whole"
    BY DEF CommittedArtifactAvailable
  <2>1. CASE versions'[pv] = versions[pv]
    <3>1. /\ objects[artifact_key(versions[pv].sha256, versions[pv].format)] = "whole"
          /\ artifact_key(versions[pv].sha256, versions[pv].format) \in Key
      BY <2>1 DEF CommittedArtifactAvailable, DbTypeOK, VersionRow, Key, artifact_key
    <3> QED BY <2>1, <3>1, WholeStaysWhole
  <2>2. CASE versions'[pv] # versions[pv]
    <3>1. PICK r \in Request : Commit(r) \/ CommitAnswerLost(r)
      BY <2>2, RowChange
    <3>2. versions'[pv] = RowOf(r)
      BY <2>2, <3>1, CommitApplies DEF DbTypeOK
    <3>3. objects[KeyOf(r)] = "whole" /\ KeyOf(r) \in Key
      BY <3>1, CommitApplies, RequestKnown DEF BlobBeforeRow, PastPut, InTxn
    <3>4. artifact_key(versions'[pv].sha256, versions'[pv].format) = KeyOf(r)
      BY <3>2 DEF RowOf, KeyOf
    <3> QED BY <3>3, <3>4, WholeStaysWhole
  <2> QED BY <2>1, <2>2
<1> QED BY <1>1, <1>2

\* No row names a blob initially.
LEMMA StoredInit == Init => StoredInv
BY DEF Init, StoredInv, BlobBeforeRow, PastPut, InTxn, CommittedArtifactAvailable

(***************************************************************************)
(* The artifact of every committed version is in the store, whole, on S3   *)
(* and in the memory backend of a process that does not restart.           *)
(***************************************************************************)
THEOREM ArtifactsAvailable ==
  ASSUME KeepsObjects
  PROVE  Spec => []CommittedArtifactAvailable
<1>1. Init => StoredInv
  BY StoredInit
<1>2. TypeOK /\ TxnInv /\ StoredInv /\ [Next]_vars => StoredInv'
  BY StoredStep
<1>3. StoredInv => CommittedArtifactAvailable
  BY DEF StoredInv
<1> QED BY <1>1, <1>2, <1>3, TypeCorrect, TxnCorrect, PTL DEF Spec

-----------------------------------------------------------------------------
(***************************************************************************)
(* Refinement.  A successful put is the registry's Store, a commit is its  *)
(* Release, and every other step of the pipeline is invisible.             *)
(***************************************************************************)
LEMMA RefinementInit == Init => Abstract!Init
BY DEF Init, StoreInit, Abstract!Init, Release

\* Each step of the pipeline is a step of the registry, or none.
LEMMA RefinementStep ==
  ASSUME KeepsObjects, TypeOK, TxnInv, StoredInv, [Next]_vars
  PROVE  [Abstract!Next]_(Abstract!vars)
<1> DEFINE whole == {k \in Key : objects[k] = "whole"}
<1> USE DEF TypeOK
<1>1. ASSUME NEW r \in Request, Commit(r) \/ CommitAnswerLost(r) PROVE Abstract!Next
  <2> DEFINE p == req[r].package
             v == req[r].version
  <2>1. /\ p \in Package /\ v \in Version /\ req[r].meta \in Meta
        /\ RowOf(r) \in VersionRow /\ KeyOf(r) \in Key
    BY <1>1, CommitApplies, RequestKnown DEF RequestTypeOK, PublishRequest
  <2>2. versions[<<p, v>>] = None
    BY <1>1, CommitApplies DEF ReleaseOf
  <2>3. KeyOf(r) \in whole
    BY <1>1, <2>1, CommitApplies DEF StoredInv, BlobBeforeRow, PastPut, InTxn
  <2>4. artifact_key(RowOf(r).sha256, RowOf(r).format) = KeyOf(r)
    BY DEF RowOf, KeyOf
  <2>5. /\ versions' = [versions EXCEPT ![<<p, v>>] = RowOf(r)]
        /\ packages' = [packages EXCEPT ![p] = req[r].meta]
        /\ UNCHANGED objects
    BY <1>1, CommitApplies DEF ReleaseOf, storeVars
  <2>6. Abstract!Release(p, v, RowOf(r), req[r].meta)
    BY <2>1, <2>2, <2>3, <2>4, <2>5 DEF Abstract!Release
  <2> QED BY <2>1, <2>6 DEF Abstract!Next
<1>2. ASSUME NEW r \in Request, Put(r) PROVE [Abstract!Next]_(Abstract!vars)
  <2>1. KeyOf(r) \in Key
    BY <1>2, RequestKnown DEF Put
  <2>2. UNCHANGED <<packages, versions>>
    BY <1>2 DEF Put, dbVars
  <2>3. CASE objects' = [objects EXCEPT ![KeyOf(r)] = "whole"]
    <3>1. whole' = whole \cup {KeyOf(r)}
      BY <2>1, <2>3 DEF StoreTypeOK
    <3>2. \E k \in Key : Abstract!Store(k)
      BY <2>1, <2>2, <3>1 DEF Abstract!Store
    <3> QED BY <3>2 DEF Abstract!Next
  <2>4. CASE UNCHANGED objects
    BY <2>2, <2>4 DEF Abstract!vars
  <2>5. objects' = [objects EXCEPT ![KeyOf(r)] = "whole"] \/ UNCHANGED objects
    BY <1>2 DEF Put, MemoryPut, S3Put, MemoryPutRefused, storeVars
  <2> QED BY <2>3, <2>4, <2>5
<1>3. ASSUME UNCHANGED <<objects, packages, versions>> PROVE UNCHANGED Abstract!vars
  BY <1>3 DEF Abstract!vars
<1>4. \/ \E r \in Request : Commit(r) \/ CommitAnswerLost(r) \/ Put(r)
      \/ UNCHANGED <<objects, packages, versions>>
  <2>1. ASSUME NEW r \in Request, PutLocal(r) \/ LocalWriteEnds(r) PROVE FALSE
    BY <2>1 DEF KeepsObjects, PutLocal, LocalOpen, LocalWriteEnds, LocalClose, LocalAbort
  <2>2. ASSUME Restart PROVE UNCHANGED <<objects, packages, versions>>
    BY <2>2 DEF KeepsObjects, Restart, StoreRestart
  <2> QED BY <2>1, <2>2, RowChange, StoreChange DEF storeVars
<1> QED BY <1>1, <1>2, <1>3, <1>4

(***************************************************************************)
(* The publishing pipeline implements the immutable registry, whatever     *)
(* interleavings, failures, timeouts and process deaths occur, on a        *)
(* backend that keeps its objects.                                         *)
(***************************************************************************)
THEOREM PublishImplementsRegistry ==
  ASSUME KeepsObjects
  PROVE  Spec => ImplementsRegistry
<1>1. Init => Abstract!Init
  BY RefinementInit
<1>2. TypeOK /\ TxnInv /\ StoredInv /\ [Next]_vars => [Abstract!Next]_(Abstract!vars)
  BY RefinementStep
<1>3. Init => StoredInv
  BY StoredInit
<1>4. TypeOK /\ TxnInv /\ StoredInv /\ [Next]_vars => StoredInv'
  BY StoredStep
<1> QED BY <1>1, <1>2, <1>3, <1>4, TypeCorrect, TxnCorrect, PTL
        DEF Spec, ImplementsRegistry, Abstract!Spec

-----------------------------------------------------------------------------
(***************************************************************************)
(* Outcomes.  A request past its commit owns its release: the row is its   *)
(* own, nobody else can be about to audit it, and its entry is written at  *)
(* most once.  So what a client is told and what the log says are true.    *)
(***************************************************************************)
OutcomeInv ==
  SoleAuditor /\ AuditedReleasesCommitted /\ AckedIsDurable /\ ConflictMeansPublished

\* A committed version stays as it is.
LEMMA CommittedRowsStay ==
  ASSUME TypeOK, TxnInv, [Next]_vars, NEW pv \in Release, versions[pv] # None
  PROVE  versions'[pv] = versions[pv]
BY ImmutableStep

\* Each step keeps the log and the answers true.
LEMMA OutcomeStep == TypeOK /\ TxnInv /\ AuthInv /\ OutcomeInv /\ [Next]_vars => OutcomeInv'
<1> SUFFICES ASSUME TypeOK, TxnInv, AuthInv, OutcomeInv, [Next]_vars PROVE OutcomeInv'
  OBVIOUS
<1> USE DEF OutcomeInv, TypeOK, RequestTypeOK, AuditTypeOK
<1>1. ASSUME NEW r \in Request, NEW q \in PublishRequest, Receive(r, q) PROVE OutcomeInv'
  <2> QED BY <1>1 DEF Receive, SoleAuditor, AuditedReleasesCommitted, AckedIsDurable,
          ConflictMeansPublished, dbVars, auditVars, ReleaseOf, RowOf, Committed
<1>2. ASSUME NEW r \in Request, Commit(r) \/ CommitAnswerLost(r) PROVE OutcomeInv'
  <2>1. /\ pc[r] = "commit" /\ ReleaseOf(r) \in Release /\ RowOf(r) \in VersionRow
        /\ versions[ReleaseOf(r)] = None
    BY <1>2, CommitApplies
  <2>2. /\ versions' = [versions EXCEPT ![ReleaseOf(r)] = RowOf(r)]
        /\ \E n \in {"audit", "idle"} : pc' = [pc EXCEPT ![r] = n]
        /\ UNCHANGED <<req, audit, warned>>
        /\ \A s \in Request : resp'[s] \in {"ok", "version_exists"} => resp'[s] = resp[s]
    BY <1>2, CommitApplies DEF Commit, CommitAnswerLost, Continue, Reply, auditVars
  <2>3. audit[ReleaseOf(r)] = <<>>
    BY <2>1 DEF AuditedReleasesCommitted
  <2>4. \A s \in Request : pc[s] \in Committed => ReleaseOf(s) # ReleaseOf(r)
    BY <2>1, PublishAssumption, RequestKnown DEF SoleAuditor, Committed
  <2>5. SoleAuditor'
    <3>1. \A s \in Request : ReleaseOf(s)' = ReleaseOf(s) /\ RowOf(s)' = RowOf(s)
      BY <2>2 DEF ReleaseOf, RowOf
    <3>2. /\ pc'[r] \in {"audit", "idle"} /\ versions'[ReleaseOf(r)] = RowOf(r)
          /\ \A s \in Request : s # r => pc'[s] = pc[s]
      BY <2>1, <2>2 DEF DbTypeOK
    <3>3. ASSUME NEW s \in Request, s # r, pc[s] \in Committed
          PROVE  versions'[ReleaseOf(s)] = RowOf(s)
      <4>1. versions'[ReleaseOf(s)] = versions[ReleaseOf(s)]
        BY <2>1, <2>2, <2>4, <3>3, RequestKnown DEF Committed, DbTypeOK
      <4> QED BY <3>3, <4>1 DEF SoleAuditor
    <3>4. \A s, t \in Request :
            pc'[s] = "audit" /\ pc'[t] = "audit" /\ ReleaseOf(s) = ReleaseOf(t) => s = t
      BY <2>4, <3>2 DEF SoleAuditor, Committed
    <3> QED BY <2>2, <2>3, <3>1, <3>2, <3>3, <3>4 DEF SoleAuditor, Committed
  <2>6. AuditedReleasesCommitted'
    BY <2>1, <2>2, <2>3 DEF AuditedReleasesCommitted, DbTypeOK
  <2>7. AckedIsDurable'
    <3> SUFFICES ASSUME NEW s \in Request, resp'[s] = "ok", resp[s] = "ok"
                 PROVE  /\ versions'[ReleaseOf(s)] = RowOf(s)
                        /\ req[s].declared = req[s].content
                        /\ audit[ReleaseOf(s)] # <<>> \/ ReleaseOf(s) \in warned
      BY <2>2 DEF AckedIsDurable, ReleaseOf, RowOf
    <3>1. RowOf(s) \in VersionRow /\ versions[ReleaseOf(s)] = RowOf(s)
      BY RequestKnown DEF AckedIsDurable
    <3>2. ReleaseOf(s) # ReleaseOf(r)
      BY <2>1, <3>1, PublishAssumption
    <3> QED BY <2>2, <3>1, <3>2 DEF AckedIsDurable, DbTypeOK
  <2>8. ConflictMeansPublished'
    BY <2>1, <2>2, PublishAssumption DEF ConflictMeansPublished, ReleaseOf, DbTypeOK
  <2> QED BY <2>5, <2>6, <2>7, <2>8
<1>3. ASSUME NEW r \in Request, RecordAudit(r) PROVE OutcomeInv'
  <2>1. /\ pc[r] = "audit" /\ ReleaseOf(r) \in Release
        /\ versions[ReleaseOf(r)] = RowOf(r) /\ audit[ReleaseOf(r)] = <<>>
    BY <1>3, RequestKnown DEF RecordAudit, SoleAuditor, Committed
  <2>2. /\ pc' = [pc EXCEPT ![r] = "respond"]
        /\ UNCHANGED <<req, resp, versions>>
    BY <1>3 DEF RecordAudit, Continue, dbVars
  <2>3. /\ \A pv \in Release : pv # ReleaseOf(r) => audit'[pv] = audit[pv]
        /\ audit'[ReleaseOf(r)] \in {<<>>, <<req[r].content>>}
        /\ audit'[ReleaseOf(r)] # <<>> \/ ReleaseOf(r) \in warned'
        /\ warned \subseteq warned'
    <3>1. <<req[r].content>> # <<>> /\ Append(<<>>, req[r].content) = <<req[r].content>>
      OBVIOUS
    <3>2. CASE audit' = [audit EXCEPT ![ReleaseOf(r)] = <<req[r].content>>] /\ UNCHANGED warned
      BY <2>1, <3>1, <3>2
    <3>3. CASE warned' = warned \cup {ReleaseOf(r)} /\ UNCHANGED audit
      BY <2>1, <3>3
    <3> QED BY <1>3, <2>1, <3>1, <3>2, <3>3 DEF RecordAudit
  <2>4. \A s \in Request : s # r /\ pc[s] = "audit" => ReleaseOf(s) # ReleaseOf(r)
    BY <2>1 DEF SoleAuditor
  <2>5. SoleAuditor'
    <3>1. \A s \in Request : pc'[s] \in Committed => pc[s] \in Committed
      BY <2>1, <2>2 DEF Committed
    <3>2. ASSUME NEW s \in Request, pc'[s] = "audit"
          PROVE  s # r /\ pc[s] = "audit" /\ audit'[ReleaseOf(s)] = audit[ReleaseOf(s)]
      BY <2>2, <2>3, <2>4, <3>2, RequestKnown
    <3>3. ASSUME NEW s \in Request, pc'[s] = "respond"
          PROVE  audit'[ReleaseOf(s)] # <<>> \/ ReleaseOf(s) \in warned'
      <4>1. CASE ReleaseOf(s) = ReleaseOf(r)
        BY <2>3, <4>1
      <4>2. CASE ReleaseOf(s) # ReleaseOf(r)
        BY <2>2, <2>3, <3>3, <4>2, RequestKnown DEF SoleAuditor
      <4> QED BY <4>1, <4>2
    <3> QED BY <2>2, <3>1, <3>2, <3>3 DEF SoleAuditor, ReleaseOf, RowOf
  <2>8. \A pv \in Release :
          audit[pv] # <<>> \/ pv \in warned => audit'[pv] # <<>> \/ pv \in warned'
    BY <2>1, <2>3
  <2>6. AuditedReleasesCommitted'
    BY <2>1, <2>2, <2>3, PublishAssumption, RequestKnown DEF AuditedReleasesCommitted, RowOf
  <2>7. AckedIsDurable' /\ ConflictMeansPublished'
    BY <2>2, <2>8, RequestKnown DEF AckedIsDurable, ConflictMeansPublished, ReleaseOf, RowOf
  <2> QED BY <2>5, <2>6, <2>7
<1>4. ASSUME NEW r \in Request,
             \/ Step(r) /\ ~Commit(r) /\ ~CommitAnswerLost(r) /\ ~RecordAudit(r)
             \/ Cancel(r)
      PROVE  OutcomeInv'
  <2>1. /\ UNCHANGED <<req, versions, audit, warned>>
        /\ \/ UNCHANGED <<pc, resp>>
           \/ /\ UNCHANGED resp
              /\ \E n \in BeforeTxn \cup InTxn : pc' = [pc EXCEPT ![r] = n]
           \/ /\ pc' = [pc EXCEPT ![r] = "idle"]
              /\ \E c \in Answer :
                   /\ resp' = [resp EXCEPT ![r] = c]
                   /\ c = "ok" => pc[r] = "respond"
                   /\ c = "version_exists" => versions[ReleaseOf(r)] # None
    BY <1>4 DEF Step, Authenticate, AuthorizePublish, ReadBody, VerifyTag, FindPackage,
       FindVersion, Put, PutLocal, PutFails, LocalWriteEnds, UpsertPackage, UpsertFails,
       InsertVersion, InsertConflicts, TxnFails, Respond, Cancel,
       Continue, Reply, dbVars, auditVars, BeforeTxn, InTxn, Answer
  <2>2. pc[r] = "respond" => req[r].declared = req[r].content
    BY DEF AuthInv, Cleared, PastBody, PastOrg, Active, Committed
  <2>3. SoleAuditor' /\ AuditedReleasesCommitted'
    BY <2>1 DEF SoleAuditor, AuditedReleasesCommitted, Committed, BeforeTxn, InTxn,
       ReleaseOf, RowOf
  <2>4. /\ \A s \in Request : resp'[s] = "ok" =>
              resp[s] = "ok" \/ (s = r /\ pc[r] = "respond")
        /\ \A s \in Request : resp'[s] = "version_exists" =>
              resp[s] = "version_exists" \/ versions[ReleaseOf(s)] # None
    BY <2>1
  <2>5. /\ \A s \in Request : ReleaseOf(s)' = ReleaseOf(s) /\ RowOf(s)' = RowOf(s)
        /\ UNCHANGED <<req, versions, audit, warned>>
    BY <2>1 DEF ReleaseOf, RowOf
  <2>6. AckedIsDurable'
    BY <2>2, <2>4, <2>5 DEF SoleAuditor, AckedIsDurable, Committed
  <2>7. ConflictMeansPublished'
    BY <2>4, <2>5 DEF ConflictMeansPublished
  <2> QED BY <2>3, <2>6, <2>7
<1>5. ASSUME Restart PROVE OutcomeInv'
  BY <1>5 DEF Restart, SoleAuditor, AuditedReleasesCommitted, AckedIsDurable,
     ConflictMeansPublished, auditVars, ReleaseOf, RowOf, Committed
<1>6. ASSUME UNCHANGED vars PROVE OutcomeInv'
  BY <1>6 DEF vars, dbVars, auditVars, SoleAuditor, AuditedReleasesCommitted,
     AckedIsDurable, ConflictMeansPublished, ReleaseOf, RowOf
<1> QED BY <1>1, <1>2, <1>3, <1>4, <1>5, <1>6 DEF Next, Step

\* There is no answer and no entry initially.
LEMMA OutcomeInit == Init => OutcomeInv
BY DEF Init, OutcomeInv, SoleAuditor, AuditedReleasesCommitted, AckedIsDurable,
   ConflictMeansPublished, Committed

\* The outcome invariant holds in every reachable state.
LEMMA OutcomeCorrect == Spec => []OutcomeInv
BY OutcomeInit, OutcomeStep, TypeCorrect, TxnCorrect, AuthCorrect, PTL DEF Spec

(***************************************************************************)
(* The audit log has at most one publish entry for a release, written      *)
(* after the release is committed, with the digest that was committed.     *)
(***************************************************************************)
THEOREM AuditTellsTheTruth == Spec => []AuditedReleasesCommitted
BY OutcomeCorrect, PTL DEF OutcomeInv

\* A publish answered 200 is committed and audited or logged.
THEOREM AnswersAreTrue == Spec => []AckedIsDurable
BY OutcomeCorrect, PTL DEF OutcomeInv

\* One answered 409 version_exists met a version that is published.
THEOREM ConflictsAreReal == Spec => []ConflictMeansPublished
BY OutcomeCorrect, PTL DEF OutcomeInv

\* Metadata changes only in a commit.
LEMMA MetadataStep ==
  TypeOK /\ TxnInv /\ [Next]_vars =>
    [\A p \in Package : packages'[p] # packages[p] =>
       \E r \in Request :
         /\ pc[r] = "commit" /\ req[r].package = p
         /\ packages'[p] = req[r].meta
         /\ versions[ReleaseOf(r)] = None
         /\ versions'[ReleaseOf(r)] = RowOf(r)]_packages
<1> SUFFICES ASSUME TypeOK, TxnInv, [Next]_vars, NEW p \in Package, packages'[p] # packages[p]
             PROVE  \E r \in Request :
                      /\ pc[r] = "commit" /\ req[r].package = p
                      /\ packages'[p] = req[r].meta
                      /\ versions[ReleaseOf(r)] = None
                      /\ versions'[ReleaseOf(r)] = RowOf(r)
  OBVIOUS
<1>1. PICK r \in Request : Commit(r) \/ CommitAnswerLost(r)
  BY RowChange
<1>2. /\ pc[r] = "commit" /\ versions[ReleaseOf(r)] = None /\ ReleaseOf(r) \in Release
      /\ packages' = [packages EXCEPT ![req[r].package] = req[r].meta]
      /\ versions' = [versions EXCEPT ![ReleaseOf(r)] = RowOf(r)]
  BY <1>1, CommitApplies
<1> QED BY <1>2 DEF TypeOK, DbTypeOK

(***************************************************************************)
(* A package's metadata changes only together with the commit of a new     *)
(* version of it, and becomes what that version's publisher sent.          *)
(***************************************************************************)
THEOREM MetadataFollowsVersions == Spec => MetadataMovesWithVersion
BY MetadataStep, TypeCorrect, TxnCorrect, PTL DEF Spec, MetadataMovesWithVersion

-----------------------------------------------------------------------------
(***************************************************************************)
(* Memory.  The accounting of put leaves out the object it replaces, so    *)
(* what is present after a put is exactly what Fits added up.  There is    *)
(* room for any number of artifacts; only finitely many are ever stored.   *)
(***************************************************************************)
Weight == [k \in Key |-> Size[k[1]]]

CapacityInv == IsFiniteSet(Present) /\ SumOf(Weight, Present) <= MaxBytes

\* The bytes of finitely many objects are the sum of their sizes.
LEMMA BytesAreSum ==
  ASSUME NEW ks \in SUBSET Key, IsFiniteSet(ks)
  PROVE  BytesOf(ks) = SumOf(Weight, ks)
<1>1. Weight \in [Key -> Nat] /\ ks \in FiniteSubsetsOf(Key)
  BY StoreAssumption DEF Weight, Key, artifact_key, FiniteSubsetsOf
<1> DEFINE P(f) == f = [s \in SUBSET ks |->
             IF s = {} THEN 0
             ELSE Size[(CHOOSE x \in s : TRUE)[1]] + f[s \ {CHOOSE x \in s : TRUE}]]
<1>2. BytesOf(ks) = (CHOOSE f : P(f))[ks]
  BY DEF BytesOf, MapThenSumSet, MapThenFoldSet
<1>3. ASSUME NEW f PROVE P(f) <=> SumsUp(f, Weight, ks)
  <2>1. ASSUME NEW s \in SUBSET ks, s # {}
        PROVE  Weight[Some(s)] = Size[(CHOOSE x \in s : TRUE)[1]]
    <3>1. Some(s) \in Key
      BY <2>1 DEF Some
    <3> QED BY <3>1 DEF Weight, Some
  <2>2. [s \in SUBSET ks |->
           IF s = {} THEN 0
           ELSE Size[(CHOOSE x \in s : TRUE)[1]] + f[s \ {CHOOSE x \in s : TRUE}]]
        = [s \in SUBSET ks |->
             IF s = {} THEN 0 ELSE Weight[Some(s)] + f[s \ {Some(s)}]]
    BY <2>1 DEF Some
  <2> QED BY <2>2 DEF SumsUp
<1> HIDE DEF P
<1>4. P(CHOOSE f : P(f))
  BY <1>1, <1>3, SumExists
<1>5. SumsUp(CHOOSE f : P(f), Weight, ks)
  BY <1>3, <1>4
<1> QED BY <1>1, <1>2, <1>5, SumUnique

\* What the code adds up is what the invariant bounds.
LEMMA CapacityFollows == CapacityInv => CapacityRespected
<1>1. Present \subseteq Key
  BY DEF Present
<1> QED BY <1>1, BytesAreSum DEF CapacityInv, CapacityRespected

\* Nothing stored takes no room.
LEMMA EmptyFits == IsFiniteSet({}) /\ SumOf(Weight, {}) <= MaxBytes
<1>1. Weight \in [Key -> Nat] /\ {} \in FiniteSubsetsOf(Key)
  BY StoreAssumption, FS_EmptySet DEF Weight, Key, artifact_key, FiniteSubsetsOf
<1>2. SumOf(Weight, {}) = 0
  BY <1>1, SumAdd
<1> QED BY <1>2, FS_EmptySet, StoreAssumption

\* A put that fits leaves no more bytes than fit.
LEMMA PutFits ==
  ASSUME StoreTypeOK, CapacityInv, NEW k \in Key, MemoryPut(k)
  PROVE  CapacityInv'
<1>1. Present' = Present \cup {k}
  BY DEF StoreTypeOK, MemoryPut, Present
<1>2. IsFiniteSet(Present \ {k}) /\ IsFiniteSet(Present')
  BY <1>1, FS_Subset, FS_AddElement DEF CapacityInv
<1>3. Weight \in [Key -> Nat] /\ Present' \in FiniteSubsetsOf(Key) /\ Present \subseteq Key
  BY <1>1, <1>2, StoreAssumption DEF Weight, Key, artifact_key, FiniteSubsetsOf, Present
<1>4. Present' \ {k} = Present \ {k}
  BY <1>1
<1>5. SumOf(Weight, Present') = Weight[k] + SumOf(Weight, Present \ {k})
  BY <1>1, <1>3, <1>4, SumAdd
<1>6. BytesOf(Present \ {k}) = SumOf(Weight, Present \ {k})
  BY <1>2, <1>3, BytesAreSum
<1>7. Weight[k] = Size[k[1]] /\ Weight[k] \in Nat /\ SumOf(Weight, Present \ {k}) \in Nat
  BY <1>2, <1>3, SumAdd DEF Weight, FiniteSubsetsOf
<1>8. SumOf(Weight, Present \ {k}) + Size[k[1]] <= MaxBytes
  BY <1>6 DEF MemoryPut, Fits
<1> QED BY <1>2, <1>5, <1>7, <1>8, StoreAssumption DEF CapacityInv

\* Each step keeps the total within the limit.
LEMMA CapacityStep ==
  Backend = "memory" /\ TypeOK /\ CapacityInv /\ [Next]_vars => CapacityInv'
<1> SUFFICES ASSUME Backend = "memory", TypeOK, CapacityInv, [Next]_vars PROVE CapacityInv'
  OBVIOUS
<1>1. ASSUME UNCHANGED storeVars PROVE CapacityInv'
  <2>1. Present' = Present
    BY <1>1 DEF storeVars, Present
  <2> QED BY <2>1 DEF CapacityInv
<1>2. ASSUME NEW r \in Request, Put(r) PROVE CapacityInv'
  <2>1. KeyOf(r) \in Key /\ StoreTypeOK
    BY <1>2, RequestKnown DEF Put, TypeOK
  <2>2. CASE MemoryPut(KeyOf(r))
    BY <2>1, <2>2, PutFits
  <2>3. CASE UNCHANGED storeVars
    BY <1>1, <2>3
  <2> QED BY <1>2, <2>2, <2>3 DEF Put, S3Put, MemoryPutRefused
<1>3. CASE Restart
  <2>1. Present' = {}
    BY <1>3 DEF Restart, StoreRestart, Present
  <2> QED BY <2>1, EmptyFits DEF CapacityInv
<1>4. ASSUME NEW r \in Request, PutLocal(r) \/ LocalWriteEnds(r) PROVE FALSE
  BY <1>4 DEF PutLocal, LocalWriteEnds, LocalOpen, LocalClose, LocalAbort
<1> QED BY <1>1, <1>2, <1>3, <1>4, StoreChange

(***************************************************************************)
(* The memory backend never retains more than max_bytes, whatever puts,    *)
(* re-puts of a stored key and restarts overlap.                           *)
(***************************************************************************)
THEOREM MemoryIsBounded == Spec => []CapacityRespected
<1>1. Init => CapacityInv
  <2>1. Init => Present = {}
    BY DEF Init, StoreInit, Present
  <2> QED BY <2>1, EmptyFits DEF CapacityInv
<1>2. CASE Backend = "memory"
  <2>1. TypeOK /\ CapacityInv /\ [Next]_vars => CapacityInv'
    BY <1>2, CapacityStep
  <2> QED BY <1>1, <2>1, CapacityFollows, TypeCorrect, PTL DEF Spec
<1>3. CASE Backend # "memory"
  <2>1. CapacityRespected
    BY <1>3 DEF CapacityRespected
  <2> QED BY <2>1, PTL
<1> QED BY <1>2, <1>3

(***************************************************************************)
(* The inductive invariant: everything the requests know of each other at  *)
(* every await of the pipeline, on every backend.                          *)
(***************************************************************************)
THEOREM InductiveInvariant == Spec => []IInv
<1>1. Init => (KeepsObjects => StoredInv)
  BY StoredInit
<1>2. TypeOK /\ TxnInv /\ (KeepsObjects => StoredInv) /\ [Next]_vars
        => (KeepsObjects => StoredInv)'
  BY StoredStep DEF KeepsObjects
<1>3. /\ TypeOK /\ TxnInv /\ AuthInv /\ OutcomeInv
      /\ KeepsObjects => StoredInv
      => IInv
  BY DEF IInv, TxnInv, AuthInv, OutcomeInv, StoredInv, BlobBeforeRow
<1> QED BY <1>1, <1>2, <1>3, TypeCorrect, TxnCorrect, AuthCorrect, OutcomeCorrect, PTL DEF Spec
=============================================================================
