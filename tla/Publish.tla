------------------------------- MODULE Publish -------------------------------
(***************************************************************************)
(* The publish pipeline of src/src/routes/publish.rs: several requests     *)
(* race to publish package versions through one database and one artifact  *)
(* store.  Every await of the handler is a step of its own, so the         *)
(* handlers interleave at exactly the points where the program does.       *)
(*                                                                         *)
(* Program counter of a request     about to                               *)
(*   "auth"                          require_token                         *)
(*   "org"                           find the org, authorize_publish       *)
(*   "body"                          read_multipart, validate, recompute   *)
(*   "tag"                           verifier.verify                       *)
(*   "package", "version"            the two reads of the immutability     *)
(*                                   check                                 *)
(*   "put", "putting"                store.put, waiting for a local write  *)
(*   "upsert", "insert", "commit"    the metadata transaction              *)
(*   "audit"                         finish audit::record                  *)
(*   "respond"                       return the response                   *)
(*                                                                         *)
(* The database is external.  What the code relies on: READ COMMITTED, the *)
(* unique indexes (org_id, name) and (package_id, version), and the lock a *)
(* transaction keeps on the package row it inserted or updated until it    *)
(* ends, which makes a second upsert of that row wait.                     *)
(***************************************************************************)
EXTENDS ArtifactStore, Sequences

CONSTANTS
  Package,   \* (org, name) identities
  Version,
  Org,       \* orgs that exist
  OrgOf,     \* OrgOf[p]: the org of package p; outside Org when unclaimed
  Token,
  Scope,     \* Scope[t]: the org the token is scoped to, None for an admin
  RoleOf,    \* RoleOf[t]: the stored role string
  Meta,      \* description, vcs, repo_url, version_scheme and tags
  Restarts   \* whether the process may die

Request == Writer   \* a request slot writes at most one artifact at a time

Release == Package \X Version

VersionRow == [sha256 : Content, format : Format]

PublishRequest ==
  [token : Token, package : Package, version : Version, content : Content,
   format : Format, declared : Content, meta : Meta]

ASSUME PublishAssumption ==
  /\ Scope \in [Token -> Org \cup {None}]
  /\ DOMAIN OrgOf = Package
  /\ Restarts \in BOOLEAN
  /\ None \notin Org /\ None \notin Meta
  /\ None \notin VersionRow /\ None \notin PublishRequest

VARIABLES
  pc,        \* pc[r]: the next await of request r, "idle" when there is none
  req,       \* req[r]: what the request asks for
  resp,      \* resp[r]: the last answer given in this slot
  packages,  \* committed package rows: their metadata
  versions,  \* committed version rows
  rowLock,   \* rowLock[p]: the open transaction that wrote p's package row
  audit,     \* audit[pv]: digests of the publish entries in the audit log
  warned     \* releases whose lost audit entry was logged at warn

dbVars == <<packages, versions, rowLock>>
auditVars == <<audit, warned>>
vars == <<pc, req, resp, storeVars, dbVars, auditVars>>

BeforeTxn == {"auth", "org", "body", "tag", "package", "version", "put", "putting", "upsert"}
InTxn     == {"insert", "commit"}
Committed == {"audit", "respond"}
Active    == BeforeTxn \cup InTxn \cup Committed

Answer == {"none", "ok", "version_exists", "unauthorized", "insufficient_role",
           "org_not_found", "bad_request", "internal", "cancelled"}

RequestTypeOK ==
  /\ pc \in [Request -> Active \cup {"idle"}]
  /\ req \in [Request -> PublishRequest \cup {None}]
  /\ resp \in [Request -> Answer]
  /\ \A r \in Request : req[r] = None => pc[r] = "idle" /\ resp[r] = "none"

DbTypeOK ==
  /\ packages \in [Package -> Meta \cup {None}]
  /\ versions \in [Release -> VersionRow \cup {None}]
  /\ rowLock \in [Package -> Request \cup {None}]

AuditTypeOK ==
  /\ audit \in [Release -> Seq(Content)]
  /\ warned \in SUBSET Release

TypeOK == StoreTypeOK /\ RequestTypeOK /\ DbTypeOK /\ AuditTypeOK

Init ==
  /\ StoreInit
  /\ pc = [r \in Request |-> "idle"]
  /\ req = [r \in Request |-> None]
  /\ resp = [r \in Request |-> "none"]
  /\ packages = [p \in Package |-> None]
  /\ versions = [pv \in Release |-> None]
  /\ rowLock = [p \in Package |-> None]
  /\ audit = [pv \in Release |-> <<>>]
  /\ warned = {}

-----------------------------------------------------------------------------
ReleaseOf(r) == <<req[r].package, req[r].version>>

RowOf(r) == [sha256 |-> req[r].content, format |-> req[r].format]

KeyOf(r) == artifact_key(req[r].content, req[r].format)

Continue(r, next) ==
  /\ pc' = [pc EXCEPT ![r] = next]
  /\ UNCHANGED <<req, resp>>

Reply(r, code) ==
  /\ pc' = [pc EXCEPT ![r] = "idle"]
  /\ resp' = [resp EXCEPT ![r] = code]
  /\ UNCHANGED req

\* Ends r's transaction, if it has one, without applying it.
Unlock(r) == rowLock' = [p \in Package |-> IF rowLock[p] = r THEN None ELSE rowLock[p]]

(***************************************************************************)
(* authorize_publish: an admin token may publish anywhere; a scoped one    *)
(* only in its own org, and only as owner or publisher.                    *)
(***************************************************************************)
InScope(t, o) == Scope[t] \in {None, o}

can_publish(role) == role \in {"owner", "publisher"}

\* Mutation: any role inside the scope will do.
AuthorizeAnyRole(t, o) == InScope(t, o)

authorize_publish(t, o) == InScope(t, o) /\ (Scope[t] = None \/ can_publish(RoleOf[t]))

-----------------------------------------------------------------------------
\* A client's request reaches the handler.  The slot's previous blocking
\* write, if any, has ended.
Receive(r, q) ==
  /\ pc[r] = "idle"
  /\ task[r] = None
  /\ req' = [req EXCEPT ![r] = q]
  /\ resp' = [resp EXCEPT ![r] = "none"]
  /\ pc' = [pc EXCEPT ![r] = "auth"]
  /\ UNCHANGED <<storeVars, dbVars, auditVars>>

\* require_token: an unknown, revoked or expired token is refused; so is, at
\* any time, one that is revoked or expires before this read.
Authenticate(r) ==
  /\ pc[r] = "auth"
  /\ Continue(r, "org") \/ Reply(r, "unauthorized") \/ Reply(r, "internal")
  /\ UNCHANGED <<storeVars, dbVars, auditVars>>

AuthorizePublish(r) ==
  LET t == req[r].token
      o == OrgOf[req[r].package]
  IN /\ pc[r] = "org"
     /\ \/ o \notin Org /\ Reply(r, "org_not_found")
        \/ o \in Org /\ ~InScope(t, o) /\ Reply(r, "unauthorized")
        \/ o \in Org /\ InScope(t, o) /\ ~authorize_publish(t, o) /\ Reply(r, "insufficient_role")
        \/ o \in Org /\ authorize_publish(t, o) /\ Continue(r, "body")
        \/ Reply(r, "internal")
     /\ UNCHANGED <<storeVars, dbVars, auditVars>>

\* read_multipart, manifest validation, the manifest/URL comparison and the
\* recomputed digest.
ReadBody(r) ==
  /\ pc[r] = "body"
  /\ \/ Reply(r, "bad_request")
     \/ req[r].declared = req[r].content /\ Continue(r, "tag")
  /\ UNCHANGED <<storeVars, dbVars, auditVars>>

\* Verified and Skipped let the publish go on; Missing and an error do not.
VerifyTag(r) ==
  /\ pc[r] = "tag"
  /\ Continue(r, "package") \/ Reply(r, "bad_request") \/ Reply(r, "internal")
  /\ UNCHANGED <<storeVars, dbVars, auditVars>>

\* find_package_row: without a package row there is no version to look for.
FindPackage(r) ==
  /\ pc[r] = "package"
  /\ \/ Continue(r, IF packages[req[r].package] = None THEN "put" ELSE "version")
     \/ Reply(r, "internal")
  /\ UNCHANGED <<storeVars, dbVars, auditVars>>

\* Mutation: a known package's version row is inserted before its blob is put.
FindVersionSkipsPut(r) ==
  /\ pc[r] = "version"
  /\ \/ versions[ReleaseOf(r)] # None /\ Reply(r, "version_exists")
     \/ versions[ReleaseOf(r)] = None /\ Continue(r, "upsert")
     \/ Reply(r, "internal")
  /\ UNCHANGED <<storeVars, dbVars, auditVars>>

\* The immutability check: a version that is already there is refused.
FindVersion(r) ==
  /\ pc[r] = "version"
  /\ \/ versions[ReleaseOf(r)] # None /\ Reply(r, "version_exists")
     \/ versions[ReleaseOf(r)] = None /\ Continue(r, "put")
     \/ Reply(r, "internal")
  /\ UNCHANGED <<storeVars, dbVars, auditVars>>

\* store.put on the backends where it is one step.  An S3 put may also have
\* stored the object although its answer never arrives.
Put(r) ==
  /\ pc[r] = "put"
  /\ \/ (MemoryPut(KeyOf(r)) \/ S3Put(KeyOf(r))) /\ Continue(r, "upsert")
     \/ S3Put(KeyOf(r)) /\ Reply(r, "internal")
     \/ MemoryPutRefused(KeyOf(r)) /\ Reply(r, "internal")
  /\ UNCHANGED <<dbVars, auditVars>>

\* Local: hand the write to the blocking pool.
PutLocal(r) ==
  /\ pc[r] = "put"
  /\ LocalOpen(r, KeyOf(r))
  /\ Continue(r, "putting")
  /\ UNCHANGED <<dbVars, auditVars>>

\* store.put fails before it has changed anything.
PutFails(r) ==
  /\ pc[r] = "put"
  /\ Backend # "memory"
  /\ Reply(r, "internal")
  /\ UNCHANGED <<storeVars, dbVars, auditVars>>

\* The blocking write ends, whether or not the request still waits for it.
LocalWriteEnds(r) ==
  /\ \/ LocalClose(r) /\ IF pc[r] = "putting" THEN Continue(r, "upsert")
                                              ELSE UNCHANGED <<pc, req, resp>>
     \/ LocalAbort(r) /\ IF pc[r] = "putting" THEN Reply(r, "internal")
                                              ELSE UNCHANGED <<pc, req, resp>>
  /\ UNCHANGED <<dbVars, auditVars>>

\* Mutation: the metadata is written outside the transaction.
UpsertOutsideTxn(r) ==
  /\ pc[r] = "upsert"
  /\ rowLock[req[r].package] = None
  /\ rowLock' = [rowLock EXCEPT ![req[r].package] = r]
  /\ packages' = [packages EXCEPT ![req[r].package] = req[r].meta]
  /\ Continue(r, "insert")
  /\ UNCHANGED <<versions, storeVars, auditVars>>

\* begin and upsert_package: create or update the package row in the
\* transaction.  Waits while another open transaction has written that row.
UpsertPackage(r) ==
  /\ pc[r] = "upsert"
  /\ rowLock[req[r].package] = None
  /\ rowLock' = [rowLock EXCEPT ![req[r].package] = r]
  /\ Continue(r, "insert")
  /\ UNCHANGED <<packages, versions, storeVars, auditVars>>

\* Mutation: a plain INSERT of the package loses the race for the
\* (org_id, name) index and the loss is reported as a version conflict.
UpsertLosesRace(r) ==
  /\ pc[r] = "upsert"
  /\ Reply(r, IF packages[req[r].package] = None THEN "internal" ELSE "version_exists")
  /\ UNCHANGED <<storeVars, dbVars, auditVars>>

\* begin or the upsert fails: nothing was written, the blob is kept.
UpsertFails(r) ==
  /\ pc[r] = "upsert"
  /\ Reply(r, "internal")
  /\ UNCHANGED <<storeVars, dbVars, auditVars>>

\* Mutation: no unique index on (package_id, version).
InsertWithoutIndex(r) ==
  /\ pc[r] = "insert"
  /\ Continue(r, "commit")
  /\ UNCHANGED <<storeVars, dbVars, auditVars>>

\* Mutation: the audit entry is written before the transaction commits.
InsertAuditsFirst(r) ==
  /\ pc[r] = "insert"
  /\ versions[ReleaseOf(r)] = None
  /\ audit' = [audit EXCEPT ![ReleaseOf(r)] = Append(@, req[r].content)]
  /\ Continue(r, "commit")
  /\ UNCHANGED <<storeVars, dbVars, warned>>

\* The version row goes in if no committed row has its (package_id, version).
InsertVersion(r) ==
  /\ pc[r] = "insert"
  /\ versions[ReleaseOf(r)] = None
  /\ Continue(r, "commit")
  /\ UNCHANGED <<storeVars, dbVars, auditVars>>

\* The insert hits the unique index: roll back, keep the blob, 409.
InsertConflicts(r) ==
  /\ pc[r] = "insert"
  /\ versions[ReleaseOf(r)] # None
  /\ Unlock(r)
  /\ Reply(r, "version_exists")
  /\ UNCHANGED <<packages, versions, storeVars, auditVars>>

\* Mutation: a failed transaction deletes the blob it uploaded.
TxnFailureDeletesBlob(r) ==
  /\ pc[r] \in InTxn
  /\ Unlock(r)
  /\ Reply(r, "internal")
  /\ objects' = [objects EXCEPT ![KeyOf(r)] = "absent"]
  /\ UNCHANGED <<packages, versions, opener, task, auditVars>>

\* Mutation: a failed transaction is rolled back but the handler goes on.
TxnFailureIgnored(r) ==
  /\ pc[r] \in InTxn
  /\ Unlock(r)
  /\ Continue(r, "audit")
  /\ UNCHANGED <<packages, versions, storeVars, auditVars>>

\* Any other error inside the transaction, up to a commit that is refused.
TxnFails(r) ==
  /\ pc[r] \in InTxn
  /\ Unlock(r)
  /\ Reply(r, "internal")
  /\ UNCHANGED <<packages, versions, storeVars, auditVars>>

\* What r's transaction wrote becomes visible at once: the package metadata
\* and the version row.
ApplyTxn(r) ==
  /\ packages' = [packages EXCEPT ![req[r].package] = req[r].meta]
  /\ versions' = [versions EXCEPT ![ReleaseOf(r)] = RowOf(r)]
  /\ Unlock(r)

Commit(r) ==
  /\ pc[r] = "commit"
  /\ ApplyTxn(r)
  /\ Continue(r, "audit")
  /\ UNCHANGED <<storeVars, auditVars>>

\* The database commits but the handler sees an error, or is dropped before
\* the answer comes: audit::record is never called.
CommitAnswerLost(r) ==
  /\ pc[r] = "commit"
  /\ ApplyTxn(r)
  /\ Reply(r, "internal") \/ Reply(r, "cancelled")
  /\ UNCHANGED <<storeVars, auditVars>>

\* audit::record appends the entry, or gives up and logs it at warn.
RecordAudit(r) ==
  /\ pc[r] = "audit"
  /\ \/ audit' = [audit EXCEPT ![ReleaseOf(r)] = Append(@, req[r].content)] /\ UNCHANGED warned
     \/ warned' = warned \cup {ReleaseOf(r)} /\ UNCHANGED audit
  /\ Continue(r, "respond")
  /\ UNCHANGED <<storeVars, dbVars>>

Respond(r) ==
  /\ pc[r] = "respond"
  /\ Reply(r, "ok")
  /\ UNCHANGED <<storeVars, dbVars, auditVars>>

\* Mutation: a dropped handler leaves its transaction open.
CancelKeepsTxn(r) ==
  /\ pc[r] # "idle"
  /\ Reply(r, "cancelled")
  /\ UNCHANGED <<dbVars, storeVars, auditVars>>

(***************************************************************************)
(* The 30 s TimeoutLayer, or the client going away, drops the handler at   *)
(* the await it is at: an open transaction is rolled back, a blocking      *)
(* write goes on.  The death of one of several replicas that share S3 is   *)
(* this step taken by each of its requests.                                *)
(***************************************************************************)
Cancel(r) ==
  /\ pc[r] # "idle"
  /\ Unlock(r)
  /\ Reply(r, "cancelled")
  /\ UNCHANGED <<packages, versions, storeVars, auditVars>>

\* The process dies with all its requests and starts again.
Restart ==
  /\ Restarts
  /\ StoreRestart
  /\ pc' = [r \in Request |-> "idle"]
  /\ resp' = [r \in Request |-> IF pc[r] = "idle" THEN resp[r] ELSE "cancelled"]
  /\ rowLock' = [p \in Package |-> None]
  /\ UNCHANGED <<req, packages, versions, auditVars>>

Step(r) ==
  \/ Authenticate(r) \/ AuthorizePublish(r) \/ ReadBody(r) \/ VerifyTag(r)
  \/ FindPackage(r) \/ FindVersion(r)
  \/ Put(r) \/ PutLocal(r) \/ PutFails(r) \/ LocalWriteEnds(r)
  \/ UpsertPackage(r) \/ UpsertFails(r) \/ InsertVersion(r) \/ InsertConflicts(r)
  \/ TxnFails(r) \/ Commit(r) \/ CommitAnswerLost(r)
  \/ RecordAudit(r) \/ Respond(r)

Next ==
  \/ \E r \in Request, q \in PublishRequest : Receive(r, q)
  \/ \E r \in Request : Step(r) \/ Cancel(r)
  \/ Restart

Spec == Init /\ [][Next]_vars

(***************************************************************************)
(* Fairness.  tokio polls every ready handler, the database and the store  *)
(* answer every call, and a local write ends: WF of a request's steps that *)
(* are not failures.  Transactions queue for a row lock in order, so an    *)
(* upsert that finds it free again and again gets it: SF.  Nothing is      *)
(* assumed of failures, of the timeout, or of new requests.                *)
(***************************************************************************)
Progress(r) ==
  \/ Authenticate(r) \/ AuthorizePublish(r) \/ ReadBody(r) \/ VerifyTag(r)
  \/ FindPackage(r) \/ FindVersion(r) \/ Put(r) \/ PutLocal(r) \/ LocalWriteEnds(r)
  \/ InsertVersion(r) \/ InsertConflicts(r) \/ Commit(r) \/ RecordAudit(r) \/ Respond(r)

FairSpec ==
  /\ Spec
  /\ \A r \in Request : WF_vars(Progress(r)) /\ SF_vars(UpsertPackage(r))

-----------------------------------------------------------------------------
(***************************************************************************)
(* The artifact of every committed version is stored, whole: the blob is   *)
(* put before the row that names it is committed, and nobody removes a     *)
(* blob that another publisher may be about to commit (DEN-660).           *)
(***************************************************************************)
CommittedArtifactAvailable ==
  \A pv \in Release : versions[pv] # None =>
    objects[artifact_key(versions[pv].sha256, versions[pv].format)] = "whole"

(***************************************************************************)
(* Weaker, for the local backend: there is a file under the key of every   *)
(* committed version, whatever writes are cut short.                       *)
(***************************************************************************)
CommittedKeyPresent ==
  \A pv \in Release : versions[pv] # None =>
    artifact_key(versions[pv].sha256, versions[pv].format) \in Present

(***************************************************************************)
(* A package row is locked by exactly the request whose transaction wrote  *)
(* it: no way out of the handler (error, conflict, timeout, restart)       *)
(* leaves a transaction open, or two transactions inside the same row.     *)
(***************************************************************************)
RowLockHeldInTxn ==
  \A r \in Request, p \in Package :
    rowLock[p] = r <=> pc[r] \in InTxn /\ req[r].package = p

(***************************************************************************)
(* The audit log has at most one publish entry for a release, and only for *)
(* one that is committed, with the digest that was committed.              *)
(***************************************************************************)
AuditedReleasesCommitted ==
  \A pv \in Release : audit[pv] # <<>> =>
    versions[pv] # None /\ audit[pv] = <<versions[pv].sha256>>

(***************************************************************************)
(* A publish that was answered 200 is committed with the client's digest,  *)
(* and its audit entry is in the log or was logged at warn.                *)
(***************************************************************************)
AckedIsDurable ==
  \A r \in Request : resp[r] = "ok" =>
    /\ versions[ReleaseOf(r)] = RowOf(r)
    /\ req[r].declared = req[r].content
    /\ audit[ReleaseOf(r)] # <<>> \/ ReleaseOf(r) \in warned

(***************************************************************************)
(* 409 version_exists is only said of a version that is published: losing  *)
(* the race to create the package must not drop an otherwise valid,        *)
(* distinct version.                                                       *)
(***************************************************************************)
ConflictMeansPublished ==
  \A r \in Request : resp[r] = "version_exists" => versions[ReleaseOf(r)] # None

\* A published version is never withdrawn, replaced or changed.
VersionsImmutable ==
  [][\A pv \in Release : versions[pv] # None => versions'[pv] = versions[pv]]_versions

(***************************************************************************)
(* M1: a package's metadata is only rewritten together with the commit of  *)
(* a new version of that package, by the request that publishes it.        *)
(***************************************************************************)
MetadataMovesWithVersion ==
  [][\A p \in Package : packages'[p] # packages[p] =>
       \E r \in Request :
         /\ pc[r] = "commit" /\ req[r].package = p
         /\ packages'[p] = req[r].meta
         /\ versions[ReleaseOf(r)] = None
         /\ versions'[ReleaseOf(r)] = RowOf(r)]_packages

\* The rule of zed-docs issue #7, stated on the stored columns.
MayPublish(t, o) ==
  Scope[t] = None \/ (Scope[t] = o /\ RoleOf[t] \in {"owner", "publisher"})

(***************************************************************************)
(* Authorization fails closed: an object appears in the store, or a        *)
(* version row in the database, only through a request whose token may     *)
(* publish to that org and whose declared digest is the artifact's.        *)
(***************************************************************************)
EffectsAreAuthorized ==
  [][/\ \A k \in Present' \ Present : \E r \in Request :
          /\ pc[r] = "put" /\ KeyOf(r) = k
          /\ MayPublish(req[r].token, OrgOf[req[r].package])
          /\ req[r].declared = req[r].content
     /\ \A pv \in Release : versions'[pv] # versions[pv] => \E r \in Request :
          /\ pc[r] = "commit" /\ ReleaseOf(r) = pv
          /\ MayPublish(req[r].token, OrgOf[req[r].package])]_<<objects, versions>>

\* Every request is answered, however the others behave.
EveryRequestAnswered ==
  \A r \in Request : pc[r] # "idle" ~> pc[r] = "idle"

(***************************************************************************)
(* The strengthening that makes the safety properties above inductive:     *)
(* what a request knows at each await.  A request that is about to commit  *)
(* publishes a release nobody has; one past the authorization checks may   *)
(* publish and has the bytes it declared; one past the put has its blob in *)
(* the store, unless the backend tears or forgets objects; one past the    *)
(* commit owns the release and is the only one that may still audit it.    *)
(***************************************************************************)
FreshAtCommit ==
  \A r \in Request : pc[r] = "commit" => versions[ReleaseOf(r)] = None

PastOrg  == Active \ {"auth", "org"}
PastBody == PastOrg \ {"body"}
PastPut  == {"upsert"} \cup InTxn

Cleared ==
  \A r \in Request :
    /\ pc[r] \in PastOrg => MayPublish(req[r].token, OrgOf[req[r].package])
    /\ pc[r] \in PastBody => req[r].declared = req[r].content

KeepsObjects == Backend = "s3" \/ (Backend = "memory" /\ ~Restarts)

BlobBeforeRow ==
  KeepsObjects => \A r \in Request : pc[r] \in PastPut => objects[KeyOf(r)] = "whole"

OpenFilePresent == \A w \in Writer : task[w] # None => task[w] \in Present

SoleAuditor ==
  \A r \in Request :
    /\ pc[r] \in Committed => versions[ReleaseOf(r)] = RowOf(r)
    /\ pc[r] = "audit" => audit[ReleaseOf(r)] = <<>>
    /\ pc[r] = "respond" => audit[ReleaseOf(r)] # <<>> \/ ReleaseOf(r) \in warned
    /\ \A s \in Request :
         pc[r] = "audit" /\ pc[s] = "audit" /\ ReleaseOf(r) = ReleaseOf(s) => r = s

\* The inductive invariant.
IInv ==
  /\ TypeOK
  /\ RowLockHeldInTxn /\ FreshAtCommit
  /\ Cleared /\ OpenFilePresent
  /\ BlobBeforeRow /\ (KeepsObjects => CommittedArtifactAvailable)
  /\ SoleAuditor /\ AuditedReleasesCommitted /\ AckedIsDurable /\ ConflictMeansPublished

(***************************************************************************)
(* The publishing pipeline implements the immutable registry, on a backend *)
(* that neither tears nor forgets objects.                                 *)
(***************************************************************************)
Abstract == INSTANCE Registry WITH
  Blob <- Key,
  Row <- VersionRow,
  BlobOf <- [row \in VersionRow |-> artifact_key(row.sha256, row.format)],
  blobs <- {k \in Key : objects[k] = "whole"},
  published <- versions,
  metadata <- packages

ImplementsRegistry == Abstract!Spec

(***************************************************************************)
(* src/src/audit.rs:21: a failed audit write is logged at warn, with       *)
(* everything needed to write the entry by hand.  So a request that has    *)
(* begun its audit write leaves it, however it does, with the entry in the *)
(* log or the warning given.                                               *)
(***************************************************************************)
AuditWriteIsLogged ==
  [][\A r \in Request : pc[r] = "audit" /\ pc'[r] # "audit" =>
       audit'[ReleaseOf(r)] # <<>> \/ ReleaseOf(r) \in warned']_vars
=============================================================================
