------------------------------- MODULE Catalog -------------------------------
(***************************************************************************)
(* What is published, and the handlers that change and read it: yank       *)
(* (routes/yank.rs), embeddings (semantic.rs), package metadata, lists and *)
(* search (packages.rs, list.rs, search.rs) and the artifact routes        *)
(* (artifacts.rs), run by any number of requests against the tables that   *)
(* publishing fills as Registry promises (Publish implements it), under    *)
(* the tokens of Tokens.                                                   *)
(*                                                                         *)
(* Versions are numbers in the order sort_desc gives them.  A package's    *)
(* metadata is named after the release that set it.  After require_token a *)
(* yank is at "org", "version", "update", "audit", an embedding at "org",  *)
(* "version" (where it looks for its package) and "update"; a read is at   *)
(* "rows", "versions", and, when the client follows the latest version it  *)
(* was told, at "get_version" and "get_artifact".                          *)
(***************************************************************************)
EXTENDS Tokens, Sequences, FiniteSetsExt

CONSTANTS
  Package, Version,
  Home,        \* the org of the packages
  Released,    \* the package versions that may be published
  Yankable,    \* those that requests yank and restore
  Blob,        \* keys of stored artifacts
  ArtifactOf,  \* ArtifactOf[pv]: the artifact a release names
  Open         \* whether a replica may have authentication disabled

\* Of any versions one is the latest.
ASSUME CatalogAssumption ==
  /\ Home \in Org /\ Open \subseteq BOOLEAN
  /\ Released \subseteq Package \X Version /\ Yankable \subseteq Package \X Version
  /\ ArtifactOf \in [Released -> Blob]
  /\ Version \subseteq Nat \ {0}
  /\ \A S \in SUBSET Version : S # {} => \E m \in S : \A v \in S : v <= m
  /\ None \notin Blob \cup Version

VARIABLES
  blobs, published, metadata,   \* as in Registry
  yanked,      \* yanked[pv]: the flag of the version row
  trail,       \* the audit entries of yank and unyank, in order
  updated,     \* the requests whose update was applied
  lost,        \* versions an applied update of which has no audit entry
  overlapped,  \* versions that two requests were changing at one time
  rows,        \* rows[a]: the package rows a read, each with its metadata
  items        \* items[a]: the summaries a has built from them

registryVars == <<blobs, published, metadata>>
yankVars == <<yanked, trail, updated, lost, overlapped>>
readVars == <<rows, items>>
vars == <<tokenVars, registryVars, yankVars, readVars>>

R == INSTANCE Registry WITH
       Row <- Blob, BlobOf <- [k \in Blob |-> k], Meta <- Version

Init ==
  /\ TokensInit
  /\ R!Init
  /\ yanked = [pv \in Package \X Version |-> FALSE]
  /\ trail = <<>>
  /\ updated = {} /\ lost = {} /\ overlapped = {}
  /\ rows = [a \in Actor |-> {}]
  /\ items = [a \in Actor |-> {}]

\* Mutation: the package row is updated ahead of the transaction.
PublishMetadataFirst ==
  /\ \/ \E k \in Blob : k \notin blobs /\ R!Store(k)
     \/ \E pv \in Released :
          Home \in orgs /\ R!Release(pv[1], pv[2], ArtifactOf[pv], pv[2])
     \/ \E pv \in Released :
          /\ Home \in orgs
          /\ metadata' = [metadata EXCEPT ![pv[1]] = pv[2]]
          /\ UNCHANGED <<blobs, published>>
  /\ UNCHANGED <<tokenVars, yankVars, readVars>>

\* A publish commits: both rows appear at once (see Registry and Publish).
Publish ==
  /\ \/ \E k \in Blob : k \notin blobs /\ R!Store(k)
     \/ \E pv \in Released :
          Home \in orgs /\ R!Release(pv[1], pv[2], ArtifactOf[pv], pv[2])
  /\ UNCHANGED <<tokenVars, yankVars, readVars>>

-----------------------------------------------------------------------------
\* The request is past its update and its entry is not yet recorded, or it
\* may still update.
Changing(a) ==
  pc[a] \in {"auth", "insert", "refind", "refind_failed", "org", "version", "update", "audit"}

\* A yank (flag TRUE) or unyank of pv reaches a replica, which looks at its
\* token unless it is open.  late: the token was dead by then.
ReceiveYank(a, t, open, pv, flag) ==
  /\ open <=> t = None
  /\ Start(a, [op |-> "yank", token |-> t, open |-> open, pv |-> pv, flag |-> flag,
               late |-> t \in Dead], "auth")
  /\ overlapped' =
       IF \E b \in Actor : Changing(b) /\ call[b].op = "yank" /\ call[b].pv = pv
       THEN overlapped \cup {pv} ELSE overlapped
  /\ UNCHANGED <<registryVars, yanked, trail, updated, lost, readVars>>

Elsewhere == UNCHANGED <<registryVars, yankVars, readVars>>

Step(a, next) ==
  /\ Goto(a, next)
  /\ UNCHANGED <<orgs, tokens, call, by, matched, left>>

\* find_org and authorize_publish.
Authorize(a) ==
  /\ pc[a] = "org"
  /\ Step(a, IF Home \notin orgs THEN "not_found"
             ELSE LET says == authorize_publish(by[a], Home)
                  IN IF says = "ok" THEN "version" ELSE says)
  /\ Elsewhere

\* find_package and the version row.
FindVersion(a) ==
  /\ pc[a] = "version" /\ call[a].op = "yank"
  /\ Step(a, IF published[call[a].pv] = None THEN "not_found" ELSE "update")
  /\ Elsewhere

\* The update of the flag is applied; its answer may still be an error, and
\* then the handler returns without recording it.
Update(a) ==
  /\ pc[a] = "update" /\ call[a].op = "yank"
  /\ yanked' = [yanked EXCEPT ![call[a].pv] = call[a].flag]
  /\ updated' = updated \cup {a}
  /\ \/ Step(a, "audit") /\ UNCHANGED lost
     \/ Step(a, "error") /\ lost' = lost \cup {call[a].pv}
  /\ UNCHANGED <<registryVars, trail, overlapped, readVars>>

\* A query or the update fails, here and in the reads below: 500.
QueryFails(a) ==
  /\ pc[a] \in {"org", "version", "update", "rows", "versions", "get_version", "get_artifact"}
  /\ Step(a, "error")
  /\ Elsewhere

\* Mutation: the action is taken from the flag as it is when it is recorded.
EntryReread(a) ==
  [by |-> a, token |-> by[a], pv |-> call[a].pv, flag |-> yanked[call[a].pv]]

Entry(a) ==
  [by |-> a, token |-> by[a], pv |-> call[a].pv, flag |-> call[a].flag]

\* audit::record appends the entry, or gives up with a warning; the request
\* is answered 200 either way.
RecordAudit(a) ==
  /\ pc[a] = "audit"
  /\ Step(a, "done")
  /\ \/ trail' = Append(trail, Entry(a)) /\ UNCHANGED lost
     \/ lost' = lost \cup {call[a].pv} /\ UNCHANGED trail
  /\ UNCHANGED <<registryVars, yanked, updated, overlapped, readVars>>

\* A package's embedding for one model is put: by the authority of publish
\* and yank, and without an audit entry.
ReceiveEmbedding(a, t, open, p) ==
  /\ open <=> t = None
  /\ Start(a, [op |-> "embed", token |-> t, open |-> open, pkg |-> p, late |-> t \in Dead], "auth")
  /\ Elsewhere

FindPackage(a) ==
  /\ pc[a] = "version" /\ call[a].op = "embed"
  /\ Step(a, IF metadata[call[a].pkg] = None THEN "not_found" ELSE "update")
  /\ Elsewhere

\* One statement inserts or replaces the row; its answer may still be lost.
Embed(a) ==
  /\ pc[a] = "update" /\ call[a].op = "embed"
  /\ updated' = updated \cup {a}
  /\ \E answer \in {"done", "error"} : Step(a, answer)
  /\ UNCHANGED <<registryVars, yanked, trail, lost, overlapped, readVars>>

\* The request times out or its connection closes: the handler is dropped
\* where it is.
DropRequest(a) ==
  /\ Changing(a)
  /\ Step(a, "dropped")
  /\ lost' = IF pc[a] = "audit" THEN lost \cup {call[a].pv} ELSE lost
  /\ UNCHANGED <<registryVars, yanked, trail, updated, overlapped, readVars>>

-----------------------------------------------------------------------------
\* visible_versions_desc, as a set; its order is that of the numbers.
Visible(p) == {v \in Version : published[<<p, v>>] # None /\ ~yanked[<<p, v>>]}

latest_visible_version(p) == IF Visible(p) = {} THEN 0 ELSE Max(Visible(p))

ReceiveRead(a) ==
  /\ Start(a, [op |-> "read"], "rows")
  /\ UNCHANGED <<registryVars, yankVars, readVars>>

\* One query for the package rows: the one named, or those of a page.
ReadRows(a) ==
  /\ pc[a] = "rows"
  /\ \E page \in SUBSET {p \in Package : metadata[p] # None} :
       /\ rows' = [rows EXCEPT ![a] = {[pkg |-> p, meta |-> metadata[p]] : p \in page}]
       /\ Step(a, IF page = {} THEN "done" ELSE "versions")
  /\ UNCHANGED <<registryVars, yankVars, items>>

\* Then one query per package for its version rows.
ReadVersions(a) ==
  /\ pc[a] = "versions"
  /\ \E row \in rows[a] :
       /\ items' = [items EXCEPT ![a] = @ \cup
            {[pkg |-> row.pkg, meta |-> row.meta,
              versions |-> {v \in Version : published[<<row.pkg, v>>] # None},
              latest |-> latest_visible_version(row.pkg)]}]
       /\ rows' = [rows EXCEPT ![a] = @ \ {row}]
       /\ Step(a, IF rows[a] = {row} THEN "answered" ELSE "versions")
  /\ UNCHANGED <<registryVars, yankVars>>

\* The client follows one of the latest versions it was told.
Follow(a) ==
  /\ pc[a] = "answered"
  /\ \E item \in items[a] :
       /\ item.latest # 0
       /\ items' = [items EXCEPT ![a] = {item}]
  /\ Step(a, "get_version")
  /\ UNCHANGED <<registryVars, yankVars, rows>>

\* Mutation: a yanked version cannot be looked up.
FoundUnyanked(pv) == published[pv] # None /\ ~yanked[pv]

\* get_version, get_artifact and get_file find yanked versions too.
Found(pv) == published[pv] # None

LatestOf(a) == LET item == CHOOSE i \in items[a] : TRUE IN <<item.pkg, item.latest>>

GetVersion(a) ==
  /\ pc[a] = "get_version"
  /\ Step(a, IF Found(LatestOf(a)) THEN "get_artifact" ELSE "not_found")
  /\ Elsewhere

\* get_artifact finds a version row by digest, then the store by its key.
GetArtifact(a) ==
  /\ pc[a] = "get_artifact"
  /\ Step(a, IF \E pv \in Released : Found(pv) /\ published[pv] = published[LatestOf(a)]
                                       /\ published[pv] \in blobs
             THEN "done" ELSE "not_found")
  /\ Elsewhere

Next ==
  \/ Publish
  \/ TokensNext /\ Elsewhere
  \/ \E a \in Actor :
       \/ \E t \in Token \cup {None}, open \in Open, pv \in Yankable, flag \in BOOLEAN :
            ReceiveYank(a, t, open, pv, flag)
       \/ \E t \in Token \cup {None}, open \in Open, p \in Package : ReceiveEmbedding(a, t, open, p)
       \/ Authorize(a) \/ FindVersion(a) \/ Update(a) \/ QueryFails(a)
       \/ FindPackage(a) \/ Embed(a)
       \/ RecordAudit(a) \/ DropRequest(a)
       \/ ReceiveRead(a) \/ ReadRows(a) \/ ReadVersions(a)
       \/ Follow(a) \/ GetVersion(a) \/ GetArtifact(a)

Spec == Init /\ [][Next]_vars

-----------------------------------------------------------------------------
(***************************************************************************)
(* A request that arrives when its token is dead (the revoke-token command *)
(* that names it has returned, or it has expired) changes nothing.  Two    *)
(* commands may be revoking the same rows at once, and one of them may     *)
(* fail half-way.                                                          *)
(***************************************************************************)
RevokedTokenActsNoMore ==
  \A a \in Actor :
    call[a].op \in {"yank", "embed"} /\ call[a].late => a \notin updated

(***************************************************************************)
(* On a replica with authentication disabled the first requests race to    *)
(* insert the operator row, and losing that race refuses none of them: a   *)
(* request that is neither dropped nor failed by the database gets past    *)
(* require_token, to act by the row that is there.                         *)
(***************************************************************************)
OperatorRaceIsHarmless ==
  \A a \in Actor :
    call[a].op \in {"yank", "embed"} /\ call[a].open
      /\ pc[a] \notin {"auth", "insert", "refind", "refind_failed", "dropped", "error"} =>
        by[a] = Operator /\ tokens[Operator] # None

LastFlag(pv) ==
  LET at == {i \in DOMAIN trail : trail[i].pv = pv}
  IN at # {} /\ trail[Max(at)].flag

(***************************************************************************)
(* The trail tells how the flags came to be.  It holds no entry for an     *)
(* update that was not applied, and misses one only if the request was     *)
(* dropped, failed, or could not record it; and unless that happened to a  *)
(* version, or two requests were changing it at one time, its last entry   *)
(* is its flag.                                                            *)
(***************************************************************************)
TrailFollowsFlags ==
  /\ \A i \in DOMAIN trail :
       LET a == trail[i].by
       IN a \in updated /\ trail[i].pv = call[a].pv /\ trail[i].flag = call[a].flag
  /\ \A a \in updated : call[a].op = "yank" =>
       \/ pc[a] = "audit" \/ call[a].pv \in lost
       \/ \E i \in DOMAIN trail : trail[i].by = a
  /\ \A pv \in Yankable \ (lost \cup overlapped) :
       (\A a \in Actor : pc[a] = "audit" => call[a].pv # pv) =>
         (yanked[pv] <=> LastFlag(pv))

(***************************************************************************)
(* A summary never describes a package by a release it has not seen: the   *)
(* package row is read first, and the release that set it is among the     *)
(* version rows read after it, whatever is published in between.           *)
(***************************************************************************)
SummaryNotAheadOfVersions ==
  \A a \in Actor : \A item \in items[a] :
    /\ item.meta \in item.versions
    /\ item.latest \in item.versions \cup {0}

(***************************************************************************)
(* The latest version a client was told can be looked up and fetched ever  *)
(* after, also when it is yanked before the client gets to it.             *)
(***************************************************************************)
LatestStaysFetchable == \A a \in Actor : call[a].op = "read" => pc[a] # "not_found"
=============================================================================
