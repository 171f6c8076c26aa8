------------------------------ MODULE Registry -------------------------------
(***************************************************************************)
(* What publishing promises, whatever the handlers, the transactions and   *)
(* the store do in between: a package version is written once and never    *)
(* changes; the package's metadata is that of its latest release; and a    *)
(* release appears only when the artifact it names is already stored and   *)
(* stays stored.  It is the promise of src/formal/package_publication.qnt, *)
(* for any number of packages, versions and publishers.                    *)
(***************************************************************************)
CONSTANTS
  Package, Version,
  Blob,      \* keys of stored artifacts
  Row,       \* the values a version row may have
  BlobOf,    \* BlobOf[row]: the artifact a version row names
  Meta,      \* package metadata: description, vcs, repository, scheme, tags
  None

VARIABLES
  blobs,      \* the artifacts that are stored whole
  published,  \* published[p, v]: the version row, or None
  metadata    \* metadata[p]: the package's metadata, or None

vars == <<blobs, published, metadata>>

Init ==
  /\ blobs = {}
  /\ published = [pv \in Package \X Version |-> None]
  /\ metadata = [p \in Package |-> None]

\* An artifact becomes available.  Nothing ever takes it away again.
Store(k) ==
  /\ blobs' = blobs \cup {k}
  /\ UNCHANGED <<published, metadata>>

\* The version row and the package metadata become visible together.
Release(p, v, row, m) ==
  /\ published[<<p, v>>] = None
  /\ BlobOf[row] \in blobs
  /\ published' = [published EXCEPT ![<<p, v>>] = row]
  /\ metadata' = [metadata EXCEPT ![p] = m]
  /\ UNCHANGED blobs

Next ==
  \/ \E k \in Blob : Store(k)
  \/ \E p \in Package, v \in Version, row \in Row, m \in Meta : Release(p, v, row, m)

Spec == Init /\ [][Next]_vars
=============================================================================
