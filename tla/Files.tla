-------------------------------- MODULE Files --------------------------------
(***************************************************************************)
(* extract_file of src/src/files.rs: one file out of a stored artifact,    *)
(* within a budget of inflated bytes.  Sizes are in bytes.  The readers    *)
(* below it, the crates tar, zip and flate2, are external:                 *)
(*                                                                         *)
(*   - a tar archive is read header by header, each of BLOCK bytes (512);  *)
(*     the data of an entry are padded to whole blocks; the scan ends at   *)
(*     the first block of zeros, or where the stream ends between two      *)
(*     entries.  A pax or long-name record is an entry that is not wanted. *)
(*   - a zip entry is looked up by its name and read alone; its data are   *)
(*     checked once they are read to the end.                              *)
(*                                                                         *)
(* An archive is the sequence of its entries: whether it is the wanted     *)
(* path, the size its header declares, the bytes really there (padding     *)
(* included, in a tar archive), and what of it cannot be read.             *)
(***************************************************************************)
EXTENDS Integers, Sequences, FiniteSetsExt, Functions

CONSTANTS
  MAX_SERVED_FILE_BYTES,
  max_inflated_bytes,
  BLOCK,          \* bytes of a tar header and of the mark that ends a tar archive
  MaxEntries,     \* bound on the entries of an archive
  Sizes           \* sizes of entries

ASSUME FilesAssumption ==
  /\ MAX_SERVED_FILE_BYTES \in Nat /\ max_inflated_bytes \in Nat \ {0}
  /\ BLOCK \in Nat \ {0} /\ MaxEntries \in Nat /\ Sizes \subseteq Nat

VARIABLES
  archive, format,
  tail,        \* after the last tar entry: BLOCK is an end mark, 0 nothing, less a cut header
  fault,       \* the gzip stream ends in an error; the zip directory is unreadable
  entry,       \* the entry the scan is at
  remaining,   \* what BudgetReader still lets through
  inflated,    \* what has been decompressed
  found        \* the outcome: "scanning" until there is one

fileVars == <<archive, format, tail, fault, entry, remaining, inflated, found>>

Padded(n) == ((n + BLOCK - 1) \div BLOCK) * BLOCK

Entry == [wanted : BOOLEAN, declared : Sizes, actual : UNION {0..Padded(n) : n \in Sizes},
          torn : {"none", "header", "data"}]

TarEntry == {e \in Entry : e.actual <= Padded(e.declared) /\ e.torn # "data"}

Whole(e) == e.actual = Padded(e.declared)

\* Mutation: no room for the read that finds the end of the archive.
BudgetTight == max_inflated_bytes

\* One more, so that an archive of exactly the budget still scans cleanly.
Budget == max_inflated_bytes + 1

\* A tar stream that ends within an entry ends there.
FilesInit ==
  /\ fault \in BOOLEAN
  /\ \E n \in 0..MaxEntries :
       \/ /\ format = "tar.gz" /\ archive \in [1..n -> TarEntry] /\ tail \in 0..BLOCK
          /\ \A i \in 1..n : ~Whole(archive[i]) => i = n /\ tail = 0
       \/ format = "zip" /\ archive \in [1..n -> Entry] /\ tail = 0
  /\ entry = 1
  /\ remaining = Budget
  /\ inflated = 0
  /\ found = "scanning"

Scan(outcome) ==
  /\ found = "scanning"
  /\ found' = outcome
  /\ UNCHANGED <<archive, format, tail, fault>>

(***************************************************************************)
(* Decompress n bytes through BudgetReader and, when the stream ends       *)
(* there, read once more to learn it.  With nothing remaining a read fails *)
(* before it looks: the scan ends.                                         *)
(***************************************************************************)
Inflate(n, ends, outcome) ==
  IF n <= remaining /\ (ends => n < remaining)
  THEN /\ Scan(outcome)
       /\ inflated' = inflated + n
       /\ remaining' = remaining - n
  ELSE /\ Scan("archive_too_large")
       /\ inflated' = inflated + remaining
       /\ remaining' = 0

\* Entries are read in order: the wanted one is served if it is small enough,
\* cut short if the stream ends in it, and any other is decompressed, with its
\* padding, to get past it.
TarEntryRead ==
  /\ format = "tar.gz" /\ entry \in DOMAIN archive
  /\ LET e == archive[entry]
         cut == e.actual < e.declared
     IN IF e.torn = "header" THEN Inflate(BLOCK, FALSE, "internal")
        ELSE IF ~e.wanted
             THEN Inflate(BLOCK + e.actual, ~Whole(e), IF Whole(e) THEN "scanning" ELSE "internal")
        ELSE IF e.declared > MAX_SERVED_FILE_BYTES THEN Inflate(BLOCK, FALSE, "file_too_large")
        ELSE IF cut THEN Inflate(BLOCK + e.actual, TRUE, IF fault THEN "internal" ELSE "file")
        ELSE Inflate(BLOCK + e.declared, FALSE, "file")
  /\ entry' = IF found' = "scanning" THEN entry + 1 ELSE entry

\* The end mark is a whole block, read through the same budget.
TarEnd ==
  /\ format = "tar.gz" /\ entry = Len(archive) + 1
  /\ Inflate(tail, tail < BLOCK,
             IF tail = BLOCK \/ (tail = 0 /\ ~fault) THEN "not_found" ELSE "internal")
  /\ UNCHANGED entry

\* Mutation: the size the entry declares is trusted.
ZipReadTrusting(e) == [inflates |-> e.actual, outcome |-> "file"]

\* read_capped: stop one past the cap, whatever size was declared; the data are
\* found broken only where they end.
ZipRead(e) ==
  IF e.actual > MAX_SERVED_FILE_BYTES
  THEN [inflates |-> MAX_SERVED_FILE_BYTES + 1, outcome |-> "file_too_large"]
  ELSE [inflates |-> e.actual, outcome |-> IF e.torn = "data" THEN "internal" ELSE "file"]

Wanted == {i \in DOMAIN archive : archive[i].wanted}

\* A zip entry is looked up by its name and read alone; which of several of one
\* name is found is the crate's choice.
ZipFile ==
  /\ format = "zip"
  /\ IF fault THEN Scan("internal") /\ UNCHANGED <<entry, inflated>>
     ELSE IF Wanted = {} THEN Scan("not_found") /\ UNCHANGED <<entry, inflated>>
     ELSE \E i \in Wanted :
       LET e == archive[i] IN
       /\ entry' = i
       /\ IF e.torn = "header" THEN Scan("internal") /\ UNCHANGED inflated
          ELSE IF e.declared > MAX_SERVED_FILE_BYTES
               THEN Scan("file_too_large") /\ UNCHANGED inflated
          ELSE Scan(ZipRead(e).outcome) /\ inflated' = inflated + ZipRead(e).inflates
  /\ UNCHANGED remaining

FilesNext == TarEntryRead \/ TarEnd \/ ZipFile

FilesSpec == FilesInit /\ [][FilesNext]_fileVars

-----------------------------------------------------------------------------
\* The bytes of a tar archive: headers, data, padding and end mark.
Total == tail + FoldFunction(LAMBDA e, sum : BLOCK + e.actual + sum, 0, archive)

\* Bytes of entry i that are served.
Served(i) == IF format = "tar.gz" THEN Min({archive[i].declared, archive[i].actual})
             ELSE archive[i].actual

\* What is broken where the scan is.
DamageAt(i) ==
  IF format = "zip" THEN fault \/ (i \in Wanted /\ archive[i].torn # "none")
  ELSE IF i \in DOMAIN archive THEN archive[i].torn = "header" \/ ~Whole(archive[i])
  ELSE tail < BLOCK

(***************************************************************************)
(* One request never decompresses more than the budget and one byte, or    *)
(* one file more than is served; yet an archive is refused for its size    *)
(* only when its headers, padded data and end mark are more than the       *)
(* budget, a file ahead of the bomb is served, one is reported missing     *)
(* only after everything was looked at, and the archive is called broken   *)
(* only for damage met before the file.                                    *)
(***************************************************************************)
ExtractionHonoursBudget ==
  /\ inflated <= Max({max_inflated_bytes, MAX_SERVED_FILE_BYTES}) + 1
  /\ CASE found = "scanning" -> TRUE
       [] found = "file" ->
            /\ entry \in Wanted
            /\ Served(entry) <= MAX_SERVED_FILE_BYTES
            /\ format = "tar.gz" => entry = Min(Wanted)
            /\ format = "zip" => archive[entry].torn = "none"
       [] found = "not_found" -> Wanted = {}
       [] found = "file_too_large" ->
            \E i \in Wanted : MAX_SERVED_FILE_BYTES < Max({archive[i].declared, archive[i].actual})
       [] found = "archive_too_large" -> format = "tar.gz" /\ Total > max_inflated_bytes
       [] found = "internal" ->
            DamageAt(entry) /\ (format = "tar.gz" => \A i \in Wanted : entry <= i)
=============================================================================
