------------------------------ MODULE MCReplica ------------------------------
(***************************************************************************)
(* Four parts of one replica that share no state: its start (Boot), the    *)
(* rate limiter (RateLimit), the layers in front of the handlers (Router)  *)
(* and the extraction of one file (Files).  Their interleavings tell       *)
(* nothing the parts alone do not, so a behaviour moves one of them and    *)
(* the others rest: TLC checks the sum of their states, not the product.   *)
(***************************************************************************)
EXTENDS Boot, RateLimit, Router, Files, TLC

CONSTANTS s1, s2, cmd, key, r1, r2, c1, c2, c3, c4

VARIABLE part   \* the part that moves

\* Three clients read files, one asks for metadata.
MCRouteOf == [c \in Client |-> IF c = c4 THEN "metadata" ELSE "file"]

MCInit ==
  /\ BootInit /\ LimiterInit /\ RouterInit /\ FilesInit
  /\ part \in {"boot", "limiter", "router", "files"}
  /\ part # "boot" => trouble /\ applied = <<>>
  /\ part # "files" => archive = <<>> /\ format = "zip" /\ ~fault

MCNext ==
  /\ \/ part = "boot" /\ BootNext /\ UNCHANGED <<limiterVars, at, fileVars>>
     \/ part = "limiter" /\ LimiterNext /\ UNCHANGED <<bootVars, at, fileVars>>
     \/ part = "router" /\ RouterNext /\ UNCHANGED <<bootVars, limiterVars, fileVars>>
     \/ part = "files" /\ FilesNext /\ UNCHANGED <<bootVars, limiterVars, at>>
  /\ UNCHANGED part

MCSpec ==
  /\ MCInit
  /\ [][MCNext]_<<bootVars, limiterVars, at, fileVars, part>>
  /\ BootFair
  /\ RouterFair
=============================================================================
