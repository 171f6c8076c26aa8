----------------------------- MODULE MCOrgClaim ------------------------------
(***************************************************************************)
(* An instance of OrgClaim: two tokens scoped to a home org the operator   *)
(* made, and an admin.  hashtext gives the scoped tokens one lock key, so  *)
(* claims wait for each other whose quotas have nothing in common.         *)
(***************************************************************************)
EXTENDS OrgClaim

CONSTANTS scoped, twin, admin, home

MCScope == [t \in Token |-> IF t = admin THEN None ELSE home]

MCLockOf == [t \in Token |-> IF t = twin THEN scoped ELSE t]

\* What the claims ask for: one token is enough to try a name that is no slug,
\* and one to try its own org.
MCAsked ==
  {q \in ClaimRequest : /\ q.slug = Malformed => q.token = admin
                        /\ q.slug = home => q.token = scoped}

MCNext == Next /\ \A c \in Claim : req'[c] \in MCAsked \cup {None}

MCSpec == Init /\ [][MCNext]_vars /\ Fairness
=============================================================================
