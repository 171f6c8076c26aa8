------------------------------- MODULE Router --------------------------------
(***************************************************************************)
(* The layers of src/src/routes/mod.rs a request passes on its way in:     *)
(* the timeout, the cap on requests in flight, the rate limiter, the cap   *)
(* on artifact reads, the handler; and get_file, which hands its           *)
(* extraction to the blocking pool.  axum applies a layer to every         *)
(* endpoint by itself, so each route has permits of its own.               *)
(*                                                                         *)
(* A request is "queued" for the route's permit, "admitted" with it,       *)
(* "waiting" for an artifact permit, in its "handler", and "extracting"    *)
(* while it awaits its task; then it is answered.  A client may send its   *)
(* next request after the answer.                                          *)
(***************************************************************************)
EXTENDS Integers, FiniteSets

CONSTANTS
  Client,
  RouteOf,                  \* the route each client asks for
  ArtifactRoutes,           \* routes with the second cap
  FileRoute,                \* the one that extracts
  MAX_IN_FLIGHT_REQUESTS,
  artifact_serve_concurrency

ASSUME RouterAssumption ==
  /\ MAX_IN_FLIGHT_REQUESTS \in Nat \ {0}
  /\ artifact_serve_concurrency \in 1..MAX_IN_FLIGHT_REQUESTS

VARIABLE at   \* at[c]: where the client's request is

\* A request holds a permit from the moment it is let in until its future
\* resolves.  An extraction holds none, and goes on when its request is gone.
InFlight == {"admitted", "waiting", "handler", "extracting"}
Reading == {"handler", "extracting"}
Open == {"queued"} \cup InFlight

RouterInit == at = [c \in Client |-> "idle"]

Holders(route, where) == {c \in Client : RouteOf[c] = route /\ at[c] \in where}

Move(c, from, to) ==
  /\ at[c] \in from
  /\ at' = [at EXCEPT ![c] = to]

Send(c) == Move(c, {"idle", "answered"}, "queued")

FreePermit(route) == Cardinality(Holders(route, InFlight)) < MAX_IN_FLIGHT_REQUESTS

FreeArtifactPermit(route) ==
  Cardinality(Holders(route, Reading)) < artifact_serve_concurrency

LetIn(c) ==
  /\ FreePermit(RouteOf[c])
  /\ Move(c, {"queued"}, "admitted")

\* The rate limiter sits inside the cap: a refused request held a permit too.
RateLimited(c) == Move(c, {"admitted"}, "answered")

PassLimiter(c) ==
  Move(c, {"admitted"}, IF RouteOf[c] \in ArtifactRoutes THEN "waiting" ELSE "handler")

ReadArtifact(c) ==
  /\ FreeArtifactPermit(RouteOf[c])
  /\ Move(c, {"waiting"}, "handler")

\* The handler answers, or fails, at one of its awaits.
Handle(c) == Move(c, {"handler"}, "answered")

\* get_file has the archive in memory and spawns the extraction.
Extract(c) == RouteOf[c] = FileRoute /\ Move(c, {"handler"}, "extracting")

\* The extraction ends, if it ever does.
TaskEnds(c) == Move(c, {"extracting"}, "answered")

\* Mutation: the extraction runs inside the handler, and a future that does
\* not yield cannot be timed out.
TimeOutUnlessExtracting(c) == Move(c, Open \ {"extracting"}, "answered")

\* REQUEST_TIMEOUT passes, wherever the request is: its future is dropped and
\* its permits are free.  Its extraction is not stopped.
TimeOut(c) == Move(c, Open, "answered")

RouterNext ==
  \E c \in Client :
    \/ Send(c) \/ LetIn(c) \/ RateLimited(c) \/ PassLimiter(c) \/ ReadArtifact(c)
    \/ Handle(c) \/ Extract(c) \/ TaskEnds(c) \/ TimeOut(c)

RouterSpec == RouterInit /\ [][RouterNext]_at

\* Timers fire, and a request that is waiting for anything can be dropped.
RouterFair == \A c \in Client : WF_at(TimeOut(c))

-----------------------------------------------------------------------------
(***************************************************************************)
(* No route is wedged, by requests that queue or by extractions that never *)
(* end: every request is answered, and no route stays without a free       *)
(* permit, of either kind, for ever.                                       *)
(***************************************************************************)
RouteNeverWedged ==
  /\ \A c \in Client : at[c] \in Open ~> at[c] = "answered"
  /\ \A c \in Client :
       /\ []<>FreePermit(RouteOf[c])
       /\ RouteOf[c] \in ArtifactRoutes => []<>FreeArtifactPermit(RouteOf[c])
=============================================================================
