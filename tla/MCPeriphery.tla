----------------------------- MODULE MCPeriphery -----------------------------
(***************************************************************************)
(* The components around the queue that share no state with each other:    *)
(* the rate limiter, the middlewares and request counters, the cache of    *)
(* /diagnostics, the pages of the listing, and the row locks.  Steps of    *)
(* different ones commute, so one instance has them all: the scene of a    *)
(* behaviour is the component that moves in it, and the states of the      *)
(* components add up instead of multiplying.                               *)
(***************************************************************************)
EXTENDS RateLimiter, RequestPipeline, Diagnostics, RowLocks, Listing, TLC

CONSTANTS
    u1, u2,                   \* users of the rate limiter
    q1, q2,                   \* requests of the pipeline
    g1, g2, j1,               \* readers and a job of the diagnostics
    p1, p2, w1, w2, r1        \* users, workers and a request, with their locks

VARIABLE scene

TwoUsers   == {u1, u2}
TwoArrivals == {q1, q2}
TwoReaders == {g1, g2}
OneJob     == {j1}

\* A job of each of two users, two workers, and one request or cleanup.
TwoOwners  == {p1, p2}
TwoJobs    == {1, 2}
OwnerOf    == 1 :> p1 @@ 2 :> p2
TwoWorkers == {w1, w2}
OneHandler == {r1}

\* Three jobs, with the filter status = running.
ThreeIds    == 1 .. 3
OnlyRunning == {"running"}

limiter  == vars
pipeline == pipelineVars
figures  == diagnosticsVars
pages    == listingVars
locks    == lockVars

-----------------------------------------------------------------------------
ScenesInit ==
    /\ scene \in {"limiter", "pipeline", "figures", "pages", "locks"}
    /\ Init /\ PipelineInit /\ DiagnosticsInit /\ ListingInit /\ LocksInit

LimiterMoves ==
    /\ scene = "limiter" /\ Next
    /\ UNCHANGED <<scene, pipeline, figures, pages, locks>>

PipelineMoves ==
    /\ scene = "pipeline" /\ PipelineNext
    /\ UNCHANGED <<scene, limiter, figures, pages, locks>>

FiguresMove ==
    /\ scene = "figures" /\ DiagnosticsNext
    /\ UNCHANGED <<scene, limiter, pipeline, pages, locks>>

PagesMove ==
    /\ scene = "pages" /\ ListingNext
    /\ UNCHANGED <<scene, limiter, pipeline, figures, locks>>

LocksMove ==
    /\ scene = "locks" /\ LocksNext
    /\ UNCHANGED <<scene, limiter, pipeline, figures, pages>>

\* Where a behaviour may stop: the client has read its last page, or everybody
\* has begun what the bound allows and is through with it.  Anywhere else a
\* component that cannot move is a deadlock.
Rest ==
    /\ \/ scene = "pages" /\ walk.at = "done"
       \/ scene = "locks" /\ \A a \in Actors : Idle(a) /\ begun[a] = 1
    /\ UNCHANGED <<scene, limiter, pipeline, figures, pages, locks>>

ScenesNext == \/ LimiterMoves \/ PipelineMoves \/ FiguresMove
              \/ PagesMove \/ LocksMove \/ Rest

Scenes ==
    ScenesInit /\ [][ScenesNext]_<<scene, limiter, pipeline, figures, pages, locks>>

Symmetry == Permutations(Users)
=============================================================================
