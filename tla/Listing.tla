------------------------------- MODULE Listing -------------------------------
(***************************************************************************)
(* A client that pages through GET /v1/simulations (list_simulations in    *)
(* app/api/v1/simulations.py) while its jobs come, go and change status.   *)
(* Each page is a request of its own, and its two statements, the count    *)
(* and the page, each see what is committed when they run.  A page is      *)
(* placed by an offset, so a change in front of it moves the pages behind. *)
(***************************************************************************)
EXTENDS Integers, FiniteSets, Functions

CONSTANTS
    Ids,          \* ids of jobs, ordered as the column orders them
    PageSize,
    Wanted,       \* the statuses the status filter lets through, or all of them
    MaxMoment     \* bound of the clock

\* Completed and failed rows come, stay and go alike.
Statuses == {"pending", "running", "settled"}

ASSUME ListingAssumption ==
    /\ IsFiniteSet(Ids) /\ Ids \subseteq Int
    /\ PageSize \in Nat \ {0}
    /\ Wanted \subseteq Statuses

VARIABLES
    moment,
    row,         \* committed rows: status, or "absent", "flushed" or "deleted"
    createdAt,   \* drawn by the process that submits the job, before the commit
    walk,        \* the client: next statement, page, total of that page, done
    listed,      \* history: how often the walk was shown each job
    stayed,      \* history: jobs the filter matched ever since the walk began
    arrivals, departures   \* history: jobs the filter gained and lost meanwhile

history == <<listed, stayed, arrivals, departures>>
listingVars == <<moment, row, createdAt, walk, history>>

Matches(status) == status \in Wanted

Matching == {j \in Ids : Matches(row[j])}

\* ORDER BY created_at DESC, id DESC.
Before(i, j) == \/ createdAt[i] > createdAt[j]
                \/ createdAt[i] = createdAt[j] /\ i > j

Rank(j) == Cardinality({i \in Matching : Before(i, j)})

\* Mutant: the pages overlap by one.
OffsetOverlapping(page) == IF page = 1 THEN 0 ELSE (page - 1) * PageSize - 1

Offset(page) == (page - 1) * PageSize

\* LIMIT page_size OFFSET (page - 1) * page_size.
Items(page) == {j \in Matching : Rank(j) \in Offset(page) .. Offset(page) + PageSize - 1}

\* Mutant: the page after the next one is looked at.
HasNextOfNext(page, total) == (page + 1) * PageSize < total

HasNext(page, total) == page * PageSize < total

-----------------------------------------------------------------------------
\* What a commit does to the filtered view while the walk is under way.
Becomes(j, status) ==
    LET walking == walk.at \in {"count", "page"}
    IN /\ row' = [row EXCEPT ![j] = status]
       /\ arrivals' = arrivals + (IF walking /\ Matches(status) /\ ~Matches(row[j]) THEN 1 ELSE 0)
       /\ departures' = departures + (IF walking /\ Matches(row[j]) /\ ~Matches(status) THEN 1 ELSE 0)
       /\ stayed' = IF Matches(status) THEN stayed ELSE stayed \ {j}
       /\ UNCHANGED <<moment, walk, listed>>

\* create_simulation_job draws created_at in the process (utc_now) before it
\* inserts the row; the commit follows, and others may have committed first.
Flush(j) ==
    /\ row[j] = "absent"
    /\ createdAt' = [createdAt EXCEPT ![j] = moment]
    /\ row' = [row EXCEPT ![j] = "flushed"]
    /\ UNCHANGED <<moment, walk, history>>

CommitJob(j) == /\ row[j] = "flushed"
                /\ Becomes(j, "pending")
                /\ UNCHANGED createdAt

\* VALID_TRANSITIONS, by workers and synchronous requests.  (A job that JobQueue
\* sees claimed again once it is settled would be one more arrival.)
Transition(j) ==
    /\ \/ row[j] = "pending" /\ \E s \in {"running", "settled"} : Becomes(j, s)
       \/ row[j] = "running" /\ Becomes(j, "settled")
    /\ UNCHANGED createdAt

\* DELETE, or the retention cleanup; JobQueue says when a running job can go.
Delete(j) == /\ row[j] \in Statuses
             /\ Becomes(j, "deleted")
             /\ UNCHANGED createdAt

ClockTicks == /\ moment < MaxMoment
              /\ moment' = moment + 1
              /\ UNCHANGED <<row, createdAt, walk, history>>

-----------------------------------------------------------------------------
BeginWalk ==
    /\ walk.at = "idle"
    /\ walk' = [walk EXCEPT !.at = "count"]
    /\ stayed' = Matching
    /\ UNCHANGED <<moment, row, createdAt, listed, arrivals, departures>>

\* select(func.count(Simulation.id)).
Count ==
    /\ walk.at = "count"
    /\ walk' = [walk EXCEPT !.at = "page", !.total = Cardinality(Matching)]
    /\ UNCHANGED <<moment, row, createdAt, history>>

\* The page itself; has_next is worked out from the count before it, and the
\* client goes on for as long as it says so.
Page ==
    /\ walk.at = "page"
    /\ listed' = [j \in Ids |-> listed[j] + (IF j \in Items(walk.page) THEN 1 ELSE 0)]
    /\ walk' = IF HasNext(walk.page, walk.total)
               THEN [walk EXCEPT !.at = "count", !.page = @ + 1]
               ELSE [walk EXCEPT !.at = "done"]
    /\ UNCHANGED <<moment, row, createdAt, stayed, arrivals, departures>>

-----------------------------------------------------------------------------
ListingInit ==
    /\ moment = 0
    /\ row = [j \in Ids |-> "absent"]
    /\ createdAt = [j \in Ids |-> 0]
    /\ walk = [at |-> "idle", page |-> 1, total |-> 0]
    /\ listed = [j \in Ids |-> 0]
    /\ stayed = {}
    /\ arrivals = 0 /\ departures = 0

ClientStep == BeginWalk \/ Count \/ Page

JobStep(j) == Flush(j) \/ CommitJob(j) \/ Transition(j) \/ Delete(j)

\* Bound: the jobs are followed until the walk is over.
ListingNext == \/ ClientStep
               \/ /\ walk.at # "done"
                  /\ ClockTicks \/ \E j \in Ids : JobStep(j)

ListingSpec == ListingInit /\ [][ListingNext]_listingVars

-----------------------------------------------------------------------------
Missed == {j \in stayed : listed[j] = 0}

Repeats == SumFunction([j \in Ids |-> IF listed[j] > 1 THEN listed[j] - 1 ELSE 0])

\* list_simulations: a walk that is over has missed at most one of the jobs that were there all
\* the time for each job that came or went: one that arrives between the count
\* and the page hides the last job, one that goes away pulls the next page's
\* first job in front of it.  A walk that meets no change lists everything.
EachChangeHidesOneJob ==
    walk.at = "done" => Cardinality(Missed) <= arrivals + departures

\* list_simulations: a job is shown again only if another arrived, one repeat for each arrival;
\* jobs that go away never cause one.
OnlyArrivalsRepeat == Repeats <= arrivals
=============================================================================
