--------------------------- MODULE WorkerShutdown ---------------------------
(***************************************************************************)
(* The loop of SimulationWorker (app/worker.py) around the steps of        *)
(* JobQueue, and how it ends.  A worker process is stopped by a signal and *)
(* finishes its iteration.  With RUN_WORKER_THREAD (render.yaml) a worker  *)
(* is a daemon thread of the API process: its lifespan (app/main.py) asks  *)
(* it to stop, joins it for three seconds and exits.  Each start is a      *)
(* worker of its own: worker_id is drawn anew.                             *)
(***************************************************************************)
EXTENDS JobQueue

CONSTANT Hosted     \* workers that are threads of an API process

ASSUME HostedAssumption == Hosted \subseteq Workers

VARIABLES
    loop,      \* where each worker is in run()
    stop       \* its _stop_requested

shutVars == <<loop, stop>>
allVars  == <<vars, shutVars>>

Is(w, place) == loop[w] = place
Go(w, place)  == loop' = [loop EXCEPT ![w] = place]

-----------------------------------------------------------------------------
StartWorker(w) ==
    /\ Is(w, "unborn")
    /\ Go(w, "top")
    /\ UNCHANGED <<vars, stop>>

\* request_stop, from a signal or from the shutdown of the API.  The bound: one
\* worker is never stopped.
RequestStop(w) ==
    /\ loop[w] \in {"top", "polled", "busy"} /\ ~stop[w]
    /\ \E v \in Workers \ {w} : ~stop[v]
    /\ stop' = [stop EXCEPT ![w] = TRUE]
    /\ UNCHANGED <<vars, loop>>

\* The head of the while loop and the first test of run_once.
Poll(w) ==
    /\ Is(w, "top")
    /\ Go(w, IF stop[w] THEN "ended" ELSE "polled")
    /\ UNCHANGED <<vars, stop>>

\* run_once goes on, whatever becomes of the flag meanwhile: the candidate query
\* finds something ...
Find(w) ==
    /\ Is(w, "polled")
    /\ Select(w)
    /\ Go(w, "busy")
    /\ UNCHANGED stop

\* ... or nothing.
FindNothing(w) ==
    /\ Is(w, "polled") /\ Candidates = {}
    /\ Go(w, "top")
    /\ UNCHANGED <<vars, stop>>

\* Mutant: the flag is tested again before the claimed job is processed.
IterateUnlessStopped(w) ==
    /\ Is(w, "busy")
    /\ IF stop[w] /\ worker[w].pc = "run"
         THEN Become(w, "idle", {}) /\ UNCHANGED <<database, request, deleter, nextId, faults, history>>
         ELSE ReturnNone(w) \/ (\E s \in worker[w].todo : Handle(w, s))
    /\ loop' = IF worker'[w].pc = "idle" THEN [loop EXCEPT ![w] = "top"] ELSE loop
    /\ UNCHANGED stop

\* The rest of the iteration; an exception ends it like a return.
Iterate(w) ==
    /\ Is(w, "busy")
    /\ \/ ReturnNone(w) \/ DeadlockVictim(w) \/ Abort(w)
       \/ \E s \in worker[w].todo : Handle(w, s)
    /\ loop' = IF worker'[w].pc = "idle" THEN [loop EXCEPT ![w] = "top"] ELSE loop
    /\ UNCHANGED stop

\* The join returned or timed out, and the API process exits: a daemon thread
\* dies where it is, and its connection is closed.
Exit(w) ==
    /\ w \in Hosted /\ stop[w] /\ ~Is(w, "gone")
    /\ Go(w, "gone")
    /\ ReleaseLocks(w)
    /\ Become(w, "idle", {})
    /\ UNCHANGED <<job, used, request, deleter, nextId, faults, history, stop>>

-----------------------------------------------------------------------------
ShutdownInit == /\ Init
                /\ loop = [w \in Workers |-> "unborn"]
                /\ stop = [w \in Workers |-> FALSE]

LoopStep(w) == Poll(w) \/ Find(w) \/ FindNothing(w)

ShutdownNext ==
    \/ \E w \in Workers : \/ StartWorker(w) \/ RequestStop(w)
                          \/ LoopStep(w) \/ Iterate(w) \/ Exit(w)
    \/ /\ \/ \E r \in Requests : RequestStep(r)
          \/ \E d \in Deleters : DeleterStep(d)
          \/ \E j \in Jobs : Lapse(j) \/ Age(j)
       /\ UNCHANGED shutVars

\* Workers are started, and go through their loops as in JobQueue; a process that
\* is to exit does.
ShutdownFairness ==
    /\ \A w \in Workers : /\ WF_allVars(StartWorker(w)) /\ WF_allVars(LoopStep(w))
                          /\ SF_allVars(Find(w)) /\ SF_allVars(Iterate(w))
                          /\ WF_allVars(Exit(w))
    /\ \A r \in Requests : WF_allVars((Create(r) \/ Created(r) \/ RefundReservation(r)) /\ UNCHANGED shutVars)
    /\ \A j \in Jobs : WF_allVars((Lapse(j) \/ Age(j)) /\ UNCHANGED shutVars)

ShutdownSpec == ShutdownInit /\ [][ShutdownNext]_allVars /\ ShutdownFairness

-----------------------------------------------------------------------------
Leftover(w) == {j \in Jobs : job[j].status = "running" /\ job[j].worker = w}

\* A loop that ended by itself leaves no job behind in running, on any way out of
\* its last iteration, unless an exception did it.
EndsWithNothingLeft ==
    \A w \in Workers : Is(w, "ended") /\ faults = 0 => Leftover(w) = {}

=============================================================================
