-------------------------- MODULE RequestPipeline --------------------------
(***************************************************************************)
(* The way of a request through the middlewares (app/main.py,              *)
(* app/core/middleware.py) and error handlers (app/core/errors.py) to its  *)
(* handler and back, and the request counters it leaves behind             *)
(* (app/core/metrics.py).  Requests share the process; handlers and the    *)
(* reader of the summary run in threads beside the event loop, and the     *)
(* counters are kept under one lock.  The security headers, which every    *)
(* request passes unchanged, are left out.  CORS_ORIGINS is not empty, as  *)
(* by default: without origins there is no CORS layer, and a preflight is  *)
(* a request like any other.                                               *)
(***************************************************************************)
EXTENDS Integers, Sequences, FiniteSets

CONSTANTS
    Requests,    \* requests; one also stands for its X-Request-ID
    NoId,        \* no id
    Nobody       \* the lock is free

\* An id is not the absence of one, and a process answers finitely many requests.
ASSUME PipelineAssumption ==
    NoId \notin Requests /\ Nobody \notin Requests /\ IsFiniteSet(Requests)

VARIABLES
    request,     \* where each request is, and its answer
    state,       \* request.state.request_id
    ctx,         \* request_id_ctx_var, in the context of each request
    metrics,     \* the request counters of OperationalMetrics
    lock,        \* OperationalMetrics._lock
    summary      \* what get_summary returned last

pipelineVars == <<request, state, ctx, metrics, lock, summary>>

\* How the handler, or what is in front of it, deals with a request: exhausted
\* is a monthly quota, broken an exception that nobody handles.
RequestKinds == {"fine", "denied", "throttled", "exhausted", "failing", "broken", "oversized",
                 "preflight", "disallowed"}

\* What CORSMiddleware answers itself: OPTIONS with Origin and
\* Access-Control-Request-Method, from an allowed origin or from another one.
Preflights == {"preflight", "disallowed"}

StatusOf == [fine      |-> 200, denied  |-> 401, throttled |-> 429, exhausted |-> 429,
             oversized |-> 413, failing |-> 500, broken    |-> 500,
             preflight |-> 200, disallowed |-> 400]

Class(status) == status \div 100
Classes == 2 .. 5

Outside == [at |-> "nowhere", pos |-> 0, kind |-> "fine", status |-> 0,
            header |-> NoId, envelope |-> NoId]

Zero == [requests |-> 0, class |-> [c \in Classes |-> 0], errors |-> 0,
         denied |-> 0, rejected |-> 0, exhausted |-> 0]

\* Mutant: in the order a reader of create_app may expect them to run.
AddedReversed == <<"cors", "correlation", "limit">>

\* The calls of add_middleware in create_app.
Added == <<"limit", "correlation", "cors">>

\* The last one added is the outermost.
Stack == [i \in 1 .. Len(Added) |-> Added[Len(Added) + 1 - i]]
Inside == Len(Stack) + 1

AtLayer(r, at, layer) == /\ request[r].at = at
                    /\ request[r].pos \in 1 .. Len(Stack)
                    /\ Stack[request[r].pos] = layer

\* get_current_request_id(), or what the request object carries.
CurrentId(r) == IF ctx[r] # NoId THEN ctx[r] ELSE state[r]

\* A response goes out from where the request is; errors are in an envelope.
\* (The text of a refused preflight is none: it names no id.)
Answered(r, from, id) ==
    request' = [request EXCEPT ![r].at = "out", ![r].pos = from,
                               ![r].status = StatusOf[request[r].kind],
                               ![r].envelope = IF StatusOf[request[r].kind] >= 400 THEN id ELSE NoId]

-----------------------------------------------------------------------------
(* Inward.                                                                 *)

Arrive(r) ==
    /\ request[r].at = "nowhere"
    /\ \E kind \in RequestKinds :
           request' = [request EXCEPT ![r].at = "in", ![r].pos = 1, ![r].kind = kind]
    /\ UNCHANGED <<state, ctx, metrics, lock, summary>>

\* The CORS layer answers a preflight itself and passes on everything else.
Cors(r) ==
    /\ AtLayer(r, "in", "cors")
    /\ IF request[r].kind \in Preflights
         THEN Answered(r, request[r].pos - 1, NoId)
         ELSE request' = [request EXCEPT ![r].pos = @ + 1]
    /\ UNCHANGED <<state, ctx, metrics, lock, summary>>

\* Mutant: the id is kept in a variable of the module.
SetIdGlobally(r) == ctx' = [q \in Requests |-> r]

\* A context variable is set for the tasks and threads of this request only.
SetId(r) == ctx' = [ctx EXCEPT ![r] = r]

Correlate(r) ==
    /\ AtLayer(r, "in", "correlation")
    /\ SetId(r)
    /\ state' = [state EXCEPT ![r] = r]
    /\ request' = [request EXCEPT ![r].pos = @ + 1]
    /\ UNCHANGED <<metrics, lock, summary>>

\* RequestBodyLimitMiddleware passes the request on or answers it itself.
LimitBody(r) ==
    /\ AtLayer(r, "in", "limit")
    /\ IF request[r].kind = "oversized"
         THEN Answered(r, request[r].pos - 1, IF state[r] # NoId THEN state[r] ELSE ctx[r])
         ELSE request' = [request EXCEPT ![r].pos = @ + 1]
    /\ UNCHANGED <<state, ctx, metrics, lock, summary>>

\* reserve_usage counts a refusal before the handler answers.
CountExhausted(r) ==
    /\ request[r].at = "in" /\ request[r].pos = Inside
    /\ request[r].kind = "exhausted"
    /\ lock = Nobody
    /\ metrics' = [metrics EXCEPT !.exhausted = @ + 1]
    /\ Answered(r, Len(Stack), CurrentId(r))
    /\ UNCHANGED <<state, ctx, lock, summary>>

\* The handler returns, or raises what an exception handler inside the
\* middlewares turns into an answer.
Handle(r) ==
    /\ request[r].at = "in" /\ request[r].pos = Inside
    /\ request[r].kind \notin {"exhausted", "broken"}
    /\ Answered(r, Len(Stack), CurrentId(r))
    /\ UNCHANGED <<state, ctx, metrics, lock, summary>>

\* It raises something else: the handler of Exception is outside them all.
Break(r) ==
    /\ request[r].at = "in" /\ request[r].pos = Inside
    /\ request[r].kind = "broken"
    /\ request' = [request EXCEPT ![r].at = "raise", ![r].pos = Len(Stack)]
    /\ UNCHANGED <<state, ctx, metrics, lock, summary>>

-----------------------------------------------------------------------------
(* Outward.                                                                *)

PassOut(r) ==
    /\ AtLayer(r, "out", "limit") \/ AtLayer(r, "out", "cors")
    /\ request' = [request EXCEPT ![r].pos = @ - 1]
    /\ UNCHANGED <<state, ctx, metrics, lock, summary>>

\* The first half of record_request: totals and classes.
CountRequest(r) ==
    /\ AtLayer(r, "out", "correlation")
    /\ lock = Nobody
    /\ lock' = r
    /\ metrics' = [metrics EXCEPT !.requests = @ + 1, !.class[Class(request[r].status)] = @ + 1]
    /\ request' = [request EXCEPT ![r].at = "record", ![r].header = r]
    /\ UNCHANGED <<state, ctx, summary>>

\* The second half: errors and rejections.  The context variable is reset.
CountErrors(r) ==
    LET one(condition) == IF condition THEN 1 ELSE 0
    IN /\ AtLayer(r, "record", "correlation")
       /\ lock' = Nobody
       /\ metrics' = [metrics EXCEPT
            !.errors   = @ + one(request[r].status >= 400),
            !.denied   = @ + one(request[r].status \in {401, 403}),
            !.rejected = @ + one(request[r].status = 429)]
       /\ ctx' = [ctx EXCEPT ![r] = NoId]
       /\ request' = [request EXCEPT ![r].at = "out", ![r].pos = @ - 1]
       /\ UNCHANGED <<state, summary>>

\* An exception passes a middleware: call_next raises, and only finally runs.
Raise(r) ==
    /\ request[r].at = "raise" /\ request[r].pos > 0
    /\ request' = [request EXCEPT ![r].pos = @ - 1]
    /\ ctx' = IF Stack[request[r].pos] = "correlation" THEN [ctx EXCEPT ![r] = NoId] ELSE ctx
    /\ UNCHANGED <<state, metrics, lock, summary>>

\* handle_unhandled_exception.
ServerError(r) ==
    /\ request[r].at = "raise" /\ request[r].pos = 0
    /\ Answered(r, 0, CurrentId(r))
    /\ UNCHANGED <<state, ctx, metrics, lock, summary>>

Send(r) ==
    /\ request[r].at = "out" /\ request[r].pos = 0
    /\ request' = [request EXCEPT ![r].at = "sent"]
    /\ UNCHANGED <<state, ctx, metrics, lock, summary>>

-----------------------------------------------------------------------------
\* Mutant: the counters are read without the lock.
GetSummaryUnlocked ==
    /\ summary' = metrics
    /\ UNCHANGED <<request, state, ctx, metrics, lock>>

\* get_summary, in the thread of a request to /diagnostics.
GetSummary ==
    /\ lock = Nobody
    /\ summary' = metrics
    /\ UNCHANGED <<request, state, ctx, metrics, lock>>

PipelineInit ==
    /\ request = [r \in Requests |-> Outside]
    /\ state = [r \in Requests |-> NoId]
    /\ ctx = [r \in Requests |-> NoId]
    /\ metrics = Zero
    /\ lock = Nobody
    /\ summary = Zero

RequestStep(r) ==
    \/ Arrive(r) \/ Cors(r) \/ Correlate(r) \/ LimitBody(r)
    \/ CountExhausted(r) \/ Handle(r) \/ Break(r)
    \/ PassOut(r) \/ CountRequest(r) \/ CountErrors(r)
    \/ Raise(r) \/ ServerError(r) \/ Send(r)

PipelineNext == GetSummary \/ \E r \in Requests : RequestStep(r)

PipelineSpec == PipelineInit /\ [][PipelineNext]_pipelineVars

-----------------------------------------------------------------------------
Sent(c) == {r \in Requests : request[r].at = "sent" /\ Class(request[r].status) = c}

\* What is answered inside the correlation middleware, or by itself: not the
\* preflights, which do not reach it, nor what is raised past it.
Handled == {r \in Requests : request[r].kind \notin Preflights \union {"broken"}}

\* A summary is of one moment, although requests are being counted while it is
\* asked for: its classes add up to its total, its errors to the classes of
\* errors, and the rejections it names are among them.  The error rate that
\* /diagnostics works out from it is never above 100 %.
SummaryIsConsistent ==
    /\ summary.requests = summary.class[2] + summary.class[3] + summary.class[4] + summary.class[5]
    /\ summary.errors = summary.class[4] + summary.class[5]
    /\ summary.denied + summary.rejected <= summary.class[4]

\* Every answer given inside the correlation middleware has been counted by the
\* time it is sent, also those a middleware in there gives itself; nothing is
\* counted twice, and neither a preflight nor an exception nobody handles ever is.
HandledAnswersAreCounted ==
    /\ \A c \in Classes : metrics.class[c] >= Cardinality(Sent(c) \cap Handled)
    /\ metrics.requests <= Cardinality({r \in Handled : request[r].at # "nowhere"})

\* The request_id of an error envelope is that of the request it answers, not of
\* another one in the process, even when the context has been left already; and
\* every answer given inside the correlation middleware carries it in
\* X-Request-ID.  The answer to a preflight has neither.
AnswersNameTheirRequest ==
    \A r \in Requests : request[r].at = "sent" =>
        /\ request[r].status >= 400 /\ request[r].kind \notin Preflights => request[r].envelope = r
        /\ r \in Handled => request[r].header = r

=============================================================================
