-------------------------- MODULE Periphery_proofs --------------------------
(***************************************************************************)
(* Proofs about the components around the queue: RequestPipeline,          *)
(* Diagnostics, RowLocks and RateLimiter.  They share no state, and each   *)
(* has its own invariant: PipelineInv, FiguresInv, LocksInv and LimiterInv. *)
(***************************************************************************)
EXTENDS RequestPipeline, Diagnostics, RowLocks, RateLimiter,
        Induction_proofs, SequenceTheorems

-----------------------------------------------------------------------------
(***************************************************************************)
(* Proofs about RequestPipeline, for any number of requests: what the      *)
(* counters say does not depend on how requests, the threads of handlers   *)
(* and the reader of the summary interleave.  Two facts carry it: exactly  *)
(* the request that is being recorded holds the lock, and a request passes *)
(* the correlation middleware once on its way in and once on its way out.  *)
(***************************************************************************)

Places   == {"nowhere", "in", "raise", "out", "record", "sent"}
Codes    == {0, 200, 400, 401, 413, 429, 500}

RequestRecord == [at : Places, pos : 0 .. 4, kind : RequestKinds, status : Codes,
                  header : Requests \union {NoId}, envelope : Requests \union {NoId}]
Counters == [requests : Nat, class : [Classes -> Nat], errors : Nat,
             denied : Nat, rejected : Nat, exhausted : Nat]

PipelineShape == /\ request \in [Requests -> RequestRecord]
                 /\ state \in [Requests -> Requests \union {NoId}]
                 /\ ctx \in [Requests -> Requests \union {NoId}]
                 /\ metrics \in Counters /\ summary \in Counters
                 /\ lock \in Requests \union {Nobody}

\* An answer and its envelope.
AnswerIsRight(r) == /\ request[r].status = StatusOf[request[r].kind]
                    /\ request[r].status >= 400 /\ request[r].kind \notin Preflights => request[r].envelope = r

\* Preflights and exceptions nobody handles.
Uncounted == Preflights \union {"broken"}

\* Past the correlation middleware a request has its id, and keeps it on the request
\* object when the context is left; it is counted, and given its header, on the way
\* out unless an exception nobody handles takes it past the middleware.  Preflights
\* never get there.
RequestOK(r) ==
    /\ ctx[r] \in {r, NoId}
    /\ request[r].at = "in" =>
         /\ request[r].pos \in 1 .. 4
         /\ request[r].pos # 1 => request[r].kind \notin Preflights
         /\ request[r].pos \in 3 .. 4 => ctx[r] = r /\ state[r] = r
    /\ request[r].at = "raise" =>
         request[r].kind = "broken" /\ request[r].pos \in 0 .. 3 /\ state[r] = r
    /\ request[r].at = "out" =>
         /\ AnswerIsRight(r) /\ request[r].pos \in 0 .. 3
         /\ request[r].pos # 0 => request[r].kind \notin Uncounted
    /\ request[r].at = "record" => AnswerIsRight(r) /\ request[r].kind \notin Uncounted /\ request[r].pos = 2
    /\ request[r].at = "sent" => AnswerIsRight(r)
    /\ /\ \/ request[r].at \in {"record", "sent"}
          \/ request[r].at = "out" /\ request[r].pos \in 0 .. 1
       /\ request[r].kind \notin Uncounted
       => request[r].header = r

\* The one that is between the halves of record_request.
LockOK == \A r \in Requests : lock = r <=> request[r].at = "record"

One(condition) == IF condition THEN 1 ELSE 0

\* What the second half of record_request has yet to add.
Owed(kind) == IF lock = Nobody THEN 0
              ELSE LET status == request[lock].status
                   IN IF kind = "errors" THEN One(status >= 400) ELSE One(status \in {401, 429})

SumsOK ==
    /\ metrics.requests = metrics.class[2] + metrics.class[3] + metrics.class[4] + metrics.class[5]
    /\ metrics.errors + Owed("errors") = metrics.class[4] + metrics.class[5]
    /\ metrics.denied + metrics.rejected + Owed("refusals") <= metrics.class[4]

\* The requests record_request has been called for.
Done(r) == /\ request[r].kind \notin Uncounted
           /\ \/ request[r].at \in {"record", "sent"}
              \/ request[r].at = "out" /\ request[r].pos \in 0 .. 1
Counted      == {r \in Requests : Done(r)}
CountedAs(c) == {r \in Counted : Class(request[r].status) = c}

CountsOK == /\ metrics.requests = Cardinality(Counted)
            /\ \A c \in Classes : metrics.class[c] = Cardinality(CountedAs(c))

PipelineInv == /\ PipelineShape /\ LockOK /\ SumsOK /\ CountsOK /\ SummaryIsConsistent
               /\ \A r \in Requests : RequestOK(r)

-----------------------------------------------------------------------------
LEMMA LengthOf ==
  ASSUME NEW S, NEW n \in Nat, NEW f \in [1 .. n -> S]
  PROVE  Len(f) = n
  <1>1. f \in Seq(S)
    OBVIOUS
  <1>2. Len(f) \in Nat /\ DOMAIN f = 1 .. Len(f)
    BY <1>1, LenProperties
  <1>3. 1 .. n = 1 .. Len(f)
    BY <1>2
  <1>. QED  BY <1>2, <1>3

\* The middlewares in the order they run.
LEMMA StackIs ==
  /\ Stack[1] = "cors" /\ Stack[2] = "correlation" /\ Stack[3] = "limit" /\ Len(Stack) = 3 /\ Inside = 4
  /\ \A r, at : /\ AtLayer(r, at, "cors") <=> request[r].at = at /\ request[r].pos = 1
                /\ AtLayer(r, at, "correlation") <=> request[r].at = at /\ request[r].pos = 2
                /\ AtLayer(r, at, "limit") <=> request[r].at = at /\ request[r].pos = 3
  <1>1. Len(Added) = 3 /\ Added[1] = "limit" /\ Added[2] = "correlation" /\ Added[3] = "cors"
    BY DEF Added
  <1>2. /\ Stack = [i \in 1 .. 3 |-> Added[4 - i]]
        /\ Stack[1] = "cors" /\ Stack[2] = "correlation" /\ Stack[3] = "limit"
    BY <1>1 DEF Stack
  <1>3. Len(Stack) = 3
    <2>1. Stack \in [1 .. 3 -> {"limit", "correlation", "cors"}]
      BY <1>1, <1>2
    <2>. QED  BY <2>1, LengthOf
  <1>. QED  BY <1>2, <1>3 DEF AtLayer, Inside

\* The status of an answer is one of those in StatusOf, whose classes are 2, 4 and 5.
LEMMA StatusIs ==
  /\ \A kind \in RequestKinds : StatusOf[kind] \in Codes \ {0}
  /\ \A s \in Codes \ {0} : /\ Class(s) \in Classes
                            /\ s >= 400 <=> Class(s) \in {4, 5}
                            /\ s \in {401, 429} => Class(s) = 4
                            /\ s # 403
  <1>1. Class(200) = 2 /\ Class(400) = 4 /\ Class(401) = 4 /\ Class(413) = 4 /\ Class(429) = 4 /\ Class(500) = 5
    BY DEF Class
  <1>2. \A kind \in RequestKinds : StatusOf[kind] \in Codes \ {0}
    BY DEF RequestKinds, StatusOf, Codes
  <1>. QED  BY <1>1, <1>2 DEF Codes, Classes

\* The steps of one request leave the others as they are.
LEMMA OneMoves ==
  ASSUME PipelineInv, NEW r \in Requests, PipelineShape',
         \A q \in Requests \ {r} : request'[q] = request[q] /\ ctx'[q] = ctx[q] /\ state'[q] = state[q],
         RequestOK(r)'
  PROVE  \A q \in Requests : RequestOK(q)'
  <1>1. ASSUME NEW q \in Requests, q # r  PROVE RequestOK(q)'
    BY <1>1 DEF PipelineInv, RequestOK, AnswerIsRight
  <1>. QED  BY <1>1

\* A step that records nothing.
LEMMA CountsStand ==
  ASSUME PipelineInv, NEW r \in Requests,
         \A q \in Requests \ {r} : request'[q] = request[q],
         metrics'.requests = metrics.requests, metrics'.class = metrics.class,
         Done(r)' <=> Done(r), Done(r) => request'[r].status = request[r].status
  PROVE  CountsOK'
  <1>1. \A q \in Requests : /\ Done(q)' <=> Done(q)
                            /\ Done(q) => request'[q].status = request[q].status
    BY DEF Done
  <1>2. Counted' = Counted
    BY <1>1 DEF Counted
  <1>3. \A c \in Classes : CountedAs(c)' = CountedAs(c)
    BY <1>1, <1>2 DEF CountedAs, Counted
  <1>. QED  BY <1>2, <1>3 DEF PipelineInv, CountsOK

\* A step outside record_request.
LEMMA SumsStand ==
  ASSUME PipelineInv, lock' = lock, LockOK,
         \A q \in Requests : request[q].at = "record" => request'[q] = request[q],
         \A f \in {"requests", "class", "errors", "denied", "rejected"} : metrics'[f] = metrics[f]
  PROVE  SumsOK'
  <1>1. lock # Nobody => request'[lock] = request[lock]
    BY DEF PipelineInv, PipelineShape, LockOK
  <1>2. Owed("errors")' = Owed("errors") /\ Owed("refusals")' = Owed("refusals")
    BY <1>1 DEF Owed, One
  <1>. QED  BY <1>2 DEF PipelineInv, SumsOK

-----------------------------------------------------------------------------
LEMMA InitPipeline == PipelineInit => PipelineInv
  <1>. SUFFICES ASSUME PipelineInit PROVE PipelineInv
    OBVIOUS
  <1>1. PipelineShape
    BY DEF PipelineInit, PipelineShape, Outside, RequestRecord, Places, RequestKinds, Codes, Counters, Zero
  <1>2. LockOK
    BY PipelineAssumption DEF PipelineInit, LockOK, Outside
  <1>3. SumsOK /\ SummaryIsConsistent
    BY DEF PipelineInit, SumsOK, SummaryIsConsistent, Owed, Zero, Classes
  <1>4. CountsOK
    <2>1. Counted = {} /\ \A c \in Classes : CountedAs(c) = {}
      BY DEF Counted, CountedAs, Done, PipelineInit, Outside
    <2>. QED  BY <2>1, FS_EmptySet DEF CountsOK, PipelineInit, Zero
  <1>5. ASSUME NEW r \in Requests  PROVE RequestOK(r)
    BY DEF PipelineInit, RequestOK, Outside
  <1>. QED  BY <1>1, <1>2, <1>3, <1>4, <1>5 DEF PipelineInv

\* A step of a request that neither takes the lock nor counts.
LEMMA QuietStep ==
  ASSUME PipelineInv, NEW r \in Requests, PipelineShape', UNCHANGED <<lock, summary>>,
         \A q \in Requests \ {r} : request'[q] = request[q] /\ ctx'[q] = ctx[q] /\ state'[q] = state[q],
         \A f \in {"requests", "class", "errors", "denied", "rejected"} : metrics'[f] = metrics[f],
         request[r].at # "record", request'[r].at # "record",
         Done(r)' <=> Done(r), Done(r) => request'[r].status = request[r].status,
         RequestOK(r)'
  PROVE  PipelineInv'
  <1>1. LockOK'
    BY DEF PipelineInv, LockOK
  <1>2. metrics'.requests = metrics.requests /\ metrics'.class = metrics.class
    OBVIOUS
  <1>3. CountsOK'
    BY <1>2, CountsStand
  <1>4. SumsOK'
    BY SumsStand DEF PipelineInv
  <1>5. SummaryIsConsistent'
    BY DEF PipelineInv, SummaryIsConsistent
  <1>6. \A q \in Requests : RequestOK(q)'
    BY OneMoves
  <1>. QED  BY <1>1, <1>3, <1>4, <1>5, <1>6 DEF PipelineInv

\* Steps of a request on its way in, or out, that nothing is counted at.
LEMMA ArriveStep == ASSUME PipelineInv, NEW r \in Requests, Arrive(r) PROVE PipelineInv'
  <1>1. PICK kind \in RequestKinds : request' = [request EXCEPT ![r].at = "in", ![r].pos = 1, ![r].kind = kind]
    BY DEF Arrive
  <1>2. /\ PipelineShape /\ RequestOK(r) /\ request[r].at = "nowhere"
        /\ UNCHANGED <<state, ctx, metrics, lock, summary>>
    BY DEF Arrive, PipelineInv
  <1>3. request'[r].at = "in" /\ request'[r].pos = 1 /\ \A q \in Requests \ {r} : request'[q] = request[q]
    BY <1>1, <1>2 DEF PipelineShape, RequestRecord
  <1>4. PipelineShape'
    <2>0. request[r] \in RequestRecord /\ "in" \in Places /\ 1 \in 0 .. 4
      BY <1>2 DEF PipelineShape, Places
    <2>1. PICK v \in RequestRecord : v = [request[r] EXCEPT !.at = "in", !.pos = 1, !.kind = kind]
      BY <2>0 DEF RequestRecord
    <2>2. request' = [request EXCEPT ![r] = v]
      BY <1>1, <2>1
    <2>. QED  BY <1>2, <2>1, <2>2 DEF PipelineShape
  <1>5. RequestOK(r)'
    BY <1>2, <1>3 DEF RequestOK
  <1>6. ~Done(r) /\ ~Done(r)'
    BY <1>2, <1>3 DEF Done
  <1>. QED  BY <1>2, <1>3, <1>4, <1>5, <1>6, QuietStep

\* A response is given: with the request's id, unless it is to a preflight.
LEMMA AnswerStep ==
  ASSUME PipelineInv, NEW r \in Requests, NEW from \in 0 .. 3, NEW id \in {r, NoId}, Answered(r, from, id),
         UNCHANGED <<state, ctx, lock, summary>>, metrics' \in Counters,
         request[r].kind \notin Preflights => id = r,
         \A f \in {"requests", "class", "errors", "denied", "rejected"} : metrics'[f] = metrics[f],
         request[r].at \in {"in", "raise"}, from = 0 <=> request[r].kind \in Uncounted, from # 1
  PROVE  PipelineInv'
  <1>1. PipelineShape /\ RequestOK(r) /\ request[r].kind \in RequestKinds
    BY DEF PipelineInv, PipelineShape, RequestRecord
  <1>2. StatusOf[request[r].kind] \in Codes
    BY <1>1, StatusIs
  <1>3. /\ request'[r].at = "out" /\ request'[r].pos = from /\ request'[r].kind = request[r].kind
        /\ request'[r].status = StatusOf[request[r].kind]
        /\ request'[r].envelope = IF StatusOf[request[r].kind] >= 400 THEN id ELSE NoId
        /\ \A q \in Requests \ {r} : request'[q] = request[q]
    BY <1>1 DEF Answered, PipelineShape, RequestRecord
  <1>4. PipelineShape'
    <2>1. PICK s \in Codes, e \in Requests \union {NoId} :
            s = StatusOf[request[r].kind] /\ e = IF s >= 400 THEN id ELSE NoId
      BY <1>2
    <2>0. request[r] \in RequestRecord /\ "out" \in Places /\ from \in 0 .. 4
      BY <1>1 DEF PipelineShape, Places
    <2>2. PICK v \in RequestRecord :
            v = [request[r] EXCEPT !.at = "out", !.pos = from, !.status = s, !.envelope = e]
      BY <2>0 DEF RequestRecord
    <2>3. request' = [request EXCEPT ![r] = v]
      BY <2>1, <2>2 DEF Answered
    <2>. QED  BY <1>1, <2>2, <2>3 DEF PipelineShape
  <1>5. RequestOK(r)'
    BY <1>1, <1>3 DEF RequestOK, AnswerIsRight, Uncounted
  <1>6. ~Done(r) /\ ~Done(r)'
    BY <1>1, <1>3 DEF Done
  <1>. QED  BY <1>1, <1>3, <1>4, <1>5, <1>6, QuietStep

LEMMA CorsStep == ASSUME PipelineInv, NEW r \in Requests, Cors(r) PROVE PipelineInv'
  <1>1. /\ request[r].at = "in" /\ request[r].pos = 1 /\ PipelineShape /\ RequestOK(r)
        /\ UNCHANGED <<state, ctx, metrics, lock, summary>>
    BY StackIs DEF Cors, PipelineInv
  <1>2. CASE request[r].kind \in Preflights
    <2>1. Answered(r, 0, NoId)
      BY <1>1, <1>2 DEF Cors
    <2>. QED  BY <1>1, <1>2, <2>1, AnswerStep DEF PipelineShape, Uncounted
  <1>3. CASE request[r].kind \notin Preflights
    <2>1. request' = [request EXCEPT ![r].pos = @ + 1]
      BY <1>3 DEF Cors
    <2>2. /\ request'[r].at = "in" /\ request'[r].pos = 2 /\ request'[r].kind = request[r].kind
          /\ \A q \in Requests \ {r} : request'[q] = request[q]
      BY <1>1, <2>1 DEF PipelineShape, RequestRecord
    <2>3. PipelineShape'
      BY <1>1, <2>1 DEF PipelineShape, RequestRecord
    <2>4. RequestOK(r)'
      BY <1>1, <1>3, <2>2 DEF RequestOK
    <2>5. ~Done(r) /\ ~Done(r)'
      BY <1>1, <2>2 DEF Done
    <2>. QED  BY <1>1, <2>2, <2>3, <2>4, <2>5, QuietStep
  <1>. QED  BY <1>2, <1>3

LEMMA CorrelateStep == ASSUME PipelineInv, NEW r \in Requests, Correlate(r) PROVE PipelineInv'
  <1>1. /\ request' = [request EXCEPT ![r].pos = @ + 1]
        /\ ctx' = [ctx EXCEPT ![r] = r] /\ state' = [state EXCEPT ![r] = r]
        /\ UNCHANGED <<metrics, lock, summary>>
        /\ request[r].at = "in" /\ request[r].pos = 2
        /\ PipelineShape /\ RequestOK(r)
    BY StackIs DEF Correlate, SetId, PipelineInv
  <1>2. /\ request'[r].at = "in" /\ request'[r].pos = 3 /\ ctx'[r] = r /\ state'[r] = r
        /\ request'[r].kind = request[r].kind
        /\ \A q \in Requests \ {r} : request'[q] = request[q] /\ ctx'[q] = ctx[q] /\ state'[q] = state[q]
    BY <1>1 DEF PipelineShape, RequestRecord
  <1>3. PipelineShape'
    BY <1>1 DEF PipelineShape, RequestRecord
  <1>4. RequestOK(r)'
    BY <1>1, <1>2 DEF RequestOK
  <1>5. ~Done(r) /\ ~Done(r)'
    BY <1>1, <1>2 DEF Done
  <1>. QED  BY <1>1, <1>2, <1>3, <1>4, <1>5, QuietStep

\* Past the correlation middleware the id is found.
LEMMA IdIsKnown ==
  ASSUME PipelineInv, NEW r \in Requests,
         (request[r].at = "in" /\ request[r].pos \notin 1 .. 2) \/ request[r].at = "raise"
  PROVE  CurrentId(r) = r /\ state[r] = r
  BY PipelineAssumption DEF PipelineInv, RequestOK, CurrentId

LEMMA LimitBodyStep == ASSUME PipelineInv, NEW r \in Requests, LimitBody(r) PROVE PipelineInv'
  <1>1. /\ request[r].at = "in" /\ request[r].pos = 3 /\ PipelineShape /\ RequestOK(r)
        /\ UNCHANGED <<state, ctx, metrics, lock, summary>> /\ state[r] = r /\ r # NoId
        /\ request[r].kind \notin Preflights
    BY StackIs, IdIsKnown, PipelineAssumption DEF LimitBody, PipelineInv, RequestOK
  <1>2. CASE request[r].kind = "oversized"
    <2>1. Answered(r, 2, r)
      BY <1>1, <1>2 DEF LimitBody
    <2>. QED  BY <1>1, <1>2, <2>1, AnswerStep DEF PipelineShape, Uncounted
  <1>3. CASE request[r].kind # "oversized"
    <2>1. request' = [request EXCEPT ![r].pos = @ + 1]
      BY <1>3 DEF LimitBody
    <2>2. /\ request'[r].at = "in" /\ request'[r].pos = 4 /\ request'[r].kind = request[r].kind
          /\ \A q \in Requests \ {r} : request'[q] = request[q]
      BY <1>1, <2>1 DEF PipelineShape, RequestRecord
    <2>3. PipelineShape'
      BY <1>1, <2>1 DEF PipelineShape, RequestRecord
    <2>4. RequestOK(r)'
      BY <1>1, <2>2 DEF RequestOK
    <2>5. ~Done(r) /\ ~Done(r)'
      BY <1>1, <2>2 DEF Done
    <2>. QED  BY <1>1, <2>2, <2>3, <2>4, <2>5, QuietStep
  <1>. QED  BY <1>2, <1>3

LEMMA HandlerStep == ASSUME PipelineInv, NEW r \in Requests, CountExhausted(r) \/ Handle(r) PROVE PipelineInv'
  <1>1. /\ request[r].at = "in" /\ request[r].pos = 4 /\ request[r].kind \notin Uncounted
        /\ Answered(r, 3, CurrentId(r)) /\ UNCHANGED <<state, ctx, lock, summary>>
        /\ metrics' = metrics \/ metrics' = [metrics EXCEPT !.exhausted = @ + 1]
    BY StackIs DEF CountExhausted, Handle, PipelineInv, RequestOK, Uncounted
  <1>2. /\ metrics' \in Counters
        /\ \A f \in {"requests", "class", "errors", "denied", "rejected"} : metrics'[f] = metrics[f]
    BY <1>1 DEF PipelineInv, PipelineShape, Counters
  <1>3. CurrentId(r) = r
    BY <1>1, IdIsKnown
  <1>. QED  BY <1>1, <1>2, <1>3, AnswerStep

LEMMA BreakStep == ASSUME PipelineInv, NEW r \in Requests, Break(r) PROVE PipelineInv'
  <1>1. /\ request[r].at = "in" /\ request[r].pos = 4 /\ request[r].kind = "broken"
        /\ request' = [request EXCEPT ![r].at = "raise", ![r].pos = 3]
        /\ UNCHANGED <<state, ctx, metrics, lock, summary>> /\ PipelineShape /\ RequestOK(r) /\ state[r] = r
    BY StackIs, IdIsKnown DEF Break, PipelineInv
  <1>2. /\ request'[r].at = "raise" /\ request'[r].pos = 3 /\ request'[r].kind = "broken"
        /\ \A q \in Requests \ {r} : request'[q] = request[q]
    BY <1>1 DEF PipelineShape, RequestRecord
  <1>3. PipelineShape'
    BY <1>1 DEF PipelineShape, RequestRecord, Places
  <1>4. RequestOK(r)'
    BY <1>1, <1>2 DEF RequestOK
  <1>5. ~Done(r) /\ ~Done(r)'
    BY <1>1, <1>2 DEF Done
  <1>. QED  BY <1>1, <1>2, <1>3, <1>4, <1>5, QuietStep

LEMMA RaiseStep == ASSUME PipelineInv, NEW r \in Requests, Raise(r) PROVE PipelineInv'
  <1>1. /\ request[r].at = "raise" /\ request[r].pos \in 1 .. 3 /\ request[r].kind = "broken"
        /\ request' = [request EXCEPT ![r].pos = @ - 1]
        /\ UNCHANGED <<state, metrics, lock, summary>> /\ PipelineShape /\ RequestOK(r) /\ state[r] = r
        /\ ctx' = ctx \/ ctx' = [ctx EXCEPT ![r] = NoId]
    BY DEF Raise, PipelineInv, RequestOK
  <1>2. /\ request'[r].at = "raise" /\ request'[r].pos \in 0 .. 2 /\ request'[r].kind = "broken"
        /\ \A q \in Requests \ {r} : request'[q] = request[q] /\ ctx'[q] = ctx[q]
        /\ ctx'[r] \in {r, NoId}
    BY <1>1 DEF PipelineShape, RequestRecord, RequestOK
  <1>3. PipelineShape'
    BY <1>1 DEF PipelineShape, RequestRecord, Places
  <1>4. RequestOK(r)'
    BY <1>1, <1>2 DEF RequestOK
  <1>5. ~Done(r) /\ ~Done(r)'
    BY <1>1, <1>2 DEF Done
  <1>. QED  BY <1>1, <1>2, <1>3, <1>4, <1>5, QuietStep

LEMMA ServerErrorStep == ASSUME PipelineInv, NEW r \in Requests, ServerError(r) PROVE PipelineInv'
  <1>1. /\ request[r].at = "raise" /\ request[r].kind = "broken"
        /\ Answered(r, 0, CurrentId(r)) /\ UNCHANGED <<state, ctx, metrics, lock, summary>>
        /\ metrics \in Counters
    BY DEF ServerError, PipelineInv, RequestOK, PipelineShape
  <1>2. CurrentId(r) = r
    BY <1>1, IdIsKnown
  <1>. QED  BY <1>1, <1>2, AnswerStep DEF Uncounted, Preflights

\* Steps of an answer between the middlewares, and after the last.
LEMMA OutStep == ASSUME PipelineInv, NEW r \in Requests, PassOut(r) \/ Send(r) PROVE PipelineInv'
  <1>1. /\ request[r].at = "out" /\ UNCHANGED <<state, ctx, metrics, lock, summary>>
        /\ PipelineShape /\ RequestOK(r)
        /\ \/ request[r].pos \in {1, 3} /\ request' = [request EXCEPT ![r].pos = @ - 1]
           \/ request[r].pos = 0 /\ request' = [request EXCEPT ![r].at = "sent"]
    BY StackIs DEF PassOut, Send, PipelineInv
  <1>2. /\ \/ /\ request[r].pos \in {1, 3} /\ request'[r].at = "out"
              /\ request'[r].pos = request[r].pos - 1
           \/ request[r].pos = 0 /\ request'[r].at = "sent"
        /\ request'[r].kind = request[r].kind /\ request'[r].status = request[r].status
        /\ request'[r].envelope = request[r].envelope /\ request'[r].header = request[r].header
        /\ \A q \in Requests \ {r} : request'[q] = request[q]
    BY <1>1 DEF PipelineShape, RequestRecord
  <1>3. PipelineShape'
    BY <1>1 DEF PipelineShape, RequestRecord, Places
  <1>4. RequestOK(r)'
    BY <1>1, <1>2 DEF RequestOK, AnswerIsRight
  <1>5. Done(r)' <=> Done(r)
    BY <1>1, <1>2 DEF Done
  <1>6. request[r].at # "record" /\ request'[r].at # "record"
    BY <1>1, <1>2
  <1>. QED  BY <1>1, <1>2, <1>3, <1>4, <1>5, <1>6, QuietStep

\* The first half of record_request takes the lock and counts the answer where it
\* belongs; what the second half owes is known from its status.
LEMMA CountRequestStep == ASSUME PipelineInv, NEW r \in Requests, CountRequest(r) PROVE PipelineInv'
  <1>1. PICK c \in Classes : c = Class(request[r].status)
    <2>1. request[r].status = StatusOf[request[r].kind] /\ request[r].kind \in RequestKinds
      BY StackIs DEF CountRequest, PipelineInv, RequestOK, AnswerIsRight, PipelineShape, RequestRecord
    <2>. QED  BY <2>1, StatusIs
  <1>2. /\ request[r].at = "out" /\ request[r].pos = 2 /\ PipelineShape /\ RequestOK(r)
        /\ lock = Nobody /\ lock' = r /\ r # Nobody /\ UNCHANGED <<state, ctx, summary>>
        /\ metrics' = [metrics EXCEPT !.requests = @ + 1, !.class[c] = @ + 1]
        /\ request' = [request EXCEPT ![r].at = "record", ![r].header = r]
    BY <1>1, StackIs, PipelineAssumption DEF CountRequest, PipelineInv
  <1>3. /\ request[r].kind \notin Uncounted /\ AnswerIsRight(r) /\ request[r].kind \in RequestKinds
        /\ request[r].status \in Codes \ {0}
    <2>1. request[r].kind \notin Uncounted /\ AnswerIsRight(r) /\ request[r].kind \in RequestKinds
      BY <1>2 DEF RequestOK, PipelineShape, RequestRecord
    <2>. QED  BY <2>1, StatusIs DEF AnswerIsRight
  <1>4. /\ request'[r].at = "record" /\ request'[r].pos = 2 /\ request'[r].header = r
        /\ request'[r].kind = request[r].kind /\ request'[r].status = request[r].status
        /\ request'[r].envelope = request[r].envelope
        /\ \A q \in Requests \ {r} : request'[q] = request[q]
    BY <1>2 DEF PipelineShape, RequestRecord
  <1>5. /\ metrics'.requests = metrics.requests + 1
        /\ metrics'.class = [metrics.class EXCEPT ![c] = @ + 1]
        /\ metrics'.errors = metrics.errors /\ metrics'.denied = metrics.denied
        /\ metrics'.rejected = metrics.rejected /\ metrics'.exhausted = metrics.exhausted
        /\ metrics.class \in [Classes -> Nat] /\ metrics.requests \in Nat /\ metrics.errors \in Nat
        /\ metrics.denied \in Nat /\ metrics.rejected \in Nat
    BY <1>2 DEF PipelineShape, Counters
  <1>6. PipelineShape'
    <2>1. metrics' \in Counters
      <3>1. PICK n \in Nat, k \in [Classes -> Nat] :
              n = metrics.requests + 1 /\ k = [metrics.class EXCEPT ![c] = @ + 1]
        BY <1>5
      <3>2. metrics' = [metrics EXCEPT !.requests = n, !.class = k]
        BY <1>2, <3>1
      <3>. QED  BY <1>2, <3>2 DEF PipelineShape, Counters
    <2>2. request[r] \in RequestRecord /\ "record" \in Places
      BY <1>2 DEF PipelineShape, Places
    <2>3. PICK v \in RequestRecord : v = [request[r] EXCEPT !.at = "record", !.header = r]
      BY <2>2 DEF RequestRecord
    <2>4. request' = [request EXCEPT ![r] = v]
      BY <1>2, <2>3
    <2>. QED  BY <1>2, <2>1, <2>3, <2>4 DEF PipelineShape
  <1>7. \A q \in Requests : RequestOK(q)'
    <2>1. RequestOK(r)'
      BY <1>2, <1>3, <1>4 DEF RequestOK, AnswerIsRight
    <2>. QED  BY <1>2, <1>4, <1>6, <2>1, OneMoves
  <1>8. LockOK'
    BY <1>2, <1>4, PipelineAssumption DEF PipelineInv, LockOK
  <1>9. SumsOK'
    <2>1. /\ metrics.requests = metrics.class[2] + metrics.class[3] + metrics.class[4] + metrics.class[5]
          /\ metrics.errors = metrics.class[4] + metrics.class[5]
          /\ metrics.denied + metrics.rejected <= metrics.class[4]
      BY <1>2, <1>5 DEF PipelineInv, SumsOK, Owed, Classes
    <2>2. /\ Owed("errors")' = One(c \in {4, 5})
          /\ Owed("refusals")' \in {0, One(c = 4)}
      BY <1>1, <1>2, <1>3, <1>4, StatusIs DEF Owed, One
    <2>3. \A k \in Classes : /\ metrics'.class[k] = metrics.class[k] + One(k = c)
                              /\ metrics.class[k] \in Nat
      BY <1>5 DEF One
    <2>4. 2 \in Classes /\ 3 \in Classes /\ 4 \in Classes /\ 5 \in Classes /\ c \in 2 .. 5
      BY DEF Classes
    <2>. QED  BY <1>5, <2>1, <2>2, <2>3, <2>4 DEF SumsOK, One
  <1>10. CountsOK'
    <2>0. ~Done(r) /\ Done(r)'
      BY <1>2, <1>3, <1>4 DEF Done
    <2>1. ASSUME NEW q \in Requests \ {r}  PROVE Done(q)' <=> Done(q)
      BY <1>4 DEF Done
    <2>2. Counted' = Counted \union {r} /\ r \notin Counted /\ IsFiniteSet(Counted)
      BY <2>0, <2>1, FS_Subset, PipelineAssumption DEF Counted
    <2>3. Cardinality(Counted') = Cardinality(Counted) + 1
      BY <2>2, FS_AddElement
    <2>4. CountedAs(c)' = CountedAs(c) \union {r} /\ r \notin CountedAs(c) /\ IsFiniteSet(CountedAs(c))
      BY <1>1, <1>4, <2>2, FS_Subset DEF CountedAs, Counted
    <2>5. Cardinality(CountedAs(c)') = Cardinality(CountedAs(c)) + 1
      BY <2>4, FS_AddElement
    <2>6. \A k \in Classes \ {c} : CountedAs(k)' = CountedAs(k)
      BY <1>1, <1>4, <2>2 DEF CountedAs, Counted
    <2>. QED  BY <1>5, <2>3, <2>5, <2>6 DEF PipelineInv, CountsOK
  <1>11. SummaryIsConsistent'
    BY <1>2 DEF PipelineInv, SummaryIsConsistent
  <1>. QED  BY <1>6, <1>7, <1>8, <1>9, <1>10, <1>11 DEF PipelineInv

\* The second half pays what is owed, and the lock is released.
LEMMA CountErrorsStep == ASSUME PipelineInv, NEW r \in Requests, CountErrors(r) PROVE PipelineInv'
  <1>1. /\ request[r].at = "record" /\ request[r].pos = 2 /\ PipelineShape /\ RequestOK(r)
        /\ lock = r /\ r # Nobody /\ lock' = Nobody /\ UNCHANGED <<state, summary>>
        /\ request' = [request EXCEPT ![r].at = "out", ![r].pos = @ - 1]
        /\ ctx' = [ctx EXCEPT ![r] = NoId]
    BY StackIs, PipelineAssumption DEF CountErrors, PipelineInv, LockOK
  <1>2. /\ request[r].status \in Codes \ {0} /\ AnswerIsRight(r) /\ request[r].kind \notin Uncounted
        /\ request[r].header = r
    <2>1. AnswerIsRight(r) /\ request[r].kind \in RequestKinds
      BY <1>1 DEF RequestOK, PipelineShape, RequestRecord
    <2>. QED  BY <1>1, <2>1, StatusIs DEF AnswerIsRight, RequestOK
  <1>3. /\ metrics' = [metrics EXCEPT
              !.errors   = @ + One(request[r].status >= 400),
              !.denied   = @ + One(request[r].status \in {401, 403}),
              !.rejected = @ + One(request[r].status = 429)]
    BY DEF CountErrors, One
  <1>4. /\ metrics'.errors = metrics.errors + One(request[r].status >= 400)
        /\ metrics'.denied = metrics.denied + One(request[r].status \in {401, 403})
        /\ metrics'.rejected = metrics.rejected + One(request[r].status = 429)
        /\ metrics'.requests = metrics.requests /\ metrics'.class = metrics.class
        /\ metrics.class \in [Classes -> Nat] /\ metrics.requests \in Nat /\ metrics.errors \in Nat
        /\ metrics.denied \in Nat /\ metrics.rejected \in Nat
    BY <1>1, <1>3 DEF PipelineShape, Counters
  <1>5. /\ request'[r].at = "out" /\ request'[r].pos = 1 /\ request'[r].header = r /\ ctx'[r] = NoId
        /\ request'[r].kind = request[r].kind /\ request'[r].status = request[r].status
        /\ request'[r].envelope = request[r].envelope
        /\ \A q \in Requests \ {r} : request'[q] = request[q] /\ ctx'[q] = ctx[q]
    BY <1>1, <1>2 DEF PipelineShape, RequestRecord
  <1>6. PipelineShape'
    <2>1. /\ One(request[r].status >= 400) \in Nat /\ One(request[r].status \in {401, 403}) \in Nat
          /\ One(request[r].status = 429) \in Nat
      BY DEF One
    <2>2. metrics' \in Counters
      <3>1. PICK a \in Nat, b \in Nat, c \in Nat :
              /\ a = metrics.errors + One(request[r].status >= 400)
              /\ b = metrics.denied + One(request[r].status \in {401, 403})
              /\ c = metrics.rejected + One(request[r].status = 429)
        BY <1>4, <2>1
      <3>2. metrics' = [metrics EXCEPT !.errors = a, !.denied = b, !.rejected = c]
        BY <1>3, <3>1
      <3>. QED  BY <1>1, <3>2 DEF PipelineShape, Counters
    <2>3. request[r] \in RequestRecord /\ "out" \in Places /\ request[r].pos - 1 \in 0 .. 4
      BY <1>1 DEF PipelineShape, Places
    <2>4. PICK v \in RequestRecord : v = [request[r] EXCEPT !.at = "out", !.pos = @ - 1]
      BY <2>3 DEF RequestRecord
    <2>5. request' = [request EXCEPT ![r] = v]
      BY <1>1, <2>4
    <2>. QED  BY <1>1, <2>2, <2>4, <2>5 DEF PipelineShape
  <1>7. \A q \in Requests : RequestOK(q)'
    <2>1. RequestOK(r)'
      BY <1>2, <1>5 DEF RequestOK, AnswerIsRight
    <2>. QED  BY <1>1, <1>5, <1>6, <2>1, OneMoves
  <1>8. LockOK'
    BY <1>1, <1>5, PipelineAssumption DEF PipelineInv, LockOK
  <1>9. SumsOK'
    <2>1. /\ metrics.requests = metrics.class[2] + metrics.class[3] + metrics.class[4] + metrics.class[5]
          /\ metrics.errors + One(request[r].status >= 400) = metrics.class[4] + metrics.class[5]
          /\ metrics.denied + metrics.rejected + One(request[r].status \in {401, 429}) <= metrics.class[4]
      BY <1>1 DEF PipelineInv, SumsOK, Owed
    <2>2. One(request[r].status \in {401, 429}) =
            One(request[r].status \in {401, 403}) + One(request[r].status = 429)
      BY <1>2, StatusIs DEF One
    <2>3. Owed("errors")' = 0 /\ Owed("refusals")' = 0
      BY <1>1 DEF Owed
    <2>4. /\ One(request[r].status >= 400) \in Nat /\ One(request[r].status \in {401, 403}) \in Nat
          /\ One(request[r].status = 429) \in Nat
      BY DEF One
    <2>5. metrics.class[4] \in Nat /\ metrics.class[5] \in Nat
      BY <1>4 DEF Classes
    <2>6. metrics'.errors = metrics.class[4] + metrics.class[5]
      BY <1>4, <2>1
    <2>7. metrics'.denied + metrics'.rejected <= metrics.class[4]
      <3>1. PICK a \in Nat, b \in Nat : /\ a = One(request[r].status \in {401, 403})
                                       /\ b = One(request[r].status = 429)
        BY <2>4
      <3>2. metrics.denied + metrics.rejected + (a + b) <= metrics.class[4]
        BY <2>1, <2>2, <3>1
      <3>3. metrics'.denied = metrics.denied + a /\ metrics'.rejected = metrics.rejected + b
        BY <1>4, <3>1
      <3>. QED  BY <1>4, <2>5, <3>2, <3>3
    <2>8. metrics'.errors \in Nat /\ metrics'.denied \in Nat /\ metrics'.rejected \in Nat
      BY <1>4, <2>4
    <2>. QED  BY <1>4, <2>1, <2>3, <2>6, <2>7, <2>8 DEF SumsOK
  <1>10. CountsOK'
    <2>1. Done(r) /\ Done(r)'
      BY <1>1, <1>2, <1>5 DEF Done
    <2>. QED  BY <1>4, <1>5, <2>1, CountsStand
  <1>11. SummaryIsConsistent'
    BY <1>1 DEF PipelineInv, SummaryIsConsistent
  <1>. QED  BY <1>6, <1>7, <1>8, <1>9, <1>10, <1>11 DEF PipelineInv

\* Nobody holds the lock: nothing is owed, and the summary takes what adds up.
LEMMA GetSummaryStep == ASSUME PipelineInv, GetSummary PROVE PipelineInv'
  <1>1. /\ lock = Nobody /\ summary' = metrics /\ PipelineShape
        /\ UNCHANGED <<request, state, ctx, metrics, lock>>
    BY DEF GetSummary, PipelineInv
  <1>2. SummaryIsConsistent'
    <2>1. /\ metrics.requests = metrics.class[2] + metrics.class[3] + metrics.class[4] + metrics.class[5]
          /\ metrics.errors + 0 = metrics.class[4] + metrics.class[5]
          /\ metrics.denied + metrics.rejected + 0 <= metrics.class[4]
      BY <1>1 DEF PipelineInv, SumsOK, Owed
    <2>2. metrics.errors \in Nat /\ metrics.denied \in Nat /\ metrics.rejected \in Nat
      BY <1>1 DEF PipelineShape, Counters
    <2>. QED  BY <1>1, <2>1, <2>2 DEF SummaryIsConsistent
  <1>3. PipelineShape' /\ LockOK' /\ SumsOK' /\ CountsOK'
    BY <1>1 DEF PipelineInv, PipelineShape, LockOK, SumsOK, Owed, CountsOK, Counted, CountedAs, Done
  <1>4. \A r \in Requests : RequestOK(r)'
    BY <1>1 DEF PipelineInv, RequestOK, AnswerIsRight
  <1>. QED  BY <1>2, <1>3, <1>4 DEF PipelineInv

LEMMA StepPipeline == ASSUME PipelineInv, [PipelineNext]_pipelineVars PROVE PipelineInv'
  <1>1. ASSUME NEW r \in Requests, RequestStep(r)  PROVE PipelineInv'
    BY <1>1, ArriveStep, CorsStep, CorrelateStep, LimitBodyStep, HandlerStep, BreakStep, OutStep,
       CountRequestStep, CountErrorsStep, RaiseStep, ServerErrorStep DEF RequestStep
  <1>2. ASSUME UNCHANGED pipelineVars  PROVE PipelineInv'
    <2>1. PipelineShape' /\ LockOK' /\ SummaryIsConsistent'
      BY <1>2 DEF pipelineVars, PipelineInv, PipelineShape, LockOK, SummaryIsConsistent
    <2>2. SumsOK' /\ CountsOK'
      BY <1>2 DEF pipelineVars, PipelineInv, SumsOK, Owed, CountsOK, Counted, CountedAs, Done
    <2>3. \A r \in Requests : RequestOK(r)'
      BY <1>2 DEF pipelineVars, PipelineInv, RequestOK, AnswerIsRight
    <2>. QED  BY <2>1, <2>2, <2>3 DEF PipelineInv
  <1>. QED  BY <1>1, <1>2, GetSummaryStep DEF PipelineNext

\* The invariant is one of every behaviour.
LEMMA PipelineInvariant == PipelineSpec => []PipelineInv
  <1>1. PipelineInit => PipelineInv
    BY InitPipeline
  <1>2. PipelineInv /\ [PipelineNext]_pipelineVars => PipelineInv'
    BY StepPipeline
  <1>. QED  BY <1>1, <1>2, PTL DEF PipelineSpec

-----------------------------------------------------------------------------
\* get_summary returns figures of one moment, however many requests are recorded
\* while it is called: its classes add up to its total, and what it calls errors
\* and rejections to the classes they are in.
THEOREM SummaryAddsUp == PipelineSpec => []SummaryIsConsistent
  <1>1. PipelineInv => SummaryIsConsistent
    BY DEF PipelineInv
  <1>. QED  BY <1>1, PipelineInvariant, PTL

\* Every answer that is given inside the correlation middleware is in the counters
\* when it is sent, and the counters never say more than the requests that can be
\* answered there: no preflight, no unhandled exception, nothing twice.
THEOREM AnswersAreCounted == PipelineSpec => []HandledAnswersAreCounted
  <1>1. ASSUME PipelineInv  PROVE HandledAnswersAreCounted
    <2>1. IsFiniteSet(Counted) /\ \A c \in Classes : IsFiniteSet(CountedAs(c))
      BY <1>1, FS_Subset, PipelineAssumption DEF Counted, CountedAs
    <2>2. ASSUME NEW c \in Classes  PROVE metrics.class[c] >= Cardinality(Sent(c) \cap Handled)
      <3>1. Sent(c) \cap Handled \subseteq CountedAs(c)
        BY DEF Sent, Handled, CountedAs, Counted, Done, Uncounted
      <3>2. /\ Cardinality(Sent(c) \cap Handled) <= Cardinality(CountedAs(c))
            /\ Cardinality(Sent(c) \cap Handled) \in Nat /\ Cardinality(CountedAs(c)) \in Nat
        BY <2>1, <3>1, FS_Subset, FS_CardinalityType
      <3>. QED  BY <1>1, <3>2 DEF PipelineInv, CountsOK
    <2>3. metrics.requests <= Cardinality({r \in Handled : request[r].at # "nowhere"})
      <3>1. Counted \subseteq {r \in Handled : request[r].at # "nowhere"}
        BY DEF Counted, Done, Handled, Uncounted
      <3>2. IsFiniteSet({r \in Handled : request[r].at # "nowhere"})
        BY <1>1, FS_Subset, PipelineAssumption DEF Handled
      <3>3. Cardinality(Counted) <= Cardinality({r \in Handled : request[r].at # "nowhere"})
        BY <3>1, <3>2, FS_Subset
      <3>. QED  BY <1>1, <3>3 DEF PipelineInv, CountsOK
    <2>. QED  BY <2>2, <2>3 DEF HandledAnswersAreCounted
  <1>2. PipelineInv => HandledAnswersAreCounted
    BY <1>1
  <1>. QED  BY <1>2, PipelineInvariant, PTL

\* The request_id of an error is that of the request it answers, whoever else is in
\* the process, and so is the X-Request-ID of every answer given inside the
\* correlation middleware.
THEOREM AnswersAreNamed == PipelineSpec => []AnswersNameTheirRequest
  <1>1. PipelineInv => AnswersNameTheirRequest
    BY DEF PipelineInv, RequestOK, AnswerIsRight, AnswersNameTheirRequest, Handled, Uncounted
  <1>. QED  BY <1>1, PipelineInvariant, PTL

-----------------------------------------------------------------------------
(***************************************************************************)
(* Proofs about Diagnostics, for any number of requests and jobs, any time *)
(* to live and any age limit: no lock is held while the figures are        *)
(* computed, and what the answers owe to the order of the steps is here:   *)
(* the entry is stamped before its figures are read, now_utc is taken      *)
(* between the two, and the pending rows are counted before the running    *)
(* ones.                                                                   *)
(***************************************************************************)

JobRow     == [status : {"absent", "pending", "running", "done"}, created : Nat]
Figures    == [count : [Kinds -> Nat], oldest : Int]
ReaderType == [pc : {"idle", "check", "first", "second", "store"}, asked : Nat, utc : Nat,
               data : Figures, since : Nat, steady : SUBSET Jobs]

ClockType  == clock \in Nat
JobType    == job \in [Jobs -> JobRow]
CacheType  == cache \in [time : Nat, data : Figures, since : Nat]
ReadersType == reader \in [Readers -> ReaderType]

\* The figures tell of every row that is pending and was made before time.
Tells(data, time) ==
    \A j \in With("pending") :
        job[j].created < time => data.oldest # NoAge /\ data.oldest >= time - job[j].created

\* No row that is yet to be made is older than the clock says.
RowsInTime == \A j \in With("pending") : job[j].created <= clock

\* A request in the middle of its queries: its figures are no older than the
\* request, tell of the rows older than it, and have counted the rows that were
\* pending at the first query and still are.
ReaderOK(r) ==
    /\ reader[r].asked <= clock /\ reader[r].since <= clock
    /\ reader[r].pc = "first" => reader[r].asked <= reader[r].utc
    /\ reader[r].pc \in {"second", "store"} =>
         /\ reader[r].asked <= reader[r].since
         /\ Tells(reader[r].data, reader[r].asked)
    /\ reader[r].pc = "second" =>
         /\ \A j \in reader[r].steady : job[j].status # "absent"
         /\ Cardinality(reader[r].steady \intersect With("pending"))
              <= reader[r].data.count["pending"]
    /\ reader[r].pc = "store" =>
         Cardinality(reader[r].steady) <= Depth(reader[r].data)

CacheOK == /\ cache.time <= cache.since /\ cache.since <= clock
           /\ Tells(cache.data, cache.time)

FiguresOK == AnswersAreRecent /\ BacklogRaisesAlarm

FiguresInv == /\ ClockType /\ JobType /\ CacheType /\ ReadersType
              /\ RowsInTime /\ CacheOK /\ FiguresOK
              /\ \A r \in Readers : ReaderOK(r)

-----------------------------------------------------------------------------
\* Creation times have an earliest one.
LEMMA EarliestIs ==
  ASSUME NEW S \in SUBSET Nat, S # {}
  PROVE  Min(S) \in S /\ \A y \in S : Min(S) <= y
  <1>1. \E x \in S : \A y \in S : x <= y
    BY LeastNumber
  <1>. QED  BY <1>1 DEF Min

\* max(0, age).
LEMMA AgeClamped ==
  ASSUME NEW a \in Int
  PROVE  Max({0, a}) \in Int /\ Max({0, a}) >= a /\ Max({0, a}) >= 0
  <1>1. \E x \in {0, a} : \A y \in {0, a} : x >= y
    OBVIOUS
  <1>2. Max({0, a}) \in {0, a} /\ \A y \in {0, a} : Max({0, a}) >= y
    BY <1>1 DEF Max
  <1>. QED  BY <1>2

\* The age of the oldest row is not less than that of any row.
LEMMA AgeFacts ==
  ASSUME NEW utc \in Nat, NEW times \in SUBSET Nat
  PROVE  /\ Age(utc, times) \in Int
         /\ \A t \in times : Age(utc, times) # NoAge /\ Age(utc, times) >= utc - t
  <1>1. CASE times = {}
    BY <1>1 DEF Age, NoAge
  <1>2. CASE times # {}
    <2>1. Min(times) \in Nat /\ \A t \in times : Min(times) <= t
      BY <1>2, EarliestIs
    <2>2. /\ Max({0, utc - Min(times)}) \in Int /\ Max({0, utc - Min(times)}) >= 0
          /\ Max({0, utc - Min(times)}) >= utc - Min(times)
      BY <2>1, AgeClamped
    <2>3. Age(utc, times) = Max({0, utc - Min(times)})
      BY <1>2 DEF Age
    <2>. QED  BY <2>1, <2>2, <2>3 DEF NoAge
  <1>. QED  BY <1>1, <1>2

\* Counting a part of the jobs.
LEMMA CountFacts ==
  ASSUME NEW S \in SUBSET Jobs
  PROVE  /\ Cardinality(S) \in Nat
         /\ \A T \in SUBSET S : Cardinality(T) \in Nat /\ Cardinality(T) <= Cardinality(S)
         /\ \A T, U \in SUBSET Jobs : S \subseteq T \union U => Cardinality(S) <= Cardinality(T) + Cardinality(U)
  <1>1. \A T \in SUBSET Jobs : IsFiniteSet(T) /\ Cardinality(T) \in Nat
    BY FS_Subset, FS_CardinalityType, DiagnosticsAssumption
  <1>2. \A T \in SUBSET S : Cardinality(T) <= Cardinality(S)
    BY <1>1, FS_Subset
  <1>3. ASSUME NEW T \in SUBSET Jobs, NEW U \in SUBSET Jobs, S \subseteq T \union U
        PROVE  Cardinality(S) <= Cardinality(T) + Cardinality(U)
    <2>1. /\ IsFiniteSet(T \union U)
          /\ Cardinality(T \union U) = Cardinality(T) + Cardinality(U) - Cardinality(T \intersect U)
      BY <1>1, FS_Union
    <2>2. Cardinality(T \intersect U) \in Nat /\ Cardinality(S) <= Cardinality(T \union U)
      BY <1>1, <1>3, <2>1, FS_Subset
    <2>. QED  BY <1>1, <2>1, <2>2
  <1>. QED  BY <1>1, <1>2, <1>3

\* What a query finds is a figure.
LEMMA QueriedFacts ==
  ASSUME FiguresInv, NEW r \in Readers, NEW status \in Kinds
  PROVE  Queried(r, status) \in Figures
  <1>1. reader[r] \in ReaderType /\ reader[r].data \in Figures /\ reader[r].utc \in Nat
    BY DEF FiguresInv, ReadersType, ReaderType
  <1>2. Cardinality(With(status)) \in Nat
    BY CountFacts DEF With
  <1>3. {job[j].created : j \in With("pending")} \in SUBSET Nat
    BY DEF With, FiguresInv, JobType, JobRow
  <1>4. Age(reader[r].utc, {job[j].created : j \in With("pending")}) \in Int
    BY <1>1, <1>3, AgeFacts
  <1>5. [reader[r].data.count EXCEPT ![status] = Cardinality(With(status))] \in [Kinds -> Nat]
    BY <1>1, <1>2 DEF Figures
  <1>. QED  BY <1>1, <1>4, <1>5 DEF Queried, Figures

\* Figures go on telling of the rows they told of: rows leave the pending ones, and
\* those that join them are new.
LEMMA TellsOn ==
  ASSUME NEW data \in Figures, NEW time \in Nat, time <= clock, ClockType, JobType,
         Tells(data, time),
         \A j \in Jobs : job'[j].status = "pending" =>
           \/ job'[j] = job[j]
           \/ job'[j].created = clock
  PROVE  Tells(data, time)'
  BY DEF Tells, With, ClockType, JobType, JobRow

-----------------------------------------------------------------------------
LEMMA InitFigures == DiagnosticsInit => FiguresInv
  <1>. SUFFICES ASSUME DiagnosticsInit PROVE FiguresInv
    OBVIOUS
  <1>1. NoData \in Figures /\ Fresh \in ReaderType
    BY DEF NoData, Figures, NoAge, Fresh, ReaderType
  <1>2. ClockType /\ JobType /\ CacheType /\ ReadersType
    BY <1>1, DiagnosticsAssumption DEF DiagnosticsInit, NoJob, JobRow, ClockType, JobType, CacheType, ReadersType
  <1>3. With("pending") = {}
    BY DEF DiagnosticsInit, With, NoJob
  <1>4. RowsInTime /\ CacheOK
    BY <1>2, <1>3 DEF DiagnosticsInit, RowsInTime, CacheOK, Tells, ClockType
  <1>5. ASSUME NEW r \in Readers  PROVE ReaderOK(r)
    BY <1>2 DEF DiagnosticsInit, ReaderOK, Fresh, ClockType
  <1>6. FiguresOK
    BY DiagnosticsAssumption DEF DiagnosticsInit, FiguresOK, AnswersAreRecent, BacklogRaisesAlarm, NoAnswer
  <1>. QED  BY <1>2, <1>4, <1>5, <1>6 DEF FiguresInv

\* Silence is an answer that is recent and overlooks nothing.
LEMMA SilentOK == ASSUME Silent PROVE FiguresOK'
  BY DiagnosticsAssumption DEF Silent, FiguresOK, AnswersAreRecent, BacklogRaisesAlarm, NoAnswer

\* Rows that move, while the requests and the cache stand still.
LEMMA JobsMove ==
  ASSUME FiguresInv, Silent, UNCHANGED <<clock, cache, reader>>, JobType',
         \A j \in Jobs : job'[j].status = "pending" =>
           \/ job'[j] = job[j]
           \/ job'[j].created = clock /\ job[j].status = "absent",
         \A j \in Jobs : job'[j].status = "absent" => job[j].status = "absent"
  PROVE  FiguresInv'
  <1>1. ClockType' /\ CacheType' /\ ReadersType' /\ FiguresOK'
    BY SilentOK DEF FiguresInv, ClockType, CacheType, ReadersType
  <1>2. RowsInTime'
    BY DEF FiguresInv, RowsInTime, With, ClockType
  <1>3. ASSUME NEW data \in Figures, NEW time \in Nat, time <= clock, Tells(data, time)
        PROVE  Tells(data, time)'
    BY <1>3, TellsOn DEF FiguresInv
  <1>4. CacheOK'
    <2>1. cache.data \in Figures /\ cache.time \in Nat /\ cache.since \in Nat /\ clock \in Nat
      BY DEF FiguresInv, CacheType, ClockType
    <2>2. CacheOK /\ cache.time <= clock
      BY <2>1 DEF FiguresInv, CacheOK
    <2>3. PICK d \in Figures, t \in Nat : d = cache.data /\ t = cache.time
      BY <2>1
    <2>4. Tells(d, t)'
      BY <1>3, <2>2, <2>3 DEF CacheOK
    <2>. QED  BY <2>2, <2>3, <2>4 DEF CacheOK
  <1>5. ASSUME NEW r \in Readers  PROVE ReaderOK(r)'
    <2>1. /\ reader[r] \in ReaderType /\ clock \in Nat /\ ReaderOK(r)
          /\ reader[r].data \in Figures /\ reader[r].asked \in Nat /\ reader[r].steady \in SUBSET Jobs
      BY DEF FiguresInv, ReadersType, ReaderType, ClockType
    <2>2. PICK d \in Figures, t \in Nat : d = reader[r].data /\ t = reader[r].asked
      BY <2>1
    <2>3. reader[r].pc \in {"second", "store"} => Tells(d, t)'
      BY <1>3, <2>1, <2>2 DEF ReaderOK
    <2>4. ASSUME reader[r].pc = "second"
          PROVE  /\ \A j \in reader[r].steady : job'[j].status # "absent"
                 /\ Cardinality(reader[r].steady \intersect With("pending")')
                      <= reader[r].data.count["pending"]
      <3>1. \A j \in reader[r].steady : job[j].status # "absent" /\ job'[j].status # "absent"
        BY <2>1, <2>4 DEF ReaderOK
      <3>2. reader[r].steady \intersect With("pending")' \subseteq reader[r].steady \intersect With("pending")
        BY <2>1, <3>1 DEF With
      <3>3. /\ reader[r].steady \intersect With("pending") \in SUBSET Jobs
            /\ reader[r].data.count["pending"] \in Nat
        BY <2>1 DEF Figures, Kinds
      <3>4. /\ Cardinality(reader[r].steady \intersect With("pending")')
                 <= Cardinality(reader[r].steady \intersect With("pending"))
            /\ Cardinality(reader[r].steady \intersect With("pending")') \in Nat
            /\ Cardinality(reader[r].steady \intersect With("pending")) \in Nat
        BY <3>2, <3>3, CountFacts
      <3>. QED  BY <2>1, <2>4, <3>1, <3>3, <3>4 DEF ReaderOK
    <2>. QED  BY <2>1, <2>2, <2>3, <2>4 DEF ReaderOK
  <1>. QED  BY <1>1, <1>2, <1>4, <1>5 DEF FiguresInv

\* One request moves, and the rows stand still.
LEMMA ReaderMoves ==
  ASSUME FiguresInv, UNCHANGED <<clock, job>>, NEW r \in Readers, NEW v \in ReaderType,
         reader' = [reader EXCEPT ![r] = v],
         CacheType', CacheOK', FiguresOK', ReaderOK(r)'
  PROVE  FiguresInv'
  <1>1. ClockType' /\ JobType' /\ RowsInTime'
    BY DEF FiguresInv, ClockType, JobType, RowsInTime, With
  <1>2. ReadersType'
    BY DEF FiguresInv, ReadersType
  <1>3. ASSUME NEW q \in Readers, q # r  PROVE ReaderOK(q)'
    <2>1. reader'[q] = reader[q] /\ ReaderOK(q)
      BY <1>3 DEF FiguresInv, ReadersType
    <2>. QED  BY <2>1 DEF ReaderOK, Tells, With, Depth
  <1>. QED  BY <1>1, <1>2, <1>3 DEF FiguresInv

\* A request that has been answered is where it was before it came.
LEMMA RestingOK ==
  ASSUME ClockType', NEW r \in Readers, reader'[r] = Fresh
  PROVE  ReaderOK(r)' /\ Fresh \in ReaderType
  BY DEF ReaderOK, Fresh, ReaderType, NoData, Figures, NoAge, ClockType

LEMMA TickStep == ASSUME FiguresInv, ClockTick PROVE FiguresInv'
  <1>1. /\ clock' = clock + 1 /\ clock \in Nat /\ Silent
        /\ job' = job /\ cache' = cache /\ reader' = reader
    BY DEF ClockTick, FiguresInv, ClockType
  <1>2. ClockType' /\ JobType' /\ CacheType' /\ ReadersType' /\ FiguresOK'
    BY <1>1, SilentOK DEF FiguresInv, ClockType, JobType, CacheType, ReadersType
  <1>3. RowsInTime'
    BY <1>1 DEF FiguresInv, RowsInTime, With, JobType, JobRow
  <1>4. CacheOK'
    BY <1>1 DEF FiguresInv, CacheOK, CacheType, Tells, With
  <1>5. ASSUME NEW r \in Readers  PROVE ReaderOK(r)'
    <2>1. ReaderOK(r) /\ reader[r].asked \in Nat /\ reader[r].since \in Nat
      BY DEF FiguresInv, ReadersType, ReaderType
    <2>. QED  BY <1>1, <2>1 DEF ReaderOK, Tells, With, Depth
  <1>. QED  BY <1>2, <1>3, <1>4, <1>5 DEF FiguresInv

LEMMA AskStep == ASSUME FiguresInv, NEW r \in Readers, Ask(r) PROVE FiguresInv'
  <1>0. NoData \in Figures /\ clock \in Nat
    BY DEF NoData, Figures, NoAge, FiguresInv, ClockType
  <1>1. PICK v \in ReaderType : v = [Fresh EXCEPT !.pc = "check", !.asked = clock]
    BY <1>0 DEF Fresh, ReaderType
  <1>2. v.pc = "check" /\ v.asked = clock /\ v.since = 0
    BY <1>1 DEF Fresh
  <1>3. /\ UNCHANGED <<clock, job, cache>> /\ Silent
        /\ reader' = [reader EXCEPT ![r] = v] /\ reader'[r] = v /\ clock \in Nat
    BY <1>1 DEF Ask, FiguresInv, ReadersType, ClockType
  <1>4. CacheType' /\ CacheOK' /\ FiguresOK'
    BY <1>3, SilentOK DEF FiguresInv, CacheType, CacheOK, Tells, With
  <1>5. ReaderOK(r)'
    BY <1>2, <1>3 DEF ReaderOK
  <1>. QED  BY <1>3, <1>4, <1>5, ReaderMoves

LEMMA MissStep == ASSUME FiguresInv, NEW r \in Readers, Miss(r) PROVE FiguresInv'
  <1>0. reader[r] \in ReaderType /\ clock \in Nat /\ ReaderOK(r)
    BY DEF FiguresInv, ReadersType, ClockType
  <1>1. PICK v \in ReaderType : v = [reader[r] EXCEPT !.pc = "first", !.utc = clock]
    BY <1>0 DEF ReaderType
  <1>2. v.pc = "first" /\ v.utc = clock /\ v.asked = reader[r].asked /\ v.since = reader[r].since
    BY <1>0, <1>1 DEF ReaderType
  <1>3. /\ UNCHANGED <<clock, job, cache>> /\ Silent
        /\ reader' = [reader EXCEPT ![r] = v] /\ reader'[r] = v
    BY <1>1 DEF Miss, FiguresInv, ReadersType
  <1>4. CacheType' /\ CacheOK' /\ FiguresOK'
    BY <1>3, SilentOK DEF FiguresInv, CacheType, CacheOK, Tells, With
  <1>5. ReaderOK(r)'
    BY <1>0, <1>2, <1>3 DEF ReaderOK
  <1>. QED  BY <1>3, <1>4, <1>5, ReaderMoves

\* The pending rows are read: the oldest of them is older than now_utc says of any,
\* which was taken after the request came.
LEMMA FirstQueryStep == ASSUME FiguresInv, NEW r \in Readers, FirstQuery(r) PROVE FiguresInv'
  <1>0. /\ reader[r] \in ReaderType /\ clock \in Nat /\ ReaderOK(r) /\ reader[r].pc = "first"
        /\ reader[r].asked \in Nat /\ reader[r].utc \in Nat
    BY DEF FiguresInv, ReadersType, ClockType, ReaderType, FirstQuery
  <1>1. PICK d \in Figures : d = Queried(r, "pending")
    BY QueriedFacts DEF Kinds
  <1>2. Live \in SUBSET Jobs
    BY DEF Live, With
  <1>3. PICK v \in ReaderType :
          v = [reader[r] EXCEPT !.pc = "second", !.data = d, !.utc = 0, !.since = clock, !.steady = Live]
    BY <1>0, <1>1, <1>2 DEF ReaderType
  <1>4. /\ v.pc = "second" /\ v.data = d /\ v.since = clock /\ v.steady = Live
        /\ v.asked = reader[r].asked
    BY <1>0, <1>3 DEF ReaderType
  <1>5. /\ UNCHANGED <<clock, job, cache>> /\ Silent
        /\ reader' = [reader EXCEPT ![r] = v] /\ reader'[r] = v
    BY <1>1, <1>3 DEF FirstQuery, QueryOrder, FiguresInv, ReadersType
  <1>6. CacheType' /\ CacheOK' /\ FiguresOK'
    BY <1>5, SilentOK DEF FiguresInv, CacheType, CacheOK, Tells, With
  <1>7. Tells(d, reader[r].asked)
    <2>1. d.oldest = Age(reader[r].utc, {job[j].created : j \in With("pending")})
      BY <1>1 DEF Queried
    <2>2. {job[j].created : j \in With("pending")} \in SUBSET Nat
      BY DEF With, FiguresInv, JobType, JobRow
    <2>3. /\ Age(reader[r].utc, {job[j].created : j \in With("pending")}) \in Int
          /\ \A t \in {job[j].created : j \in With("pending")} :
               d.oldest # NoAge /\ d.oldest >= reader[r].utc - t
      BY <1>0, <2>1, <2>2, AgeFacts
    <2>4. reader[r].asked <= reader[r].utc
      BY <1>0 DEF ReaderOK
    <2>5. ASSUME NEW j \in With("pending")
          PROVE  d.oldest # NoAge /\ d.oldest >= reader[r].asked - job[j].created
      <3>1. job[j].created \in Nat
        BY DEF With, FiguresInv, JobType, JobRow
      <3>2. d.oldest \in Int /\ d.oldest # NoAge /\ d.oldest >= reader[r].utc - job[j].created
        BY <2>1, <2>3
      <3>. QED  BY <1>0, <2>4, <3>1, <3>2
    <2>. QED  BY <2>5 DEF Tells
  <1>8. d.count["pending"] = Cardinality(With("pending"))
    BY <1>0, <1>1 DEF Queried, ReaderType, Figures, Kinds
  <1>9. /\ Live \intersect With("pending") = With("pending")
        /\ \A j \in Live : job[j].status # "absent"
        /\ Cardinality(With("pending")) \in Nat
    BY CountFacts DEF Live, With, Kinds
  <1>10. ReaderOK(r)'
    <2>1. PICK a \in Nat : a = reader[r].asked
      BY <1>0
    <2>2. Tells(d, a)'
      BY <1>5, <1>7, <2>1 DEF Tells, With
    <2>3. a <= clock /\ With("pending")' = With("pending")
      BY <1>0, <1>5, <2>1 DEF ReaderOK, With
    <2>4. /\ reader'[r].pc = "second" /\ reader'[r].data = d /\ reader'[r].since = clock
          /\ reader'[r].asked = a /\ reader'[r].steady = Live
      BY <1>4, <1>5, <2>1
    <2>5. Cardinality(reader'[r].steady \intersect With("pending")') <= reader'[r].data.count["pending"]
      <3>1. PICK n, S : n \in Nat /\ n = Cardinality(S) /\ S = With("pending")
        BY <1>9
      <3>2. reader'[r].steady \intersect With("pending")' = S
        BY <1>9, <2>3, <2>4, <3>1
      <3>3. reader'[r].data.count["pending"] = n
        BY <1>8, <2>4, <3>1
      <3>. QED  BY <3>1, <3>2, <3>3
    <2>6. \A j \in reader'[r].steady : job'[j].status # "absent"
      BY <1>5, <1>9, <2>4
    <2>. QED  BY <1>0, <1>5, <2>2, <2>3, <2>4, <2>5, <2>6 DEF ReaderOK
  <1>. QED  BY <1>5, <1>6, <1>10, ReaderMoves

\* The running rows are read: a row that was claimed since the first query is among
\* them.
LEMMA SecondQueryStep == ASSUME FiguresInv, NEW r \in Readers, SecondQuery(r) PROVE FiguresInv'
  <1>0. /\ reader[r] \in ReaderType /\ clock \in Nat /\ ReaderOK(r) /\ reader[r].pc = "second"
        /\ reader[r].asked \in Nat /\ reader[r].data \in Figures /\ reader[r].steady \in SUBSET Jobs
        /\ reader[r].data.count \in [Kinds -> Nat]
    BY DEF FiguresInv, ReadersType, ClockType, ReaderType, SecondQuery, Figures
  <1>1. PICK d \in Figures : d = Queried(r, "running")
    BY QueriedFacts DEF Kinds
  <1>2. PICK still \in SUBSET Jobs : still = reader[r].steady \intersect Live
    BY <1>0
  <1>3. PICK v \in ReaderType :
          v = [reader[r] EXCEPT !.pc = "store", !.data = d, !.steady = still]
    BY <1>0, <1>1, <1>2 DEF ReaderType
  <1>4. /\ v.pc = "store" /\ v.data = d /\ v.since = reader[r].since /\ v.steady = still
        /\ v.asked = reader[r].asked
    BY <1>0, <1>3 DEF ReaderType
  <1>5. /\ UNCHANGED <<clock, job, cache>> /\ Silent
        /\ reader' = [reader EXCEPT ![r] = v] /\ reader'[r] = v
    BY <1>1, <1>2, <1>3 DEF SecondQuery, QueryOrder, FiguresInv, ReadersType
  <1>6. CacheType' /\ CacheOK' /\ FiguresOK'
    BY <1>5, SilentOK DEF FiguresInv, CacheType, CacheOK, Tells, With
  <1>7. /\ d.oldest = reader[r].data.oldest
        /\ d.count["pending"] = reader[r].data.count["pending"]
        /\ d.count["running"] = Cardinality(With("running"))
    BY <1>0, <1>1 DEF Queried, Kinds
  <1>8. Cardinality(still) <= Depth(d)
    <2>1. PICK waiting \in SUBSET Jobs : waiting = reader[r].steady \intersect With("pending")
      BY <1>0
    <2>2. PICK runs \in SUBSET Jobs : runs = With("running")
      BY DEF With
    <2>3. still \subseteq waiting \union runs
      BY <1>2, <2>1, <2>2 DEF Live, Kinds
    <2>4. Cardinality(waiting) <= d.count["pending"]
      BY <1>0, <1>7, <2>1 DEF ReaderOK
    <2>5. /\ Cardinality(still) <= Cardinality(waiting) + Cardinality(runs)
          /\ Cardinality(waiting) \in Nat /\ Cardinality(runs) \in Nat /\ Cardinality(still) \in Nat
      BY <2>3, CountFacts
    <2>6. d.count["running"] = Cardinality(runs) /\ d.count["pending"] \in Nat
      BY <1>7, <2>2 DEF Figures, Kinds
    <2>. QED  BY <2>4, <2>5, <2>6 DEF Depth
  <1>9. ReaderOK(r)'
    <2>1. PICK a \in Nat : a = reader[r].asked
      BY <1>0
    <2>2. Tells(d, a)'
      BY <1>0, <1>5, <1>7, <2>1 DEF ReaderOK, Tells, With
    <2>3. a <= clock /\ reader[r].since <= clock /\ a <= reader[r].since
      BY <1>0, <2>1 DEF ReaderOK
    <2>4. /\ reader'[r].pc = "store" /\ reader'[r].data = d /\ reader'[r].since = reader[r].since
          /\ reader'[r].asked = a /\ reader'[r].steady = still
      BY <1>4, <1>5, <2>1
    <2>5. Cardinality(reader'[r].steady) <= Depth(reader'[r].data)
      BY <1>8, <2>4
    <2>. QED  BY <1>5, <2>2, <2>3, <2>4, <2>5 DEF ReaderOK
  <1>. QED  BY <1>5, <1>6, <1>9, ReaderMoves

\* Whatever tells of the rows older than time is unhealthy when one of them is
\* overdue, provided that time is not a TTL before the answer.
LEMMA OverdueIsTold ==
  ASSUME FiguresInv, NEW data \in Figures, NEW time \in Nat, NEW asked \in Nat,
         Tells(data, time), asked - time < TTL, Overdue(asked)
  PROVE  ~Healthy(data)
  <1>1. PICK j \in With("pending") : job[j].created + AgeLimit + TTL <= asked
    BY DEF Overdue
  <1>2. job[j].created \in Nat /\ TTL \in Nat /\ AgeLimit \in Nat /\ data.oldest \in Int
    BY DiagnosticsAssumption DEF With, FiguresInv, JobType, JobRow, Figures
  <1>3. job[j].created < time /\ time - job[j].created > AgeLimit
    BY <1>1, <1>2
  <1>4. data.oldest # NoAge /\ data.oldest >= time - job[j].created
    BY <1>3 DEF Tells
  <1>. QED  BY <1>2, <1>3, <1>4 DEF Healthy

LEMMA HitStep == ASSUME FiguresInv, NEW r \in Readers, Hit(r) PROVE FiguresInv'
  <1>0. /\ reader[r].asked \in Nat /\ cache.time \in Nat /\ cache.since \in Nat /\ cache.data \in Figures
        /\ TTL \in Nat /\ CacheOK
    BY DiagnosticsAssumption DEF FiguresInv, ReadersType, ReaderType, CacheType
  <1>1. /\ UNCHANGED <<clock, job, cache>> /\ reader' = [reader EXCEPT ![r] = Fresh] /\ reader'[r] = Fresh
        /\ reader[r].asked - cache.time < TTL
        /\ answer' = [lag |-> reader[r].asked - cache.since, healthy |-> Healthy(cache.data),
                      overdue |-> Overdue(reader[r].asked)]
    BY DEF Hit, Respond, Cached, FiguresInv, ReadersType
  <1>2. Overdue(reader[r].asked) => ~Healthy(cache.data)
    BY <1>0, <1>1, OverdueIsTold DEF CacheOK
  <1>3. FiguresOK'
    BY <1>0, <1>1, <1>2 DEF FiguresOK, AnswersAreRecent, BacklogRaisesAlarm, CacheOK
  <1>4. CacheType' /\ CacheOK' /\ ClockType'
    BY <1>1 DEF FiguresInv, CacheType, CacheOK, Tells, With, ClockType
  <1>. QED  BY <1>1, <1>3, <1>4, ReaderMoves, RestingOK

LEMMA StoreStep == ASSUME FiguresInv, NEW r \in Readers, Store(r) PROVE FiguresInv'
  <1>0. /\ reader[r].asked \in Nat /\ reader[r].since \in Nat /\ reader[r].data \in Figures
        /\ TTL \in Nat \ {0} /\ ReaderOK(r) /\ reader[r].pc = "store"
    BY DiagnosticsAssumption DEF FiguresInv, ReadersType, ReaderType, Store
  <1>1. /\ UNCHANGED <<clock, job>> /\ reader' = [reader EXCEPT ![r] = Fresh] /\ reader'[r] = Fresh
        /\ cache' = [time |-> reader[r].asked, data |-> reader[r].data, since |-> reader[r].since]
        /\ answer' = [lag |-> reader[r].asked - reader[r].since, healthy |-> Healthy(reader[r].data),
                      overdue |-> Overdue(reader[r].asked)]
    BY DEF Store, Respond, Entry, FiguresInv, ReadersType
  <1>2. /\ Tells(reader[r].data, reader[r].asked) /\ reader[r].asked <= reader[r].since
        /\ reader[r].since <= clock
    BY <1>0 DEF ReaderOK
  <1>3. Overdue(reader[r].asked) => ~Healthy(reader[r].data)
    BY <1>0, <1>2, OverdueIsTold
  <1>4. FiguresOK'
    BY <1>0, <1>1, <1>2, <1>3 DEF FiguresOK, AnswersAreRecent, BacklogRaisesAlarm
  <1>5. CacheType' /\ ClockType'
    BY <1>0, <1>1 DEF FiguresInv, CacheType, ClockType
  <1>6. CacheOK'
    <2>1. PICK d \in Figures, a \in Nat : d = reader[r].data /\ a = reader[r].asked
      BY <1>0
    <2>2. Tells(d, a)'
      BY <1>1, <1>2, <2>1 DEF Tells, With
    <2>. QED  BY <1>1, <1>2, <2>1, <2>2 DEF CacheOK
  <1>. QED  BY <1>1, <1>4, <1>5, <1>6, ReaderMoves, RestingOK

LEMMA JobsStep == ASSUME FiguresInv, NEW j \in Jobs, Submit(j) \/ StartJob(j) \/ Leave(j) PROVE FiguresInv'
  <1>1. PICK row \in JobRow :
          /\ job' = [job EXCEPT ![j] = row]
          /\ row.status = "pending" => row.created = clock /\ job[j].status = "absent"
          /\ row.status # "absent"
    <2>1. CASE Submit(j)
      <3>1. PICK row : row = [NoJob EXCEPT !.status = "pending", !.created = clock]
        OBVIOUS
      <3>2. row \in JobRow /\ row.status = "pending" /\ row.created = clock
        BY <3>1 DEF NoJob, JobRow, FiguresInv, ClockType
      <3>. QED  BY <2>1, <3>1, <3>2 DEF Submit
    <2>2. CASE StartJob(j)
      <3>1. PICK row : row = [NoJob EXCEPT !.status = "running"]
        OBVIOUS
      <3>2. row \in JobRow /\ row.status = "running"
        BY <3>1 DEF NoJob, JobRow
      <3>. QED  BY <2>2, <3>1, <3>2 DEF StartJob
    <2>3. CASE Leave(j)
      <3>1. Gone \in JobRow /\ Gone.status = "done"
        BY DEF Gone, JobRow
      <3>. QED  BY <2>3, <3>1 DEF Leave
    <2>. QED  BY <2>1, <2>2, <2>3
  <1>2. UNCHANGED <<clock, cache, reader>> /\ Silent
    BY DEF Submit, StartJob, Leave
  <1>3. JobType'
    BY <1>1 DEF FiguresInv, JobType
  <1>4. /\ \A i \in Jobs : job'[i].status = "pending" =>
             \/ job'[i] = job[i]
             \/ job'[i].created = clock /\ job[i].status = "absent"
        /\ \A i \in Jobs : job'[i].status = "absent" => job[i].status = "absent"
    BY <1>1 DEF FiguresInv, JobType
  <1>. QED  BY <1>2, <1>3, <1>4, JobsMove

LEMMA StepFigures == ASSUME FiguresInv, [DiagnosticsNext]_diagnosticsVars PROVE FiguresInv'
  <1>1. ASSUME NEW r \in Readers, ReaderStep(r)  PROVE FiguresInv'
    BY <1>1, AskStep, HitStep, MissStep, FirstQueryStep, SecondQueryStep, StoreStep DEF ReaderStep
  <1>2. ASSUME UNCHANGED diagnosticsVars  PROVE FiguresInv'
    BY <1>2 DEF diagnosticsVars, FiguresInv, ClockType, JobType, CacheType, ReadersType, RowsInTime, CacheOK,
                FiguresOK, AnswersAreRecent, BacklogRaisesAlarm, ReaderOK, Tells, With, Depth
  <1>. QED  BY <1>1, <1>2, JobsStep, TickStep DEF DiagnosticsNext

\* The invariant is one of every behaviour.
LEMMA FiguresInvariant == DiagnosticsSpec => []FiguresInv
  <1>1. DiagnosticsInit => FiguresInv
    BY InitFigures
  <1>2. FiguresInv /\ [DiagnosticsNext]_diagnosticsVars => FiguresInv'
    BY StepFigures
  <1>. QED  BY <1>1, <1>2, PTL DEF DiagnosticsSpec

-----------------------------------------------------------------------------
\* The figures of an answer of GET /diagnostics, cached or computed, are younger
\* than the TTL at the time its request came in, however many requests fill the
\* cache at once and in whichever order they store what they have read.
THEOREM FiguresAreRecent == DiagnosticsSpec => []AnswersAreRecent
  <1>1. FiguresInv => AnswersAreRecent
    BY DEF FiguresInv, FiguresOK
  <1>. QED  BY <1>1, FiguresInvariant, PTL

\* The depth that is computed counts every job that was pending or running at both
\* queries, also one that a worker claims between them: the second query finds it
\* running if the first did not find it pending.
THEOREM LiveJobsAreCounted == DiagnosticsSpec => []NoLiveJobIsMissed
  <1>1. FiguresInv => NoLiveJobIsMissed
    <2>. SUFFICES ASSUME FiguresInv, NEW r \in Readers, reader[r].pc = "store"
                  PROVE  Depth(reader[r].data) >= Cardinality(reader[r].steady)
      BY DEF NoLiveJobIsMissed
    <2>1. reader[r].data \in Figures /\ Cardinality(reader[r].steady) <= Depth(reader[r].data)
      BY DEF FiguresInv, ReaderOK, ReadersType, ReaderType
    <2>. QED  BY <2>1
  <1>. QED  BY <1>1, FiguresInvariant, PTL

\* No answer of GET /diagnostics says that the queue is healthy while a job is
\* pending that was overdue a TTL before the request came in.
THEOREM BacklogIsTold == DiagnosticsSpec => []BacklogRaisesAlarm
  <1>1. FiguresInv => BacklogRaisesAlarm
    BY DEF FiguresInv, FiguresOK
  <1>. QED  BY <1>1, FiguresInvariant, PTL

-----------------------------------------------------------------------------
(***************************************************************************)
(* Proofs about RowLocks, for any rows, workers, requests and any number   *)
(* of transactions: outside the candidate list the rows of a transaction   *)
(* are asked for in one order, the counters of the month before the job    *)
(* and the job no later than a second one, and whoever has a user for      *)
(* himself asks for nothing more.  So whoever is in the way of another one *)
(* waits for something later in that order.                                *)
(***************************************************************************)

Tables     == {"simulations", "users", "monthly_usage"}
LockSet    == [row : Tables \X (UserRows \union JobRows), shared : BOOLEAN]
Statements == LockSet \union {Commit}

\* What a statement asks for: the users row is asked for in two ways.
Asks(s) == IF s.row[1] = "users" /\ s.shared THEN "key" ELSE s.row[1]

\* Whether l may be held when m is asked for.
May(l, m) == /\ Asks(m) \notin {"monthly_usage", "users"}
             /\ Asks(l) # "users"
             /\ ~(Asks(l) = "simulations" /\ Asks(m) = "simulations")

\* No transaction ends between two statements of t.
Together(t, i, j) == \A k \in i .. j : t[k] # Commit

Orderly(t) == \A i, j \in 1 .. Len(t) : i < j /\ Together(t, i, j) => May(t[i], t[j])

\* The locks that are held are of the transaction t goes on with.
Continues(ls, t) == \A l \in ls, i \in 1 .. Len(t) : Together(t, 1, i) => May(l, t[i])

EndsInCommit(t) == t # <<>> /\ t[Len(t)] = Commit
Whole(t)        == t \in Seq(Statements) /\ EndsInCommit(t) /\ Orderly(t)

AtList(a) == a \in Workers /\ Scanning(a)

LocksShape == /\ held \in [Actors -> SUBSET LockSet]
              /\ todo \in [Actors -> Seq(Statements)]
              /\ pc \in [Workers -> {"idle", "scan", "counted", "run", "result"}]
              /\ list \in [Workers -> SUBSET JobRows]

ActorOK(a) ==
    /\ \/ todo[a] = <<>> \/ EndsInCommit(todo[a])
       \/ a \in Workers /\ pc[a] = "counted" /\ Len(todo[a]) = 1
    /\ held[a] # {} => todo[a] # <<>> \/ AtList(a)
    /\ ~AtList(a) => Orderly(todo[a]) /\ Continues(held[a], todo[a])

WorkerOK(w) == pc[w] \in {"counted", "run", "result"} => list[w] # {}

LocksInv == /\ LocksShape
            /\ \A a \in Actors : ActorOK(a)
            /\ \A w \in Workers : WorkerOK(w)

-----------------------------------------------------------------------------
(* Statements and transactions.                                            *)

LEMMA AsksWhat ==
  /\ \A t \in Tables, x \in UserRows \union JobRows :
       Lock(t, x) \in LockSet /\ Asks(Lock(t, x)) = t /\ Lock(t, x) # Commit
  /\ \A u \in UserRows : KeyShare(u) \in LockSet /\ Asks(KeyShare(u)) = "key" /\ KeyShare(u) # Commit
  /\ Commit \notin LockSet /\ \A l \in LockSet : Asks(l) \in Tables \union {"key"}
  <1>1. ASSUME NEW t \in Tables, NEW x \in UserRows \union JobRows
        PROVE  Lock(t, x) \in LockSet /\ Asks(Lock(t, x)) = t
    BY DEF Lock, LockSet, Tables, Asks
  <1>2. ASSUME NEW u \in UserRows  PROVE KeyShare(u) \in LockSet /\ Asks(KeyShare(u)) = "key"
    BY DEF KeyShare, LockSet, Tables, Asks
  <1>3. \A l \in LockSet : l.row[1] \in Tables
    BY DEF LockSet
  <1>4. Commit.row[1] = "commit"
    BY DEF Commit
  <1>5. Commit \notin LockSet
    BY <1>3, <1>4 DEF Tables
  <1>. QED  BY <1>1, <1>2, <1>3, <1>5 DEF Asks

LEMMA OneLock == ASSUME NEW x \in LockSet PROVE Whole(<<x, Commit>>)
  <1>1. /\ <<x, Commit>> \in Seq(Statements) /\ Len(<<x, Commit>>) = 2
        /\ <<x, Commit>>[2] = Commit /\ <<x, Commit>> # <<>>
    BY DEF Statements
  <1>2. Orderly(<<x, Commit>>)
    BY <1>1 DEF Orderly, Together
  <1>. QED  BY <1>1, <1>2 DEF Whole, EndsInCommit

LEMMA TwoLocks == ASSUME NEW x \in LockSet, NEW y \in LockSet, May(x, y) PROVE Whole(<<x, y, Commit>>)
  <1>1. /\ <<x, y, Commit>> \in Seq(Statements) /\ Len(<<x, y, Commit>>) = 3
        /\ <<x, y, Commit>>[1] = x /\ <<x, y, Commit>>[2] = y
        /\ <<x, y, Commit>>[3] = Commit /\ <<x, y, Commit>> # <<>>
    BY DEF Statements
  <1>2. Orderly(<<x, y, Commit>>)
    BY <1>1 DEF Orderly, Together
  <1>. QED  BY <1>1, <1>2 DEF Whole, EndsInCommit

\* Transactions one after the other.
LEMMA Joined == ASSUME NEW s, NEW t, Whole(s), Whole(t) PROVE Whole(s \o t)
  <1>1. s \in Seq(Statements) /\ t \in Seq(Statements) /\ Len(s) \in Nat /\ Len(t) \in Nat /\ Len(t) > 0 /\ Len(s) > 0
    BY EmptySeq, LenProperties DEF Whole, EndsInCommit
  <1>2. /\ s \o t \in Seq(Statements) /\ Len(s \o t) = Len(s) + Len(t)
        /\ \A i \in 1 .. Len(s) + Len(t) :
             (s \o t)[i] = IF i <= Len(s) THEN s[i] ELSE t[i - Len(s)]
    BY <1>1, ConcatProperties
  <1>3. EndsInCommit(s \o t)
    BY <1>1, <1>2 DEF Whole, EndsInCommit
  <1>4. ASSUME NEW i \in 1 .. Len(s) + Len(t), NEW j \in 1 .. Len(s) + Len(t), i < j, Together(s \o t, i, j)
        PROVE  May((s \o t)[i], (s \o t)[j])
    <2>1. CASE j <= Len(s)
      <3>1. Together(s, i, j)
        BY <1>1, <1>2, <1>4, <2>1 DEF Together
      <3>. QED  BY <1>1, <1>2, <1>4, <2>1, <3>1 DEF Whole, Orderly
    <2>2. CASE i > Len(s)
      <3>0. /\ i - Len(s) \in 1 .. Len(t) /\ i = (i - Len(s)) + Len(s)
            /\ j - Len(s) \in 1 .. Len(t) /\ j = (j - Len(s)) + Len(s)
        BY <1>1, <1>4, <2>2
      <3>1. PICK x \in 1 .. Len(t), y \in 1 .. Len(t) : i = x + Len(s) /\ j = y + Len(s)
        BY <3>0
      <3>2. ASSUME NEW k \in x .. y  PROVE t[k] # Commit
        <4>1. k + Len(s) \in i .. j /\ k + Len(s) \in 1 .. Len(s) + Len(t) /\ ~(k + Len(s) <= Len(s))
              /\ (k + Len(s)) - Len(s) = k
          BY <1>1, <3>1
        <4>. QED  BY <1>2, <1>4, <4>1 DEF Together
      <3>3. (s \o t)[i] = t[x] /\ (s \o t)[j] = t[y] /\ x < y
        <4>1. ~(i <= Len(s)) /\ ~(j <= Len(s)) /\ i - Len(s) = x /\ j - Len(s) = y /\ x < y
          BY <1>1, <1>4, <3>1
        <4>. QED  BY <1>2, <4>1
      <3>. QED  BY <3>2, <3>3 DEF Whole, Orderly, Together
    <2>3. CASE i <= Len(s) /\ j > Len(s)
      <3>1. Len(s) \in i .. j /\ Len(s) \in 1 .. Len(s) + Len(t) /\ (s \o t)[Len(s)] = Commit
        BY <1>1, <1>2, <1>4, <2>3 DEF Whole, EndsInCommit
      <3>. QED  BY <1>4, <3>1 DEF Together
    <2>. QED  BY <1>1, <2>1, <2>2, <2>3
  <1>5. Orderly(s \o t)
    BY <1>2, <1>4 DEF Orderly
  <1>. QED  BY <1>2, <1>3, <1>5 DEF Whole

LEMMA WholeTransactions ==
         /\ \A u \in UserRows : Whole(Reserving(u)) /\ Whole(Inserting(u)) /\ Whole(Refunding(u)) /\ Whole(CreatingKey(u))
         /\ \A j \in JobRows : /\ Whole(Writing(j)) /\ Whole(RefundingFirst(j)) /\ Whole(Failing(j))
                            /\ \A t \in Completing(j) : Whole(t)
  <1>1. ASSUME NEW u \in UserRows
        PROVE  Whole(Reserving(u)) /\ Whole(Inserting(u)) /\ Whole(Refunding(u)) /\ Whole(CreatingKey(u))
    <2>1. /\ Lock("monthly_usage", u) \in LockSet /\ Asks(Lock("monthly_usage", u)) = "monthly_usage"
          /\ Lock("users", u) \in LockSet
          /\ KeyShare(u) \in LockSet /\ Asks(KeyShare(u)) = "key"
      BY AsksWhat DEF Tables
    <2>2. May(Lock("monthly_usage", u), KeyShare(u))
      BY <2>1 DEF May
    <2>3. /\ Whole(<<Lock("monthly_usage", u), KeyShare(u), Commit>>) /\ Whole(<<KeyShare(u), Commit>>)
          /\ Whole(<<Lock("monthly_usage", u), Commit>>) /\ Whole(<<Lock("users", u), Commit>>)
      BY <2>1, <2>2, OneLock, TwoLocks
    <2>. QED  BY <2>3, Joined DEF Reserving, Inserting, Refunding, CreatingKey
  <1>2. ASSUME NEW j \in JobRows
        PROVE  /\ Whole(Writing(j)) /\ Whole(RefundingFirst(j)) /\ Whole(Failing(j))
               /\ \A t \in Completing(j) : Whole(t)
    <2>0. PICK u \in UserRows : u = Owner[j]
      BY LocksAssumption
    <2>1. /\ Lock("monthly_usage", u) \in LockSet /\ Asks(Lock("monthly_usage", u)) = "monthly_usage"
          /\ Lock("simulations", j) \in LockSet /\ Asks(Lock("simulations", j)) = "simulations"
          /\ KeyShare(u) \in LockSet /\ Asks(KeyShare(u)) = "key"
      BY AsksWhat DEF Tables
    <2>2. /\ May(Lock("monthly_usage", u), Lock("simulations", j))
          /\ May(Lock("simulations", j), KeyShare(u)) /\ May(KeyShare(u), Lock("simulations", j))
      BY <2>1 DEF May
    <2>3. /\ Whole(<<Lock("simulations", j), Commit>>)
          /\ Whole(<<Lock("monthly_usage", u), Lock("simulations", j), Commit>>)
          /\ Whole(<<Lock("simulations", j), KeyShare(u), Commit>>)
          /\ Whole(<<KeyShare(u), Lock("simulations", j), Commit>>)
      BY <2>1, <2>2, OneLock, TwoLocks
    <2>4. Whole(Inserting(u)) /\ Whole(Refunding(u))
      BY <1>1
    <2>5. Whole(Writing(j))
      BY <2>3 DEF Writing
    <2>6. Whole(RefundingFirst(j)) /\ Whole(Failing(j))
      BY <2>0, <2>3, <2>4, <2>5, Joined DEF RefundingFirst, Failing
    <2>. QED  BY <2>0, <2>3, <2>5, <2>6 DEF Completing
  <1>. QED  BY <1>1, <1>2

LEMMA NoStatements == ASSUME NEW u \in Seq(Statements), Len(u) = 0 PROVE u = <<>>
  BY EmptySeq

\* The rest of a sequence of statements.
LEMMA TailFacts ==
  ASSUME NEW t \in Seq(Statements), t # <<>>
  PROVE  /\ Tail(t) \in Seq(Statements) /\ Len(t) \in Nat /\ Len(t) > 0
         /\ Head(t) = t[1] /\ Head(t) \in Statements
         /\ Len(Tail(t)) = Len(t) - 1 /\ \A i \in 1 .. Len(t) - 1 : Tail(t)[i] = t[i + 1]
         /\ EndsInCommit(t) => \/ Tail(t) = <<>> /\ Head(t) = Commit
                              \/ EndsInCommit(Tail(t))
         /\ Orderly(t) => Orderly(Tail(t))
         /\ \A ls : Continues(ls, t) /\ Orderly(t) /\ Head(t) # Commit => Continues(ls \union {Head(t)}, Tail(t))
  <1>1. /\ Tail(t) \in Seq(Statements) /\ Len(t) \in Nat /\ Len(t) > 0 /\ Head(t) = t[1]
        /\ Head(t) \in Statements /\ Len(Tail(t)) = Len(t) - 1
        /\ \A i \in 1 .. Len(t) - 1 : Tail(t)[i] = t[i + 1]
    BY HeadTailProperties, EmptySeq, LenProperties, ElementOfSeq
  <1>2. ASSUME EndsInCommit(t)
        PROVE  (Tail(t) = <<>> /\ Head(t) = Commit) \/ EndsInCommit(Tail(t))
    <2>1. CASE Len(t) = 1
      <3>0. Len(Tail(t)) = 0
        BY <1>1, <2>1
      <3>1. Tail(t) = <<>>
        BY <1>1, <3>0, NoStatements
      <3>. QED  BY <1>1, <1>2, <2>1, <3>1 DEF EndsInCommit
    <2>2. CASE Len(t) # 1
      <3>1. Len(t) - 1 \in 1 .. Len(t) - 1 /\ (Len(t) - 1) + 1 = Len(t) /\ Len(Tail(t)) > 0
        BY <1>1, <2>2
      <3>2. Tail(t)[Len(Tail(t))] = Commit
        BY <1>1, <1>2, <3>1 DEF EndsInCommit
      <3>3. Len(<<>>) = 0
        BY EmptySeq
      <3>. QED  BY <3>1, <3>2, <3>3 DEF EndsInCommit
    <2>. QED  BY <2>1, <2>2
  <1>3. ASSUME NEW i \in 1 .. Len(t) - 1, NEW j \in 1 .. Len(t) - 1, Together(Tail(t), i, j)
        PROVE  Together(t, i + 1, j + 1)
    <2>1. ASSUME NEW k \in i + 1 .. j + 1  PROVE t[k] # Commit
      <3>1. k - 1 \in i .. j /\ k - 1 \in 1 .. Len(t) - 1 /\ (k - 1) + 1 = k
        BY <1>1
      <3>2. Tail(t)[k - 1] = t[k]
        BY <1>1, <3>1
      <3>. QED  BY <1>3, <3>1, <3>2 DEF Together
    <2>. QED  BY <2>1 DEF Together
  <1>4. ASSUME Orderly(t)  PROVE Orderly(Tail(t))
    <2>1. ASSUME NEW i \in 1 .. Len(t) - 1, NEW j \in 1 .. Len(t) - 1, i < j, Together(Tail(t), i, j)
          PROVE  May(Tail(t)[i], Tail(t)[j])
      <3>1. Together(t, i + 1, j + 1)
        BY <1>3, <2>1
      <3>2. i + 1 \in 1 .. Len(t) /\ j + 1 \in 1 .. Len(t) /\ i + 1 < j + 1
        BY <1>1, <2>1
      <3>. QED  BY <1>1, <1>4, <3>1, <3>2 DEF Orderly
    <2>. QED  BY <1>1, <2>1 DEF Orderly
  <1>5. ASSUME NEW ls, Continues(ls, t), Orderly(t), Head(t) # Commit
        PROVE  Continues(ls \union {Head(t)}, Tail(t))
    <2>1. ASSUME NEW l \in ls \union {Head(t)}, NEW i \in 1 .. Len(t) - 1, Together(Tail(t), 1, i)
          PROVE  May(l, Tail(t)[i])
      <3>0. i + 1 \in 1 .. Len(t) /\ 1 \in 1 .. Len(t) /\ 1 < i + 1 /\ Tail(t)[i] = t[i + 1] /\ 1 \in 1 .. Len(t) - 1
        BY <1>1
      <3>1. Together(t, 1, i + 1)
        <4>1. Together(t, 1 + 1, i + 1)
          BY <1>3, <2>1, <3>0
        <4>. QED  BY <1>1, <1>5, <4>1 DEF Together
      <3>. QED  BY <1>1, <1>5, <2>1, <3>0, <3>1 DEF Continues, Orderly
    <2>. QED  BY <1>1, <2>1 DEF Continues
  <1>. QED  BY <1>1, <1>2, <1>4, <1>5

\* The first candidate.
LEMMA CandidateFacts ==
  ASSUME LocksShape, NEW w \in Workers, list[w] # {}
  PROVE  Candidate(w) \in list[w] /\ Candidate(w) \in JobRows
  <1>1. list[w] \subseteq Nat /\ list[w] \subseteq JobRows
    BY LocksAssumption DEF LocksShape
  <1>2. \E j \in list[w] : \A k \in list[w] : j <= k
    BY <1>1, LeastNumber
  <1>. QED  BY <1>1, <1>2 DEF Candidate

LEMMA InitLocks == LocksInit => LocksInv
  <1>. SUFFICES ASSUME LocksInit PROVE LocksInv
    OBVIOUS
  <1>1. LocksShape
    BY DEF LocksInit, LocksShape
  <1>2. Len(<<>>) = 0
    BY EmptySeq
  <1>3. ASSUME NEW a \in Actors  PROVE ActorOK(a)
    BY <1>2 DEF LocksInit, ActorOK, Orderly, Continues
  <1>4. ASSUME NEW w \in Workers  PROVE WorkerOK(w)
    BY DEF LocksInit, WorkerOK
  <1>. QED  BY <1>1, <1>3, <1>4 DEF LocksInv

\* A step of one actor leaves the others as they are.
LEMMA OneActs ==
  ASSUME LocksInv, LocksShape', NEW a \in Actors,
         \A b \in Actors \ {a} : held'[b] = held[b] /\ todo'[b] = todo[b],
         \A w \in Workers \ {a} : pc'[w] = pc[w] /\ list'[w] = list[w],
         ActorOK(a)', a \in Workers => WorkerOK(a)'
  PROVE  LocksInv'
  <1>1. ASSUME NEW b \in Actors, b # a  PROVE ActorOK(b)'
    <2>1. held'[b] = held[b] /\ todo'[b] = todo[b] /\ (b \in Workers => pc'[b] = pc[b]) /\ ActorOK(b)
      BY <1>1 DEF LocksInv
    <2>. QED  BY <2>1 DEF ActorOK, AtList, Scanning
  <1>2. ASSUME NEW w \in Workers, w # a  PROVE WorkerOK(w)'
    BY <1>2 DEF LocksInv, WorkerOK
  <1>. QED  BY <1>1, <1>2 DEF LocksInv

\* What is nothing, or a transaction that nothing is held for, is in order.
LEMMA FreshOK ==
  ASSUME NEW a \in Actors, LocksShape', held'[a] = {}, todo'[a] = <<>> \/ Whole(todo'[a])
  PROVE  ActorOK(a)'
  <1>1. Len(<<>>) = 0
    BY EmptySeq
  <1>. QED  BY <1>1 DEF ActorOK, Orderly, Continues, Whole

LEMMA StartStep == ASSUME LocksInv, NEW r \in Handlers, Start(r) PROVE LocksInv'
  <1>1. PICK t \in Transactions : todo' = [todo EXCEPT ![r] = t]
    BY DEF Start
  <1>2. Whole(t)
    <2>1. \/ \E u \in UserRows : t \in {Reserving(u), Inserting(u), Refunding(u), CreatingKey(u)}
          \/ \E j \in JobRows : t \in {Writing(j), RefundingFirst(j)} \union Completing(j)
      BY DEF Transactions
    <2>2. CASE \E u \in UserRows : t \in {Reserving(u), Inserting(u), Refunding(u), CreatingKey(u)}
      BY <2>2, WholeTransactions
    <2>3. CASE \E j \in JobRows : t \in {Writing(j), RefundingFirst(j)} \union Completing(j)
      BY <2>3, WholeTransactions
    <2>. QED  BY <2>1, <2>2, <2>3
  <1>3. r \in Actors /\ LocksShape /\ UNCHANGED <<held, pc, list>> /\ held[r] = {}
    BY DEF Start, Idle, LocksInv, Actors
  <1>4. LocksShape'
    BY <1>1, <1>2, <1>3 DEF LocksShape, Whole
  <1>5. todo'[r] = t /\ \A b \in Actors \ {r} : todo'[b] = todo[b]
    BY <1>1, <1>3 DEF LocksShape
  <1>6. ActorOK(r)'
    BY <1>2, <1>3, <1>4, <1>5, FreshOK
  <1>7. r \in Workers => WorkerOK(r)'
    BY <1>3 DEF LocksInv, WorkerOK
  <1>. QED  BY <1>3, <1>4, <1>5, <1>6, <1>7, OneActs

LEMMA JobLocksAre == ASSUME NEW js \in SUBSET JobRows PROVE JobLocks(js) \in SUBSET LockSet
  BY AsksWhat DEF JobLocks, Tables

LEMMA SweepStep == ASSUME LocksInv, NEW r \in Handlers, Sweep(r) PROVE LocksInv'
  <1>1. PICK js \in SUBSET JobRows : held' = [held EXCEPT ![r] = JobLocks(js)]
    BY DEF Sweep
  <1>2. /\ r \in Actors /\ LocksShape /\ UNCHANGED <<pc, list>>
        /\ todo' = [todo EXCEPT ![r] = <<Commit>>]
    BY DEF Sweep, LocksInv, Actors
  <1>3. <<Commit>> \in Seq(Statements) /\ Len(<<Commit>>) = 1 /\ <<Commit>>[1] = Commit
    BY DEF Statements
  <1>4. LocksShape'
    BY <1>1, <1>2, <1>3, JobLocksAre DEF LocksShape
  <1>5. /\ todo'[r] = <<Commit>>
        /\ \A b \in Actors \ {r} : todo'[b] = todo[b] /\ held'[b] = held[b]
    BY <1>1, <1>2 DEF LocksShape
  <1>6. EndsInCommit(<<Commit>>) /\ Orderly(<<Commit>>) /\ \A ls : Continues(ls, <<Commit>>)
    BY <1>3 DEF EndsInCommit, Orderly, Continues, Together
  <1>7. ActorOK(r)'
    BY <1>5, <1>6 DEF ActorOK, EndsInCommit
  <1>8. r \in Workers => WorkerOK(r)'
    BY <1>2 DEF LocksInv, WorkerOK
  <1>. QED  BY <1>2, <1>4, <1>5, <1>7, <1>8, OneActs

LEMMA IssueStep == ASSUME LocksInv, NEW a \in Actors, Issue(a) PROVE LocksInv'
  <1>1. PICK t \in Seq(Statements) : t = todo[a]
    BY DEF LocksInv, LocksShape
  <1>2. /\ t # <<>> /\ Head(t) # Commit /\ UNCHANGED <<pc, list>> /\ LocksShape /\ ActorOK(a)
        /\ held' = [held EXCEPT ![a] = @ \union {Head(t)}]
        /\ todo' = [todo EXCEPT ![a] = Tail(t)]
    BY <1>1 DEF Issue, LocksInv
  <1>3. Head(t) \in LockSet /\ Tail(t) \in Seq(Statements)
    BY <1>2, TailFacts DEF Statements
  <1>4. LocksShape'
    BY <1>2, <1>3 DEF LocksShape
  <1>5. /\ held'[a] = held[a] \union {Head(t)} /\ todo'[a] = Tail(t)
        /\ \A b \in Actors \ {a} : todo'[b] = todo[b] /\ held'[b] = held[b]
    BY <1>2 DEF LocksShape
  <1>6. \/ EndsInCommit(t) /\ EndsInCommit(Tail(t))
        \/ a \in Workers /\ pc[a] = "counted" /\ Len(Tail(t)) = 0
    <2>1. EndsInCommit(t) \/ (a \in Workers /\ pc[a] = "counted" /\ Len(t) = 1)
      BY <1>1, <1>2 DEF ActorOK
    <2>. QED  BY <1>2, <2>1, TailFacts
  <1>7. ActorOK(a)'
    <2>1. CASE AtList(a)'
      <3>1. Len(Tail(t)) = 0 => Tail(t) = <<>>
        BY <1>3, NoStatements
      <3>. QED  BY <1>2, <1>5, <1>6, <2>1, <3>1 DEF ActorOK, EndsInCommit
    <2>2. CASE ~AtList(a)'
      <3>1. ~AtList(a) \/ Tail(t) = <<>>
        BY <1>1, <1>2, <1>5, <2>2 DEF AtList, Scanning
      <3>2. EndsInCommit(Tail(t))
        BY <1>2, <1>6, <2>2 DEF AtList, Scanning
      <3>3. Tail(t) # <<>> /\ Orderly(t) /\ Continues(held[a], t)
        BY <1>1, <1>2, <3>1, <3>2 DEF EndsInCommit, ActorOK
      <3>4. Orderly(Tail(t)) /\ Continues(held[a] \union {Head(t)}, Tail(t))
        BY <1>2, <3>3, TailFacts
      <3>. QED  BY <1>5, <3>2, <3>4 DEF ActorOK, EndsInCommit
    <2>. QED  BY <2>1, <2>2
  <1>8. a \in Workers => WorkerOK(a)'
    BY <1>2 DEF LocksInv, WorkerOK
  <1>. QED  BY <1>2, <1>4, <1>5, <1>7, <1>8, OneActs

LEMMA EndStep == ASSUME LocksInv, NEW a \in Actors, End(a) PROVE LocksInv'
  <1>1. PICK t \in Seq(Statements) : t = todo[a]
    BY DEF LocksInv, LocksShape
  <1>2. /\ t # <<>> /\ Head(t) = Commit /\ UNCHANGED <<pc, list>> /\ LocksShape /\ ActorOK(a)
        /\ held' = [held EXCEPT ![a] = {}]
        /\ todo' = [todo EXCEPT ![a] = Tail(t)]
    BY <1>1 DEF End, LocksInv
  <1>3. Tail(t) \in Seq(Statements)
    BY <1>2, TailFacts
  <1>4. LocksShape'
    BY <1>2, <1>3 DEF LocksShape
  <1>5. /\ held'[a] = {} /\ todo'[a] = Tail(t)
        /\ \A b \in Actors \ {a} : todo'[b] = todo[b] /\ held'[b] = held[b]
    BY <1>2 DEF LocksShape
  <1>6. Tail(t) = <<>> \/ EndsInCommit(Tail(t))
    <2>1. EndsInCommit(t) \/ Len(t) = 1
      BY <1>1, <1>2 DEF ActorOK
    <2>2. Len(t) = 1 => Tail(t) = <<>>
      <3>1. Len(t) = 1 => Len(Tail(t)) = 0
        BY <1>2, TailFacts
      <3>. QED  BY <1>3, <3>1, NoStatements
    <2>. QED  BY <1>2, <2>1, <2>2, TailFacts
  <1>7. ActorOK(a)'
    <2>1. ~AtList(a)' => Orderly(Tail(t))
      <3>1. CASE ~AtList(a)
        BY <1>1, <1>2, <3>1, TailFacts DEF ActorOK
      <3>2. CASE AtList(a) /\ ~AtList(a)'
        <4>1. Tail(t) = <<>>
          BY <1>2, <1>5, <3>2 DEF AtList, Scanning
        <4>2. Len(<<>>) = 0
          BY EmptySeq
        <4>3. Orderly(<<>>)
          BY <4>2 DEF Orderly
        <4>. QED  BY <4>1, <4>3
      <3>. QED  BY <3>1, <3>2
    <2>. QED  BY <1>5, <1>6, <2>1 DEF ActorOK, Continues, EndsInCommit
  <1>8. a \in Workers => WorkerOK(a)'
    BY <1>2 DEF LocksInv, WorkerOK
  <1>. QED  BY <1>2, <1>4, <1>5, <1>7, <1>8, OneActs

-----------------------------------------------------------------------------
\* A worker that goes on with its list, or with a job, after its last statement.
LEMMA WorkerMoves ==
  ASSUME LocksInv, NEW w \in Workers, NEW p \in {"idle", "scan", "counted", "run", "result"},
         NEW ls \in SUBSET LockSet, NEW t, NEW js \in SUBSET JobRows,
         held' = [held EXCEPT ![w] = ls], todo' = [todo EXCEPT ![w] = t],
         pc' = [pc EXCEPT ![w] = p], list' = [list EXCEPT ![w] = js],
         \/ t = <<>> \/ Whole(t)
         \/ p = "counted" /\ t \in Seq(Statements) /\ Len(t) = 1,
         ls # {} => p \in {"scan", "counted"} \/ (p = "run" /\ t # <<>>),
         p \in {"counted", "run", "result"} => js # {}
  PROVE  LocksInv'
  <1>1. w \in Actors /\ LocksShape
    BY DEF LocksInv, Actors
  <1>2. Len(<<>>) = 0 /\ <<>> \in Seq(Statements)
    BY EmptySeq
  <1>3. LocksShape'
    BY <1>1, <1>2 DEF LocksShape, Whole
  <1>4. /\ held'[w] = ls /\ todo'[w] = t /\ pc'[w] = p /\ list'[w] = js
        /\ \A b \in Actors \ {w} : todo'[b] = todo[b] /\ held'[b] = held[b]
        /\ \A v \in Workers \ {w} : pc'[v] = pc[v] /\ list'[v] = list[v]
    BY <1>1 DEF LocksShape
  <1>5. ActorOK(w)'
    <2>1. todo'[w] = <<>> \/ EndsInCommit(todo'[w]) \/ (pc'[w] = "counted" /\ Len(todo'[w]) = 1)
      BY <1>4 DEF Whole
    <2>2. held'[w] # {} => AtList(w)'
      BY <1>4 DEF AtList, Scanning
    <2>3. ASSUME ~AtList(w)'  PROVE Orderly(todo'[w]) /\ Continues(held'[w], todo'[w])
      <3>1. todo'[w] = <<>> \/ Orderly(todo'[w])
        BY <1>4, <2>3 DEF Whole, AtList, Scanning
      <3>2. held'[w] = {}
        BY <2>2, <2>3
      <3>. QED  BY <1>2, <3>1, <3>2 DEF Orderly, Continues
    <2>. QED  BY <2>1, <2>2, <2>3 DEF ActorOK, EndsInCommit
  <1>6. WorkerOK(w)'
    BY <1>4 DEF WorkerOK
  <1>. QED  BY <1>1, <1>3, <1>4, <1>5, <1>6, OneActs

\* Where the variables of a worker stand.
LEMMA WorkerIs ==
  ASSUME LocksInv, NEW w \in Workers
  PROVE  /\ w \in Actors /\ held[w] \in SUBSET LockSet /\ list[w] \in SUBSET JobRows
         /\ pc[w] \in {"idle", "scan", "counted", "run", "result"}
         /\ held = [held EXCEPT ![w] = held[w]] /\ todo = [todo EXCEPT ![w] = todo[w]]
         /\ pc = [pc EXCEPT ![w] = pc[w]] /\ list = [list EXCEPT ![w] = list[w]]
         /\ held[w] # {} /\ todo[w] = <<>> => pc[w] \in {"scan", "counted"}
  BY DEF LocksInv, LocksShape, Actors, ActorOK, AtList, Scanning

LEMMA SelectStep == ASSUME LocksInv, NEW w \in Workers, Select(w) PROVE LocksInv'
  <1>1. PICK js \in SUBSET JobRows : held' = [held EXCEPT ![w] = @ \union JobLocks(js)] /\ Left(w, js)
    BY DEF Select
  <1>2. held[w] \union JobLocks(js) \in SUBSET LockSet
    BY WorkerIs, JobLocksAre
  <1>3. /\ held' = [held EXCEPT ![w] = held[w] \union JobLocks(js)] /\ todo' = [todo EXCEPT ![w] = <<>>]
        /\ pc' = [pc EXCEPT ![w] = "scan"] /\ list' = [list EXCEPT ![w] = js]
    BY <1>1, WorkerIs DEF Select, At, Goto, Left
  <1>. QED  BY <1>2, <1>3, WorkerMoves

LEMMA ScanStep ==
  ASSUME LocksInv, NEW w \in Workers, FailCandidate(w) \/ CheckCapacity(w) \/ ReturnNone(w)
  PROVE  LocksInv'
  <1>1. CASE FailCandidate(w)
    <2>0. PICK t : t = Failing(Candidate(w))
      OBVIOUS
    <2>1. PICK js \in SUBSET JobRows : js = list[w] \ {Candidate(w)}
      BY WorkerIs
    <2>2. Whole(t)
      BY <1>1, <2>0, CandidateFacts, WholeTransactions DEF FailCandidate, LocksInv
    <2>3. /\ held' = [held EXCEPT ![w] = held[w]] /\ todo' = [todo EXCEPT ![w] = t]
          /\ pc' = [pc EXCEPT ![w] = "scan"] /\ list' = [list EXCEPT ![w] = js]
      BY <1>1, <2>0, <2>1, WorkerIs DEF FailCandidate, At, Do, Left
    <2>. QED  BY <2>2, <2>3, WorkerIs, WorkerMoves
  <1>2. CASE CheckCapacity(w)
    <2>1. PICK u \in UserRows : u = Owner[Candidate(w)]
      BY <1>2, CandidateFacts, LocksAssumption DEF CheckCapacity, LocksInv
    <2>2. PICK t \in Seq(Statements) : t = <<Lock("users", u)>> /\ Len(t) = 1
      <3>1. PICK x \in Statements : x = Lock("users", u)
        BY AsksWhat DEF Tables, Statements
      <3>2. <<x>> \in Seq(Statements) /\ Len(<<x>>) = 1
        OBVIOUS
      <3>. QED  BY <3>1, <3>2
    <2>3. /\ held' = [held EXCEPT ![w] = held[w]] /\ todo' = [todo EXCEPT ![w] = t]
          /\ pc' = [pc EXCEPT ![w] = "counted"] /\ list' = [list EXCEPT ![w] = list[w]]
          /\ list[w] # {}
      BY <1>2, <2>1, <2>2, WorkerIs DEF CheckCapacity, Do, Goto
    <2>. QED  BY <2>2, <2>3, WorkerIs, WorkerMoves
  <1>3. CASE ReturnNone(w)
    <2>1. /\ held' = [held EXCEPT ![w] = {}] /\ todo' = [todo EXCEPT ![w] = <<>>]
          /\ pc' = [pc EXCEPT ![w] = "idle"] /\ list' = [list EXCEPT ![w] = list[w]]
      BY <1>3, WorkerIs DEF ReturnNone, At, Goto
    <2>. QED  BY <2>1, WorkerIs, WorkerMoves
  <1>. QED  BY <1>1, <1>2, <1>3

LEMMA CountedStep == ASSUME LocksInv, NEW w \in Workers, Pass(w) \/ Claim(w) PROVE LocksInv'
  <1>1. pc[w] = "counted" /\ todo[w] = <<>> /\ list[w] # {}
    BY DEF Pass, Claim, At, LocksInv, WorkerOK
  <1>2. Candidate(w) \in list[w] /\ Candidate(w) \in JobRows
    BY <1>1, CandidateFacts DEF LocksInv
  <1>3. CASE Pass(w)
    <2>1. PICK js \in SUBSET JobRows : js = list[w] \ {Candidate(w)}
      BY WorkerIs
    <2>2. /\ held' = [held EXCEPT ![w] = held[w]] /\ todo' = [todo EXCEPT ![w] = <<>>]
          /\ pc' = [pc EXCEPT ![w] = "scan"] /\ list' = [list EXCEPT ![w] = js]
      BY <1>1, <1>3, <2>1, WorkerIs DEF Pass, Goto, Left
    <2>. QED  BY <2>2, WorkerIs, WorkerMoves
  <1>4. CASE Claim(w)
    <2>1. PICK t : t = Writing(Candidate(w))
      OBVIOUS
    <2>2. Whole(t) /\ t # <<>>
      BY <1>2, <2>1, WholeTransactions DEF Whole, EndsInCommit
    <2>3. PICK js \in SUBSET JobRows : js = {Candidate(w)}
      BY <1>2
    <2>4. /\ held' = [held EXCEPT ![w] = held[w]] /\ todo' = [todo EXCEPT ![w] = t]
          /\ pc' = [pc EXCEPT ![w] = "run"] /\ list' = [list EXCEPT ![w] = js]
      BY <1>4, <2>1, <2>3, WorkerIs DEF Claim, Do, Goto, Left
    <2>. QED  BY <2>2, <2>3, <2>4, WorkerIs, WorkerMoves
  <1>. QED  BY <1>3, <1>4

\* A worker that has nothing to do with its list holds nothing between transactions.
LEMMA RunStep ==
  ASSUME LocksInv, NEW w \in Workers, Fail(w) \/ Complete(w) \/ Completed(w)
  PROVE  LocksInv'
  <1>1. pc[w] \in {"run", "result"} /\ todo[w] = <<>> /\ list[w] # {} /\ held[w] = {}
    BY WorkerIs DEF Fail, Complete, Completed, At, LocksInv, WorkerOK
  <1>2. Candidate(w) \in JobRows
    BY <1>1, CandidateFacts DEF LocksInv
  <1>3. CASE Fail(w)
    <2>1. PICK t \in {Failing(Candidate(w)), <<>>} : Do(w, t)
      BY <1>3 DEF Fail
    <2>2. t = <<>> \/ Whole(t)
      BY <1>2, WholeTransactions
    <2>3. /\ held' = [held EXCEPT ![w] = {}] /\ todo' = [todo EXCEPT ![w] = t]
          /\ pc' = [pc EXCEPT ![w] = "idle"] /\ list' = [list EXCEPT ![w] = {}]
      BY <1>1, <1>3, <2>1, WorkerIs DEF Fail, Do, Goto, Left
    <2>. QED  BY <2>2, <2>3, WorkerMoves
  <1>4. CASE Complete(w)
    <2>1. PICK t \in Completing(Candidate(w)) : Do(w, t)
      BY <1>4 DEF Complete
    <2>2. Whole(t)
      BY <1>2, WholeTransactions
    <2>3. /\ held' = [held EXCEPT ![w] = {}] /\ todo' = [todo EXCEPT ![w] = t]
          /\ pc' = [pc EXCEPT ![w] = "result"] /\ list' = [list EXCEPT ![w] = list[w]]
      BY <1>1, <1>4, <2>1, WorkerIs DEF Complete, Do, Goto
    <2>. QED  BY <1>1, <2>2, <2>3, WorkerIs, WorkerMoves
  <1>5. CASE Completed(w)
    <2>1. /\ held' = [held EXCEPT ![w] = {}] /\ todo' = [todo EXCEPT ![w] = <<>>]
          /\ pc' = [pc EXCEPT ![w] = "idle"] /\ list' = [list EXCEPT ![w] = {}]
      BY <1>1, <1>5, WorkerIs DEF Completed, Goto, Left
    <2>. QED  BY <2>1, WorkerMoves
  <1>. QED  BY <1>3, <1>4, <1>5

LEMMA PersistFailsStep == ASSUME LocksInv, NEW w \in Workers, PersistFails(w) PROVE LocksInv'
  <1>1. pc[w] = "result" /\ list[w] # {}
    BY DEF PersistFails, LocksInv, WorkerOK
  <1>2. Candidate(w) \in JobRows
    BY <1>1, CandidateFacts DEF LocksInv
  <1>3. PICK t : t = Failing(Candidate(w))
    OBVIOUS
  <1>4. Whole(t)
    BY <1>2, <1>3, WholeTransactions
  <1>5. /\ held' = [held EXCEPT ![w] = {}] /\ todo' = [todo EXCEPT ![w] = t]
        /\ pc' = [pc EXCEPT ![w] = "idle"] /\ list' = [list EXCEPT ![w] = {}]
    BY <1>3 DEF PersistFails, Do, Goto, Left
  <1>. QED  BY <1>4, <1>5, WorkerMoves

LEMMA GiveUpStep == ASSUME LocksInv, NEW a \in Actors, GiveUp(a) PROVE LocksInv'
  <1>1. LocksShape /\ <<>> \in Seq(Statements)
    BY EmptySeq DEF LocksInv
  <1>2. LocksShape'
    BY <1>1 DEF GiveUp, LocksShape
  <1>3. /\ held'[a] = {} /\ todo'[a] = <<>>
        /\ \A b \in Actors \ {a} : todo'[b] = todo[b] /\ held'[b] = held[b]
        /\ \A w \in Workers \ {a} : pc'[w] = pc[w] /\ list'[w] = list[w]
        /\ a \in Workers => pc'[a] = "idle"
    BY <1>1 DEF GiveUp, LocksShape
  <1>4. ActorOK(a)' /\ (a \in Workers => WorkerOK(a)')
    BY <1>2, <1>3, FreshOK DEF WorkerOK
  <1>. QED  BY <1>2, <1>3, <1>4, OneActs

LEMMA StepLocks == ASSUME LocksInv, [LocksNext]_lockVars PROVE LocksInv'
  <1>1. ASSUME NEW a \in Actors, Progress(a)  PROVE LocksInv'
    BY <1>1, IssueStep, EndStep, ScanStep, CountedStep, RunStep DEF Progress, WorkerStep
  <1>2. ASSUME NEW a \in Actors, Victim(a)  PROVE LocksInv'
    BY <1>2, PersistFailsStep, GiveUpStep DEF Victim
  <1>3. ASSUME UNCHANGED lockVars  PROVE LocksInv'
    BY <1>3 DEF lockVars, LocksInv, LocksShape, ActorOK, AtList, Scanning, WorkerOK
  <1>. QED  BY <1>1, <1>2, <1>3, StartStep, SweepStep, SelectStep, PersistFailsStep DEF LocksNext

\* The invariant is one of every behaviour.
LEMMA LocksInvariant == LocksSpec => []LocksInv
  <1>1. LocksInit => LocksInv
    BY InitLocks
  <1>2. LocksInv /\ [LocksNext]_lockVars => LocksInv'
    BY StepLocks
  <1>. QED  BY <1>1, <1>2, PTL DEF LocksSpec

-----------------------------------------------------------------------------
\* Every way through a transaction, and through the candidate list of
\* claim_next_job, ends with the locks given back: no path leaves a session open
\* with a row locked.
THEOREM LocksAreReleased == LocksSpec => []NoLockIsLeftBehind
  <1>1. LocksInv => NoLockIsLeftBehind
    BY DEF LocksInv, ActorOK, AtList, NoLockIsLeftBehind
  <1>. QED  BY <1>1, LocksInvariant, PTL

\* How late in the order the next statement of an actor comes.
Rank(a) == CASE Asks(Head(todo[a])) = "users" -> 0
             [] Asks(Head(todo[a])) = "monthly_usage" -> 1
             [] Asks(Head(todo[a])) = "simulations" -> 2
             [] OTHER -> 3

\* Who is in the way of another one, and waits himself, comes later in the order,
\* unless it is a worker at its list.
LEMMA BlockersComeLater ==
  ASSUME LocksInv, NEW a \in Actors, NEW b \in Blockers(a), Blockers(b) # {}, ~AtList(b)
  PROVE  b \in Actors /\ Rank(a) < Rank(b)
  <1>1. PICK l \in held[b] : l.row = Head(todo[a]).row /\ ~(l.shared /\ Head(todo[a]).shared)
    BY DEF Blockers
  <1>2. b \in Actors /\ todo[b] # <<>> /\ l \in LockSet
    BY DEF Blockers, LocksInv, LocksShape
  <1>3. PICK k \in LockSet : k.row = Head(todo[b]).row
    BY <1>2 DEF Blockers, LocksInv, LocksShape
  <1>4. PICK t \in Seq(Statements) : t = todo[b]
    BY <1>2 DEF LocksInv, LocksShape
  <1>5. Head(t) # Commit
    <2>1. k.row[1] \in Tables
      BY <1>3 DEF LockSet
    <2>2. Commit.row[1] = "commit"
      BY DEF Commit
    <2>. QED  BY <1>3, <1>4, <2>1, <2>2 DEF Tables
  <1>6. Head(t) = t[1] /\ Head(t) \in Statements /\ 1 \in 1 .. Len(t)
    BY <1>2, <1>4, TailFacts
  <1>7. May(l, Head(t))
    <2>1. Continues(held[b], t)
      BY <1>2, <1>4 DEF LocksInv, ActorOK
    <2>. QED  BY <1>5, <1>6, <2>1 DEF Continues, Together
  <1>8. Asks(Head(t)) \in {"simulations", "key"} /\ Asks(l) # "users"
    BY <1>5, <1>6, <1>7, AsksWhat DEF Statements, May, Tables
  <1>9. PICK h : h = Head(todo[a])
    OBVIOUS
  <1>10. \/ Asks(h) \in {"users", "monthly_usage"}
         \/ Asks(h) = "simulations" /\ Asks(l) = "simulations"
    <2>1. l.row[1] = h.row[1] /\ l.row[1] \in Tables
      BY <1>1, <1>2, <1>9 DEF LockSet
    <2>. QED  BY <1>1, <1>8, <1>9, <2>1 DEF Asks, Tables
  <1>11. Asks(h) = "simulations" => Asks(Head(t)) = "key"
    BY <1>7, <1>8, <1>10 DEF May
  <1>. QED  BY <1>2, <1>4, <1>8, <1>9, <1>10, <1>11 DEF Rank

\* PostgreSQL never has to break a circle of submissions, refunds, deletions, results,
\* key creations and cleanups: in every one there is a worker at its candidate list.
THEOREM OnlyListsDeadlock == LocksSpec => []OnlyScansDeadlock
  <1>1. ASSUME LocksInv  PROVE OnlyScansDeadlock
    <2>. SUFFICES ASSUME NEW as \in SUBSET Actors, Deadlocked(as),
                         \A w \in as \intersect Workers : ~Scanning(w)
                  PROVE  FALSE
      BY DEF OnlyScansDeadlock
    <2>1. \A a \in as : Rank(a) \in 0 .. 3
      BY DEF Rank
    <2>2. ASSUME NEW a \in as  PROVE \E b \in as : Rank(a) < Rank(b)
      <3>1. PICK b \in as : b \in Blockers(a)
        BY DEF Deadlocked
      <3>2. Blockers(b) # {} /\ ~AtList(b)
        BY DEF Deadlocked, AtList
      <3>. QED  BY <1>1, <3>1, <3>2, BlockersComeLater
    <2>3. PICK a \in as : TRUE
      BY DEF Deadlocked
    <2>4. PICK b \in as : Rank(a) < Rank(b)
      BY <2>2
    <2>5. PICK c \in as : Rank(b) < Rank(c)
      BY <2>2
    <2>6. PICK d \in as : Rank(c) < Rank(d)
      BY <2>2
    <2>7. PICK e \in as : Rank(d) < Rank(e)
      BY <2>2
    <2>8. PICK i, j, k, l, m \in 0 .. 3 :
            i = Rank(a) /\ j = Rank(b) /\ k = Rank(c) /\ l = Rank(d) /\ m = Rank(e)
      BY <2>1
    <2>9. i < j /\ j < k /\ k < l /\ l < m
      BY <2>4, <2>5, <2>6, <2>7, <2>8
    <2>. QED  BY <2>9
  <1>2. LocksInv => OnlyScansDeadlock
    BY <1>1
  <1>. QED  BY <1>2, LocksInvariant, PTL

-----------------------------------------------------------------------------
(***************************************************************************)
(* Proofs about RateLimiter, for any limit, window and number of users, and *)
(* however the clock is set back.  Filtering a sequence is a recursion, so  *)
(* the lemmas about it are inductions, in the form of Induction_proofs.     *)
(***************************************************************************)

Times == Seq(Int)

\* How many are later than t.
Count(timestamps, t) == Len(After(timestamps, t))

-----------------------------------------------------------------------------
(* The timestamps later than t.                                            *)

\* What holds of <<>> and survives Append holds of every sequence.
LEMMA SequenceInduction ==
    ASSUME NEW G, <<>> \in G,
           \A s \in Times : \A x \in Int : s \in G => Append(s, x) \in G
    PROVE  Times \subseteq G
<1> DEFINE Good == {n \in Nat : \A s \in Times : Len(s) = n => s \in G}
<1>1. 0 \in Good
  <2>1. \A s \in Times : Len(s) = 0 => s = <<>>
    BY EmptySeq DEF Times
  <2>2. QED
    BY <2>1
<1>2. ASSUME NEW n \in Nat, n \in Good  PROVE n + 1 \in Good
  <2>1. ASSUME NEW s \in Times, Len(s) = n + 1  PROVE s \in G
    <3>1. s # <<>>
      BY <2>1, EmptySeq DEF Times
    <3>2. PICK t \in Times, x \in Int : s = Append(t, x)
      BY <3>1, SequenceEmptyOrAppend DEF Times
    <3>3. Len(s) = Len(t) + 1 /\ Len(t) \in Nat
      BY <3>2, AppendProperties, LenProperties DEF Times
    <3>4. t \in G
      BY <1>2, <2>1, <3>3
    <3>5. QED
      BY <3>2, <3>4
  <2>2. QED
    BY <2>1
<1>3. Nat \subseteq Good
  <2> HIDE DEF Good
  <2>1. QED
    BY <1>1, <1>2, NumberInduction
<1>4. \A s \in Times : Len(s) \in Nat
  BY LenProperties DEF Times
<1>5. QED
  BY <1>3, <1>4

\* g[i] has those later than c of the first i, for i up to n.
Filters(g, s, c, n) ==
    g = [i \in 0 .. n |-> IF i = 0 THEN <<>>
                          ELSE IF s[i] > c THEN Append(g[i - 1], s[i]) ELSE g[i - 1]]

LEMMA FiltersExist ==
    ASSUME NEW s, NEW c, NEW n \in Nat
    PROVE  \E g : Filters(g, s, c, n)
<1> DEFINE Good == {m \in Nat : \E g : Filters(g, s, c, m)}
<1>1. 0 \in Good
  <2>1. Filters([i \in 0 .. 0 |-> <<>>], s, c, 0)
    BY DEF Filters
  <2>2. QED
    BY <2>1
<1>2. ASSUME NEW m \in Nat, m \in Good  PROVE m + 1 \in Good
  <2>1. PICK g : Filters(g, s, c, m)
    BY <1>2
  <2> DEFINE next == IF s[m + 1] > c THEN Append(g[m], s[m + 1]) ELSE g[m]
             h == [i \in 0 .. (m + 1) |-> IF i = m + 1 THEN next ELSE g[i]]
  <2>2. \A i \in 0 .. m : g[i] = IF i = 0 THEN <<>>
                                 ELSE IF s[i] > c THEN Append(g[i - 1], s[i]) ELSE g[i - 1]
    BY <2>1 DEF Filters
  <2>3. \A i \in 0 .. (m + 1) : h[i] = IF i = 0 THEN <<>>
                                 ELSE IF s[i] > c THEN Append(h[i - 1], s[i]) ELSE h[i - 1]
    BY <2>2
  <2>4. Filters(h, s, c, m + 1)
    BY <2>3 DEF Filters
  <2>5. QED
    BY <2>4
<1>3. Nat \subseteq Good
  <2> HIDE DEF Good
  <2>1. QED
    BY <1>1, <1>2, NumberInduction
<1>4. QED
  BY <1>3

LEMMA FiltersAgree ==
    ASSUME NEW s, NEW t, NEW c, NEW n \in Nat, NEW m \in Nat, n <= m, NEW g, NEW h,
           Filters(g, s, c, n), Filters(h, t, c, m), \A i \in 1 .. n : s[i] = t[i]
    PROVE  g[n] = h[n]
<1> DEFINE Good == {i \in Nat : i <= n => g[i] = h[i]}
<1>1. /\ \A i \in 0 .. n : g[i] = IF i = 0 THEN <<>>
                                 ELSE IF s[i] > c THEN Append(g[i - 1], s[i]) ELSE g[i - 1]
      /\ \A i \in 0 .. m : h[i] = IF i = 0 THEN <<>>
                                 ELSE IF t[i] > c THEN Append(h[i - 1], t[i]) ELSE h[i - 1]
  BY DEF Filters
<1>2. 0 \in Good
  <2>1. 0 \in 0 .. n /\ 0 \in 0 .. m
    OBVIOUS
  <2>2. g[0] = <<>> /\ h[0] = <<>>
    BY <1>1, <2>1
  <2>3. QED
    BY <2>2
<1>3. ASSUME NEW i \in Nat, i \in Good  PROVE i + 1 \in Good
  <2> SUFFICES ASSUME i + 1 <= n PROVE g[i + 1] = h[i + 1]
    OBVIOUS
  <2>1. /\ i + 1 \in 0 .. n /\ i + 1 \in 0 .. m /\ i + 1 # 0 /\ (i + 1) - 1 = i
        /\ i + 1 \in 1 .. n
    OBVIOUS
  <2>2. g[i] = h[i]
    BY <1>3
  <2>3. QED
    BY <1>1, <2>1, <2>2
<1>4. Nat \subseteq Good
  <2> HIDE DEF Good
  <2>1. QED
    BY <1>2, <1>3, NumberInduction
<1>5. QED
  BY <1>4

LEMMA AfterIs ==
    ASSUME NEW s \in Times, NEW c
    PROVE  \E g : Filters(g, s, c, Len(s)) /\ After(s, c) = g[Len(s)]
<1>1. \E g : Filters(g, s, c, Len(s))
  BY FiltersExist, LenProperties DEF Times
<1>2. After(s, c) = (CHOOSE g : Filters(g, s, c, Len(s)))[Len(s)]
  BY DEF After, Filters
<1>3. QED
  BY <1>1, <1>2

LEMMA AfterEmpty == ASSUME NEW c PROVE After(<<>>, c) = <<>>
<1>1. <<>> \in Times /\ Len(<<>>) = 0
  BY EmptySeq DEF Times
<1>2. PICK g : Filters(g, <<>>, c, 0) /\ After(<<>>, c) = g[0]
  BY <1>1, AfterIs
<1>3. QED
  BY <1>2 DEF Filters

LEMMA AfterAppend ==
    ASSUME NEW s \in Times, NEW x \in Int, NEW c
    PROVE  After(Append(s, x), c) = IF x > c THEN Append(After(s, c), x) ELSE After(s, c)
<1> DEFINE t == Append(s, x)
<1>1. t \in Times /\ Len(t) = Len(s) + 1 /\ Len(s) \in Nat
      /\ t[Len(s) + 1] = x /\ \A i \in 1 .. Len(s) : s[i] = t[i]
  BY AppendProperties, LenProperties DEF Times
<1> HIDE DEF t
<1>2. PICK n \in Nat : n = Len(s)
  BY <1>1
<1>3. PICK g : Filters(g, s, c, n) /\ After(s, c) = g[n]
  BY <1>2, AfterIs
<1>4. PICK h : Filters(h, t, c, n + 1) /\ After(t, c) = h[n + 1]
  BY <1>1, <1>2, AfterIs
<1>5. g[n] = h[n]
  BY <1>1, <1>2, <1>3, <1>4, FiltersAgree
<1>6. h[n + 1] = IF t[n + 1] > c THEN Append(h[n], t[n + 1]) ELSE h[n]
  <2>1. n + 1 \in 0 .. (n + 1) /\ n + 1 # 0 /\ (n + 1) - 1 = n
    OBVIOUS
  <2>2. QED
    BY <1>4, <2>1 DEF Filters
<1>7. QED
  BY <1>1, <1>2, <1>3, <1>4, <1>5, <1>6 DEF t

LEMMA AfterType ==
    ASSUME NEW c \in Int
    PROVE  \A s \in Times : After(s, c) \in Times /\ Count(s, c) \in Nat /\ Count(s, c) <= Len(s)
<1> DEFINE Good == {s \in Times : After(s, c) \in Times /\ Count(s, c) <= Len(s)}
<1>1. <<>> \in Good
  <2>1. <<>> \in Times /\ Len(<<>>) = 0
    BY EmptySeq DEF Times
  <2>2. QED
    BY <2>1, AfterEmpty DEF Count
<1>2. ASSUME NEW s \in Times, NEW x \in Int, s \in Good  PROVE Append(s, x) \in Good
  <2>1. /\ Append(s, x) \in Times /\ Len(Append(s, x)) = Len(s) + 1
        /\ Append(After(s, c), x) \in Times
        /\ Len(Append(After(s, c), x)) = Len(After(s, c)) + 1
        /\ Len(s) \in Nat /\ Len(After(s, c)) \in Nat
    BY <1>2, AppendProperties, LenProperties DEF Times
  <2>2. Len(After(s, c)) <= Len(s)
    BY <1>2 DEF Count
  <2>3. After(Append(s, x), c) \in {Append(After(s, c), x), After(s, c)}
    BY AfterAppend
  <2>4. PICK n, m \in Nat : n = Len(s) /\ m = Len(After(s, c))
    BY <2>1
  <2>5. PICK t : t = After(Append(s, x), c)
    OBVIOUS
  <2>6. t \in Times /\ (Len(t) = m + 1 \/ Len(t) = m)
    BY <1>2, <2>1, <2>3, <2>4, <2>5
  <2>7. Len(t) <= n + 1
    BY <2>2, <2>4, <2>6
  <2>8. QED
    BY <2>1, <2>4, <2>5, <2>6, <2>7 DEF Count
<1>3. Times \subseteq Good
  <2> HIDE DEF Good
  <2>1. QED
    BY <1>1, <1>2, SequenceInduction
<1>4. \A s \in Times : Len(s) \in Nat
  BY LenProperties DEF Times
<1>5. QED
  BY <1>3, <1>4 DEF Count

\* Taking the later ones of the later ones.
LEMMA AfterAfter ==
    ASSUME NEW c \in Int, NEW d \in Int
    PROVE  \A s \in Times : After(After(s, d), c) = After(s, IF c >= d THEN c ELSE d)
<1> DEFINE e == IF c >= d THEN c ELSE d
           Good == {s \in Times : After(After(s, d), c) = After(s, e)}
<1>1. <<>> \in Good
  BY AfterEmpty, EmptySeq DEF Times
<1>2. ASSUME NEW s \in Times, NEW x \in Int, s \in Good  PROVE Append(s, x) \in Good
  <2>1. Append(s, x) \in Times /\ After(s, d) \in Times /\ e \in Int
    BY AppendProperties, AfterType DEF Times
  <2>2. CASE x > e
    <3>1. x > c /\ x > d
      BY <2>2
    <3>2. After(Append(s, x), d) = Append(After(s, d), x)
      BY <3>1, AfterAppend
    <3>3. After(Append(After(s, d), x), c) = Append(After(After(s, d), c), x)
      BY <2>1, <3>1, AfterAppend
    <3>4. After(Append(s, x), e) = Append(After(s, e), x)
      BY <2>1, <2>2, AfterAppend
    <3>5. QED
      BY <1>2, <2>1, <3>2, <3>3, <3>4
  <2>3. CASE ~(x > e)
    <3>1. After(Append(s, x), e) = After(s, e)
      BY <2>1, <2>3, AfterAppend
    <3>2. CASE x > d
      <4>1. ~(x > c)
        BY <2>3, <3>2
      <4>2. After(Append(s, x), d) = Append(After(s, d), x)
        BY <3>2, AfterAppend
      <4>3. After(Append(After(s, d), x), c) = After(After(s, d), c)
        BY <2>1, <4>1, AfterAppend
      <4>4. QED
        BY <1>2, <2>1, <3>1, <4>2, <4>3
    <3>3. CASE ~(x > d)
      <4>1. After(Append(s, x), d) = After(s, d)
        BY <3>3, AfterAppend
      <4>2. QED
        BY <1>2, <2>1, <3>1, <4>1
    <3>4. QED
      BY <3>2, <3>3
  <2>4. QED
    BY <2>2, <2>3
<1>3. Times \subseteq Good
  <2> HIDE DEF Good
  <2>1. QED
    BY <1>1, <1>2, SequenceInduction
<1>4. QED
  BY <1>3

LEMMA CountAppend ==
    ASSUME NEW s \in Times, NEW x \in Int, NEW c \in Int
    PROVE  Count(Append(s, x), c) = IF x > c THEN Count(s, c) + 1 ELSE Count(s, c)
<1>1. After(s, c) \in Times
  BY AfterType
<1>2. Len(Append(After(s, c), x)) = Len(After(s, c)) + 1
  BY <1>1, AppendProperties DEF Times
<1>3. QED
  BY <1>2, AfterAppend DEF Count

\* Fewer are later than a later time, and fewer of what is left.
LEMMA CountFalls ==
    ASSUME NEW s \in Times, NEW c \in Int, NEW d \in Int
    PROVE  /\ c <= d => Count(s, d) <= Count(s, c)
           /\ Count(After(s, d), c) <= Count(s, c)
           /\ d <= c => Count(After(s, d), c) = Count(s, c)
<1>1. ASSUME c <= d  PROVE Count(s, d) <= Count(s, c)
  <2>1. After(After(s, c), d) = After(s, d)
    BY <1>1, AfterAfter
  <2>2. Count(After(s, c), d) <= Len(After(s, c))
    BY AfterType
  <2>3. QED
    BY <2>1, <2>2 DEF Count
<1>2. Count(After(s, d), c) <= Count(s, c)
  <2>1. CASE c >= d
    <3>1. Count(After(s, d), c) = Count(s, c)
      BY <2>1, AfterAfter DEF Count
    <3>2. QED
      BY <3>1, AfterType
  <2>2. CASE ~(c >= d)
    <3>1. Count(After(s, d), c) = Count(s, d)
      BY <2>2, AfterAfter DEF Count
    <3>2. QED
      BY <3>1, <2>2, <1>1
  <2>3. QED
    BY <2>1, <2>2
<1>3. d <= c => Count(After(s, d), c) = Count(s, c)
  BY AfterAfter DEF Count
<1>4. QED
  BY <1>1, <1>2, <1>3

Elements(s) == {s[k] : k \in 1 .. Len(s)}

LEMMA ElementsAppend ==
    ASSUME NEW s \in Times, NEW x \in Int
    PROVE  Elements(Append(s, x)) = Elements(s) \union {x}
<1> DEFINE t == Append(s, x)
<1>1. /\ Len(t) = Len(s) + 1 /\ Len(s) \in Nat
      /\ t[Len(s) + 1] = x /\ \A i \in 1 .. Len(s) : t[i] = s[i]
  BY AppendProperties, LenProperties DEF Times
<1> HIDE DEF t
<1>2. PICK n \in Nat : n = Len(s)
  BY <1>1
<1>3. Elements(t) = {t[k] : k \in 1 .. (n + 1)} /\ Elements(s) = {s[k] : k \in 1 .. n}
  BY <1>1, <1>2 DEF Elements
<1>4. \A k : k \in 1 .. (n + 1) <=> k \in 1 .. n \/ k = n + 1
  OBVIOUS
<1>5. \A k \in 1 .. n : t[k] = s[k]
  BY <1>1, <1>2
<1>6. t[n + 1] = x
  BY <1>1, <1>2
<1>7. QED
  BY <1>3, <1>4, <1>5, <1>6 DEF t

LEMMA ElementsEmpty == Elements(<<>>) = {}
<1>1. Len(<<>>) = 0
  BY EmptySeq
<1>2. QED
  BY <1>1 DEF Elements

LEMMA ElementsAfter ==
    ASSUME NEW c \in Int
    PROVE  \A s \in Times : Elements(After(s, c)) = {x \in Elements(s) : x > c}
<1> DEFINE Good == {s \in Times : Elements(After(s, c)) = {x \in Elements(s) : x > c}}
<1>1. <<>> \in Good
  BY AfterEmpty, ElementsEmpty, EmptySeq DEF Times
<1>2. ASSUME NEW s \in Times, NEW x \in Int, s \in Good  PROVE Append(s, x) \in Good
  <2>1. Append(s, x) \in Times /\ After(s, c) \in Times
    BY AppendProperties, AfterType DEF Times
  <2>2. Elements(After(Append(s, x), c))
          = IF x > c THEN Elements(After(s, c)) \union {x} ELSE Elements(After(s, c))
    BY <2>1, AfterAppend, ElementsAppend
  <2>3. Elements(Append(s, x)) = Elements(s) \union {x}
    BY ElementsAppend
  <2>4. QED
    BY <1>2, <2>1, <2>2, <2>3
<1>3. Times \subseteq Good
  <2> HIDE DEF Good
  <2>1. QED
    BY <1>1, <1>2, SequenceInduction
<1>4. QED
  BY <1>3

LEMMA ElementsAreTimes ==
    \A s \in Times : /\ Elements(s) \subseteq Int
                     /\ Elements(s) = {} <=> s = <<>>
                     /\ s # <<>> => s[Len(s)] \in Elements(s) /\ Head(s) \in Elements(s)
<1> SUFFICES ASSUME NEW s \in Times
             PROVE  /\ Elements(s) \subseteq Int
                    /\ Elements(s) = {} <=> s = <<>>
                    /\ s # <<>> => s[Len(s)] \in Elements(s) /\ Head(s) \in Elements(s)
  OBVIOUS
<1>1. Len(s) \in Nat /\ \A k \in 1 .. Len(s) : s[k] \in Int
  BY LenProperties, ElementOfSeq DEF Times
<1>2. s # <<>> => Len(s) \in 1 .. Len(s) /\ 1 \in 1 .. Len(s) /\ Head(s) = s[1]
  BY <1>1, EmptySeq, HeadTailProperties DEF Times
<1>3. QED
  BY <1>1, <1>2, ElementsEmpty DEF Elements

\* The last one stays if it is late enough.
LEMMA LastStays ==
    ASSUME NEW s \in Times, s # <<>>, NEW c \in Int, s[Len(s)] > c
    PROVE  After(s, c) # <<>> /\ After(s, c)[Len(After(s, c))] = s[Len(s)]
<1>1. PICK t \in Times, x \in Int : s = Append(t, x)
  BY SequenceEmptyOrAppend DEF Times
<1>2. s[Len(s)] = x
  BY <1>1, AppendProperties DEF Times
<1>3. After(s, c) = Append(After(t, c), x)
  BY <1>1, <1>2, AfterAppend
<1>4. After(t, c) \in Times
  BY AfterType
<1>5. QED
  BY <1>2, <1>3, <1>4, AppendProperties DEF Times

\* One that is not late enough is not counted.
LEMMA CountMisses ==
    ASSUME NEW c \in Int
    PROVE  \A s \in Times : (\E x \in Elements(s) : x <= c) => Count(s, c) < Len(s)
<1> DEFINE Good == {s \in Times : (\E x \in Elements(s) : x <= c) => Count(s, c) < Len(s)}
<1>1. <<>> \in Good
  BY ElementsEmpty, EmptySeq DEF Times
<1>2. ASSUME NEW s \in Times, NEW x \in Int, s \in Good  PROVE Append(s, x) \in Good
  <2>1. /\ Append(s, x) \in Times /\ Len(Append(s, x)) = Len(s) + 1 /\ Len(s) \in Nat
        /\ Count(s, c) \in Nat /\ Count(s, c) <= Len(s)
    BY AppendProperties, LenProperties, AfterType DEF Times
  <2>2. Elements(Append(s, x)) = Elements(s) \union {x}
    BY ElementsAppend
  <2>3. Count(Append(s, x), c) = IF x > c THEN Count(s, c) + 1 ELSE Count(s, c)
    BY CountAppend
  <2>4. CASE x > c
    BY <1>2, <2>1, <2>2, <2>3, <2>4
  <2>5. CASE ~(x > c)
    BY <2>1, <2>3, <2>5
  <2>6. QED
    BY <2>4, <2>5
<1>3. Times \subseteq Good
  <2> HIDE DEF Good
  <2>1. QED
    BY <1>1, <1>2, SequenceInduction
<1>4. QED
  BY <1>3

-----------------------------------------------------------------------------
(* The inductive invariant, for the timestamps r of a user, the admissions *)
(* a, the end b of the last refusal, the clock t and the time e.  A         *)
(* timestamp is as old by the clock as its admission, or younger, since the *)
(* clock is only set back.                                                  *)

\* Of the admissions in the window, none is without its timestamp.
Kept(r, a, t, e) ==
    \A c \in Int : c >= t - Window => Count(a, c + (e - t)) <= Count(r, c)

\* The last timestamp is of the last admission: the sweep decides by it.
LatestIsLast(r, a, t, e) ==
    \A x \in Elements(a) :
        /\ x <= e
        /\ x > e - Window => r # <<>> /\ r[Len(r)] + (e - t) >= x

\* A timestamp is no later than some admission, or too old for any clock.
Traced(r, a, e) ==
    \A x \in Elements(r) : \/ x <= e - (Window + MaxBack)
                           \/ \E y \in Elements(a) : x <= y

UserOK(r, a, b, t, e) ==
    /\ r \in Times /\ a \in Times /\ b \in Int
    /\ Len(r) <= Limit
    /\ Count(a, e - Window) <= Limit
    /\ b # 0 => Count(r, b - Window) < Limit
    /\ Kept(r, a, t, e) /\ LatestIsLast(r, a, t, e) /\ Traced(r, a, e)

Clocks(t, e) == t \in Int /\ e \in Int /\ 0 <= e - t /\ e - t <= MaxBack

LimiterInv ==
    /\ Clocks(now, elapsed)
    /\ records = [u \in Users |-> records[u]]
    /\ admitted = [u \in Users |-> admitted[u]]
    /\ retryAt = [u \in Users |-> retryAt[u]]
    /\ \A u \in Users : UserOK(records[u], admitted[u], retryAt[u], now, elapsed)

LEMMA WindowIsInt == Window \in Int /\ Window > 0
<1>1. \A m, n \in Nat \ {0} : m * n \in Int /\ m * n > 0
  OBVIOUS
<1>2. QED
  BY <1>1, ParametersAssumption DEF Window

-----------------------------------------------------------------------------
(* What happens to the timestamps of one user.                             *)

LEMMA Filtered ==
    ASSUME NEW r, NEW a, NEW b, NEW t, NEW e, Clocks(t, e), UserOK(r, a, b, t, e)
    PROVE  UserOK(After(r, t - Window), a, b, t, e)
<1> DEFINE c0 == t - Window
           f  == After(r, c0)
<1>1. c0 \in Int /\ r \in Times /\ a \in Times /\ f \in Times /\ Len(f) <= Len(r)
      /\ Len(f) \in Nat /\ Len(r) \in Nat
  BY WindowIsInt, AfterType, LenProperties DEF Clocks, UserOK, Count, Times
<1>2. Len(f) <= Limit
  BY <1>1, ParametersAssumption DEF UserOK
<1>3. b # 0 => Count(f, b - Window) < Limit
  <2> SUFFICES ASSUME b # 0 PROVE Count(f, b - Window) < Limit
    OBVIOUS
  <2>1. b - Window \in Int /\ Count(r, b - Window) < Limit
    BY WindowIsInt DEF UserOK
  <2>2. Count(f, b - Window) <= Count(r, b - Window)
    BY <1>1, <2>1, CountFalls
  <2>3. Count(f, b - Window) \in Nat /\ Count(r, b - Window) \in Nat
    BY <1>1, <2>1, AfterType
  <2>4. QED
    BY <2>1, <2>2, <2>3, ParametersAssumption
<1>4. Kept(f, a, t, e)
  BY <1>1, CountFalls DEF UserOK, Kept
<1>5. LatestIsLast(f, a, t, e)
  <2> SUFFICES ASSUME NEW x \in Elements(a), x > e - Window
               PROVE  f # <<>> /\ f[Len(f)] + (e - t) >= x
    BY DEF UserOK, LatestIsLast
  <2>1. r # <<>> /\ r[Len(r)] + (e - t) >= x
    BY DEF UserOK, LatestIsLast
  <2>2. r[Len(r)] \in Int /\ x \in Int
    BY <1>1, <2>1, ElementsAreTimes
  <2>3. r[Len(r)] > c0
    BY <2>1, <2>2, WindowIsInt DEF Clocks
  <2>4. QED
    BY <1>1, <2>1, <2>3, LastStays
<1>6. Traced(f, a, e)
  BY <1>1, ElementsAfter DEF UserOK, Traced
<1>7. QED
  BY <1>1, <1>2, <1>3, <1>4, <1>5, <1>6 DEF UserOK

\* The key of a user is swept.
LEMMA Forgotten ==
    ASSUME NEW r, NEW a, NEW b, NEW t, NEW e, Clocks(t, e), UserOK(r, a, b, t, e),
           r = <<>> \/ r[Len(r)] <= t - Window
    PROVE  UserOK(<<>>, a, b, t, e)
<1>1. <<>> \in Times /\ Len(<<>>) = 0 /\ \A c : Count(<<>>, c) = 0
  BY EmptySeq, AfterEmpty DEF Times, Count
<1>2. r \in Times /\ a \in Times /\ Elements(a) \subseteq Int
  BY ElementsAreTimes DEF UserOK
<1>3. ASSUME NEW x \in Elements(a)  PROVE ~(x > e - Window)
  <2> SUFFICES ASSUME x > e - Window PROVE FALSE
    OBVIOUS
  <2>1. r # <<>> /\ r[Len(r)] + (e - t) >= x
    BY DEF UserOK, LatestIsLast
  <2>2. r[Len(r)] \in Int /\ x \in Int
    BY <1>2, <2>1, ElementsAreTimes
  <2>3. QED
    BY <2>1, <2>2, WindowIsInt DEF Clocks
<1>4. Kept(<<>>, a, t, e)
  <2> SUFFICES ASSUME NEW c \in Int, c >= t - Window
               PROVE  Count(a, c + (e - t)) <= 0
    BY <1>1 DEF Kept
  <2>1. c + (e - t) \in Int /\ c + (e - t) >= e - Window
    BY WindowIsInt DEF Clocks
  <2>2. Elements(After(a, c + (e - t))) = {}
    <3>1. \A x \in Elements(a) : ~(x > c + (e - t))
      BY <1>2, <1>3, <2>1, WindowIsInt DEF Clocks
    <3>2. QED
      BY <1>2, <2>1, <3>1, ElementsAfter
  <2>3. After(a, c + (e - t)) = <<>>
    BY <1>2, <2>1, <2>2, AfterType, ElementsAreTimes
  <2>4. QED
    BY <1>1, <2>3 DEF Count
<1>5. LatestIsLast(<<>>, a, t, e)
  BY <1>3 DEF UserOK, LatestIsLast
<1>6. Traced(<<>>, a, e)
  BY ElementsEmpty DEF Traced
<1>7. QED
  BY <1>1, <1>4, <1>5, <1>6, ParametersAssumption DEF UserOK

\* Another admission: there is room in the window of the clock, hence in that of
\* the time.
LEMMA Admitted ==
    ASSUME NEW r, NEW a, NEW b, NEW t, NEW e, Clocks(t, e), UserOK(r, a, b, t, e),
           Len(r) < Limit
    PROVE  UserOK(Append(r, t), Append(a, e), 0, t, e)
<1> DEFINE s == Append(r, t)
           k == Append(a, e)
<1>1. t \in Int /\ e \in Int /\ r \in Times /\ a \in Times
  BY DEF Clocks, UserOK
<1>2. /\ s \in Times /\ k \in Times /\ Len(s) = Len(r) + 1 /\ Len(r) \in Nat
      /\ s # <<>> /\ s[Len(s)] = t
  BY <1>1, AppendProperties, LenProperties DEF Times
<1>3. \A c \in Int : /\ Count(s, c) = IF t > c THEN Count(r, c) + 1 ELSE Count(r, c)
                     /\ Count(k, c) = IF e > c THEN Count(a, c) + 1 ELSE Count(a, c)
                     /\ Count(r, c) \in Nat /\ Count(a, c) \in Nat /\ Count(r, c) <= Len(r)
  BY <1>1, CountAppend, AfterType
<1>4. Elements(s) = Elements(r) \union {t} /\ Elements(k) = Elements(a) \union {e}
  BY <1>1, ElementsAppend
<1> HIDE DEF s, k
<1>5. Len(s) <= Limit
  BY <1>2, ParametersAssumption
<1>6. Kept(s, k, t, e)
  <2> SUFFICES ASSUME NEW c \in Int, c >= t - Window
               PROVE  Count(k, c + (e - t)) <= Count(s, c)
    BY DEF Kept
  <2>1. Count(a, c + (e - t)) <= Count(r, c)
    BY DEF UserOK, Kept
  <2>2. c + (e - t) \in Int /\ (e > c + (e - t) <=> t > c)
    BY <1>1
  <2>3. PICK m, n \in Nat : m = Count(a, c + (e - t)) /\ n = Count(r, c)
    BY <1>3, <2>2
  <2>4. m <= n
    BY <2>1, <2>3
  <2>5. Count(s, c) = (IF t > c THEN n + 1 ELSE n)
        /\ Count(k, c + (e - t)) = (IF t > c THEN m + 1 ELSE m)
    BY <1>3, <2>2, <2>3
  <2>6. QED
    BY <2>4, <2>5
<1>7. Count(k, e - Window) <= Limit
  <2>1. t - Window \in Int /\ e - Window \in Int /\ (t - Window) + (e - t) = e - Window
    BY <1>1, WindowIsInt
  <2>2. Count(k, (t - Window) + (e - t)) <= Count(s, t - Window)
    BY <1>6, <2>1, WindowIsInt DEF Kept
  <2>3. Count(s, t - Window) <= Len(s) /\ Count(s, t - Window) \in Nat
    BY <1>2, <2>1, AfterType
  <2>4. Count(k, e - Window) \in Nat
    BY <1>2, <2>1, AfterType
  <2>5. QED
    BY <1>2, <1>5, <2>1, <2>2, <2>3, <2>4, ParametersAssumption
<1>8. LatestIsLast(s, k, t, e)
  <2>1. \A x \in Elements(a) : x \in Int /\ x <= e
    BY <1>1, ElementsAreTimes DEF UserOK, LatestIsLast
  <2>2. t + (e - t) = e
    BY <1>1
  <2>3. QED
    BY <1>1, <1>2, <1>4, <2>1, <2>2 DEF LatestIsLast
<1>9. Traced(s, k, e)
  <2>1. t <= e
    BY DEF Clocks
  <2>2. QED
    BY <1>4, <2>1 DEF UserOK, Traced
<1>10. QED
  BY <1>2, <1>5, <1>6, <1>7, <1>8, <1>9 DEF s, k, UserOK

\* A refusal, and when to come back.
LEMMA Refused ==
    ASSUME NEW r, NEW a, NEW b, NEW t, NEW e, Clocks(t, e), UserOK(r, a, b, t, e),
           r # <<>>, NEW d \in Int, d >= e, d - Window >= Head(r)
    PROVE  UserOK(r, a, d, t, e)
<1>1. Head(r) \in Elements(r) /\ Head(r) \in Int
  BY ElementsAreTimes DEF UserOK
<1>2. d - Window \in Int
  BY WindowIsInt
<1>3. Count(r, d - Window) < Len(r) /\ Count(r, d - Window) \in Nat
  BY <1>1, <1>2, CountMisses, AfterType DEF UserOK
<1>4. Len(r) \in Nat
  BY LenProperties DEF UserOK, Times
<1>5. Count(r, d - Window) < Limit
  BY <1>3, <1>4, ParametersAssumption DEF UserOK
<1>6. QED
  BY <1>5 DEF UserOK

\* The seconds of Retry-After reach beyond the window of the oldest request.
LEMMA RetryAfterReaches ==
    ASSUME now \in Int, NEW oldest \in Int
    PROVE  /\ TicksPerSecond * RetryAfter(oldest) \in Int
           /\ TicksPerSecond * RetryAfter(oldest) >= 0
           /\ now + TicksPerSecond * RetryAfter(oldest) >= oldest + Window
<1>1. PICK w \in Int : w = oldest + Window - now
  BY WindowIsInt
<1>2. PICK T \in Nat \ {0} : T = TicksPerSecond
  BY ParametersAssumption
<1>3. PICK q \in Int : q = w \div T
  BY <1>2
<1>4. T * q + T > w
  BY <1>2, <1>3
<1>5. PICK k \in Int : k = RetryAfter(oldest)
  BY <1>1, <1>2, <1>3 DEF RetryAfter
<1>6. k >= q + 1 /\ k >= 1
  BY <1>1, <1>2, <1>3, <1>5 DEF RetryAfter
<1>7. T * k \in Int /\ T * k >= T * (q + 1) /\ T * k >= 0 /\ T * (q + 1) = T * q + T
  BY <1>2, <1>3, <1>5, <1>6
<1>8. T * k >= w
  BY <1>1, <1>3, <1>4, <1>7
<1>9. now + T * k >= oldest + Window
  BY <1>1, <1>7, <1>8, WindowIsInt
<1>10. QED
  BY <1>2, <1>5, <1>7, <1>9

\* A tick of the clock: the window moves on, and old admissions are forgotten.
LEMMA Passed ==
    ASSUME NEW r, NEW a, NEW b, NEW t, NEW e, Clocks(t, e), UserOK(r, a, b, t, e),
           NEW t1, NEW e1, t1 = t + 1, e1 = e + 1
    PROVE  UserOK(r, After(a, e1 - (Window + MaxBack)), b, t1, e1)
<1>0. PICK h, k : h = e1 - (Window + MaxBack) /\ k = After(a, h)
  OBVIOUS
<1>1. t \in Int /\ e \in Int /\ t1 \in Int /\ e1 \in Int /\ h \in Int /\ r \in Times /\ a \in Times
  BY <1>0, WindowIsInt, BoundsAssumption DEF Clocks, UserOK
<1>2. k \in Times /\ Elements(k) = {x \in Elements(a) : x > h}
  BY <1>0, <1>1, AfterType, ElementsAfter
<1>3. Elements(a) \subseteq Int /\ Elements(r) \subseteq Int
  BY <1>1, ElementsAreTimes
<1>4. \A c \in Int : Count(k, c) <= Count(a, c) /\ Count(k, c) \in Nat /\ Count(a, c) \in Nat
                     /\ Count(r, c) \in Nat
  BY <1>0, <1>1, <1>2, CountFalls, AfterType
<1>5. Kept(r, k, t1, e1)
  <2> SUFFICES ASSUME NEW c \in Int, c >= t1 - Window
               PROVE  Count(k, c + (e1 - t1)) <= Count(r, c)
    BY DEF Kept
  <2>1. e1 - t1 = e - t /\ c + (e - t) \in Int /\ c >= t - Window
    BY <1>0, <1>1, WindowIsInt
  <2>2. Count(a, c + (e - t)) <= Count(r, c)
    BY <2>1 DEF UserOK, Kept
  <2>3. Count(k, c + (e - t)) <= Count(a, c + (e - t))
    BY <1>4, <2>1
  <2>4. PICK l, m, n \in Nat : /\ l = Count(k, c + (e - t)) /\ m = Count(a, c + (e - t))
                               /\ n = Count(r, c)
    BY <1>4, <2>1
  <2>5. QED
    BY <2>1, <2>2, <2>3, <2>4
<1>6. Count(k, e1 - Window) <= Limit
  <2>1. e1 - Window \in Int /\ e - Window \in Int /\ e - Window <= e1 - Window
    BY <1>0, <1>1, WindowIsInt
  <2>2. Count(a, e1 - Window) <= Count(a, e - Window) /\ Count(a, e - Window) <= Limit
    BY <1>1, <2>1, CountFalls DEF UserOK
  <2>3. Count(k, e1 - Window) <= Count(a, e1 - Window)
    BY <1>4, <2>1
  <2>4. PICK l, m, n \in Nat : /\ l = Count(k, e1 - Window) /\ m = Count(a, e1 - Window)
                               /\ n = Count(a, e - Window)
    BY <1>4, <2>1
  <2>5. QED
    BY <2>2, <2>3, <2>4, ParametersAssumption
<1>7. LatestIsLast(r, k, t1, e1)
  <2> SUFFICES ASSUME NEW x \in Elements(a)
               PROVE  /\ x <= e1
                      /\ x > e1 - Window =>
                            r # <<>> /\ r[Len(r)] + (e1 - t1) >= x
    BY <1>1, <1>2 DEF LatestIsLast
  <2>1. x \in Int /\ x <= e /\ (x > e - Window => r # <<>> /\ r[Len(r)] + (e - t) >= x)
    BY <1>3 DEF UserOK, LatestIsLast
  <2>2. e1 - t1 = e - t
    BY <1>0, <1>1
  <2>3. QED
    BY <1>0, <1>1, <2>1, <2>2, WindowIsInt
<1>8. Traced(r, k, e1)
  <2> SUFFICES ASSUME NEW x \in Elements(r)
               PROVE  x <= h \/ \E y \in Elements(k) : x <= y
    BY <1>0, <1>1 DEF Traced
  <2>1. x \in Int
    BY <1>3
  <2>2. CASE x <= e - (Window + MaxBack)
    BY <1>0, <1>1, <2>1, <2>2, WindowIsInt, BoundsAssumption
  <2>3. ASSUME NEW y \in Elements(a), x <= y
        PROVE  x <= h \/ \E z \in Elements(k) : x <= z
    <3>1. y \in Int /\ (y > h \/ y <= h)
      BY <1>1, <1>3
    <3>2. QED
      BY <1>1, <1>2, <2>1, <2>3, <3>1
  <2>4. QED
    BY <2>2, <2>3 DEF UserOK, Traced
<1>9. QED
  <2>1. r \in Times /\ k \in Times /\ b \in Int /\ Len(r) <= Limit
        /\ (b # 0 => Count(r, b - Window) < Limit)
    BY <1>2 DEF UserOK
  <2>2. UserOK(r, k, b, t1, e1)
    BY <2>1, <1>5, <1>6, <1>7, <1>8 DEF UserOK
  <2>3. QED
    BY <1>0, <2>2

\* The clock is set back: what it can see of the timestamps grows, of the
\* admissions it does not.
LEMMA SetBack ==
    ASSUME NEW r, NEW a, NEW b, NEW t, NEW e, Clocks(t, e), UserOK(r, a, b, t, e)
    PROVE  UserOK(r, a, b, t - 1, e)
<1>1. t \in Int /\ e \in Int /\ r \in Times /\ a \in Times
  BY DEF Clocks, UserOK
<1>2. Kept(r, a, t - 1, e)
  <2> SUFFICES ASSUME NEW c \in Int, c >= (t - 1) - Window
               PROVE  Count(a, c + (e - (t - 1))) <= Count(r, c)
    BY DEF Kept
  <2>1. /\ c + 1 \in Int /\ c + 1 >= t - Window /\ c + (e - (t - 1)) = (c + 1) + (e - t)
        /\ (c + 1) + (e - t) \in Int
    BY <1>1, WindowIsInt
  <2>2. Count(a, (c + 1) + (e - t)) <= Count(r, c + 1)
    BY <2>1 DEF UserOK, Kept
  <2>3. Count(r, c + 1) <= Count(r, c)
    BY <1>1, <2>1, CountFalls
  <2>4. PICK l, m, n \in Nat : /\ l = Count(a, (c + 1) + (e - t)) /\ m = Count(r, c + 1)
                               /\ n = Count(r, c)
    BY <1>1, <2>1, AfterType
  <2>5. QED
    BY <2>1, <2>2, <2>3, <2>4
<1>3. LatestIsLast(r, a, t - 1, e)
  <2> SUFFICES ASSUME NEW x \in Elements(a), x > e - Window
               PROVE  r # <<>> /\ r[Len(r)] + (e - (t - 1)) >= x
    BY DEF LatestIsLast, UserOK
  <2>1. r # <<>> /\ r[Len(r)] + (e - t) >= x
    BY DEF UserOK, LatestIsLast
  <2>2. x \in Int /\ r[Len(r)] \in Int
    BY <1>1, <2>1, ElementsAreTimes
  <2>3. QED
    BY <1>1, <2>1, <2>2
<1>4. QED
  BY <1>2, <1>3 DEF UserOK

-----------------------------------------------------------------------------
(* The steps of the limiter.                                               *)

\* What a user's call finds, and what the sweep leaves of the others.
LEMMA SweptOK ==
    ASSUME LimiterInv, NEW u \in Users
    PROVE  /\ DOMAIN Swept = Users
           /\ UserOK(Swept[u], admitted[u], retryAt[u], now, elapsed)
           /\ UserOK(Valid(u), admitted[u], retryAt[u], now, elapsed)
<1>1. Clocks(now, elapsed) /\ UserOK(records[u], admitted[u], retryAt[u], now, elapsed)
  BY DEF LimiterInv
<1>2. Dead(records[u]) => UserOK(<<>>, admitted[u], retryAt[u], now, elapsed)
  BY <1>1, Forgotten DEF Dead
<1>3. Swept[u] = records[u] \/ (Swept[u] = <<>> /\ Dead(records[u]))
  BY DEF Swept
<1>4. UserOK(Swept[u], admitted[u], retryAt[u], now, elapsed)
  BY <1>1, <1>2, <1>3
<1>5. UserOK(Valid(u), admitted[u], retryAt[u], now, elapsed)
  BY <1>1, <1>4, Filtered DEF Valid, Since
<1>6. DOMAIN Swept = Users
  BY DEF Swept, LimiterInv
<1>7. QED
  BY <1>4, <1>5, <1>6

\* A call of u: the others are swept at most.
LEMMA CallOK ==
    ASSUME LimiterInv, NEW u \in Users, UNCHANGED clocks,
           NEW r, NEW a, NEW b, UserOK(r, a, b, now, elapsed),
           records' = [Swept EXCEPT ![u] = r],
           admitted' = [admitted EXCEPT ![u] = a],
           retryAt' = [retryAt EXCEPT ![u] = b]
    PROVE  LimiterInv'
<1>1. now' = now /\ elapsed' = elapsed
  BY DEF clocks
<1>2. ASSUME NEW v \in Users
      PROVE  UserOK(records'[v], admitted'[v], retryAt'[v], now, elapsed)
  <2>1. v = u => records'[v] = r /\ admitted'[v] = a /\ retryAt'[v] = b
    BY SweptOK DEF LimiterInv
  <2>2. v # u => records'[v] = Swept[v] /\ admitted'[v] = admitted[v] /\ retryAt'[v] = retryAt[v]
    BY SweptOK DEF LimiterInv
  <2>3. QED
    BY <2>1, <2>2, SweptOK
<1>3. /\ records' = [v \in Users |-> records'[v]]
      /\ admitted' = [v \in Users |-> admitted'[v]]
      /\ retryAt' = [v \in Users |-> retryAt'[v]]
  BY SweptOK DEF LimiterInv
<1>4. QED
  BY <1>1, <1>2, <1>3 DEF LimiterInv

LEMMA AdmitStep == ASSUME LimiterInv, NEW u \in Users, Admit(u) PROVE LimiterInv'
<1>1. UserOK(Append(Valid(u), now), Append(admitted[u], elapsed), 0, now, elapsed)
  BY SweptOK, Admitted DEF Admit, LimiterInv
<1>2. admitted' = [admitted EXCEPT ![u] = Append(admitted[u], elapsed)]
  BY DEF Admit
<1>3. QED
  BY <1>1, <1>2, CallOK DEF Admit

LEMMA RefuseStep == ASSUME LimiterInv, NEW u \in Users, Refuse(u) PROVE LimiterInv'
<1> DEFINE d == elapsed + TicksPerSecond * RetryAfter(Head(Valid(u)))
<1>1. UserOK(Valid(u), admitted[u], retryAt[u], now, elapsed) /\ Clocks(now, elapsed)
  BY SweptOK DEF LimiterInv
<1>2. Valid(u) # <<>>
  <2>1. Len(Valid(u)) >= Limit /\ Len(Valid(u)) \in Nat
    BY <1>1, LenProperties DEF Refuse, UserOK, Times
  <2>2. Len(<<>>) = 0
    BY EmptySeq
  <2>3. QED
    BY <2>1, <2>2, ParametersAssumption
<1>3. PICK h \in Int : h = Head(Valid(u))
  BY <1>1, <1>2, ElementsAreTimes DEF UserOK
<1>4. PICK k \in Int : k = TicksPerSecond * RetryAfter(h) /\ k >= 0 /\ now + k >= h + Window
  BY <1>1, <1>3, RetryAfterReaches DEF Clocks
<1>5. d \in Int /\ d >= elapsed /\ d - Window >= h
  BY <1>1, <1>3, <1>4, WindowIsInt DEF Clocks
<1>6. UserOK(Valid(u), admitted[u], d, now, elapsed)
  BY <1>1, <1>2, <1>3, <1>5, Refused
<1>7. admitted' = [admitted EXCEPT ![u] = admitted[u]]
  BY DEF Refuse, LimiterInv
<1>8. QED
  BY <1>6, <1>7, CallOK DEF Refuse

LEMMA TimePasses == ASSUME LimiterInv, Tick PROVE LimiterInv'
<1>1. Clocks(now, elapsed)' 
  BY DEF LimiterInv, Clocks, Tick
<1>2. now' = now + 1 /\ elapsed' = elapsed + 1 /\ UNCHANGED <<records, retryAt>>
      /\ admitted' = [u \in Users |-> After(admitted[u], elapsed' - (Window + MaxBack))]
  BY DEF Tick
<1>3. \A u \in Users : UserOK(records[u], admitted'[u], retryAt[u], now', elapsed')
  BY <1>2, Passed DEF LimiterInv
<1>4. QED
  BY <1>1, <1>2, <1>3 DEF LimiterInv

LEMMA StepBackStep == ASSUME LimiterInv, StepBack PROVE LimiterInv'
<1>1. Clocks(now, elapsed)' 
  BY BoundsAssumption DEF LimiterInv, Clocks, StepBack, Behind
<1>2. \A u \in Users : UserOK(records[u], admitted[u], retryAt[u], now - 1, elapsed)
  BY SetBack DEF LimiterInv
<1>3. QED
  BY <1>1, <1>2 DEF LimiterInv, StepBack

LEMMA InitLimiter == Init => LimiterInv
<1> SUFFICES ASSUME Init PROVE LimiterInv
  OBVIOUS
<1>1. <<>> \in Times /\ Len(<<>>) = 0 /\ \A c : Count(<<>>, c) = 0
  BY EmptySeq, AfterEmpty DEF Times, Count
<1>2. UserOK(<<>>, <<>>, 0, 1, 1)
  BY <1>1, ElementsEmpty, ParametersAssumption DEF UserOK, Kept, LatestIsLast, Traced
<1>3. QED
  BY <1>2, BoundsAssumption DEF Init, LimiterInv, Clocks

LEMMA LimiterInvariance == Spec => []LimiterInv
<1>1. LimiterInv /\ [Next]_vars => LimiterInv'
  <2> SUFFICES ASSUME LimiterInv, [Next]_vars PROVE LimiterInv'
    OBVIOUS
  <2>1. CASE UNCHANGED vars
    BY <2>1 DEF vars, clocks, LimiterInv
  <2>2. QED
    BY <2>1, AdmitStep, RefuseStep, TimePasses, StepBackStep DEF Next
<1>2. QED
  BY InitLimiter, <1>1, PTL DEF Spec

-----------------------------------------------------------------------------
\* No window of window_seconds ever holds more than Limit admitted requests of a
\* user, whoever else's calls sweep the table and however the clock is set back.
THEOREM WindowsHold == Spec => []WindowNeverExceeded
<1>1. LimiterInv => WindowNeverExceeded
  BY DEF LimiterInv, UserOK, WindowNeverExceeded, Lately, Count
<1>2. QED
  BY LimiterInvariance, <1>1, PTL

\* Whoever waits for as long as Retry-After said is let in, for any number of ticks
\* to a second that the header is rounded from, unless the clock was set back.
THEOREM WaitingHelps == Spec => []RetryAfterIsEnough
<1>1. LimiterInv => RetryAfterIsEnough
  <2> SUFFICES ASSUME LimiterInv, NEW u \in Users, Behind = 0, retryAt[u] # 0,
                      elapsed >= retryAt[u]
               PROVE  Len(Valid(u)) < Limit
    BY DEF RetryAfterIsEnough
  <2>1. UserOK(Swept[u], admitted[u], retryAt[u], now, elapsed) /\ Clocks(now, elapsed)
    BY SweptOK DEF LimiterInv
  <2>2. PICK b \in Int : b = retryAt[u]
    BY <2>1 DEF UserOK
  <2>3. b - Window \in Int /\ now - Window \in Int /\ b - Window <= now - Window
    BY <2>1, <2>2, WindowIsInt DEF Clocks, Behind
  <2>4. Count(Swept[u], b - Window) < Limit /\ Swept[u] \in Times
    BY <2>1, <2>2 DEF UserOK
  <2>5. Count(Swept[u], now - Window) <= Count(Swept[u], b - Window)
    BY <2>3, <2>4, CountFalls
  <2>6. Count(Swept[u], now - Window) \in Nat /\ Count(Swept[u], b - Window) \in Nat
    BY <2>3, <2>4, AfterType
  <2>7. Len(Valid(u)) = Count(Swept[u], now - Window)
    BY DEF Valid, Since, Count
  <2>8. QED
    BY <2>4, <2>5, <2>6, <2>7, ParametersAssumption
<1>2. QED
  BY LimiterInvariance, <1>1, PTL

\* A clock that was set back shuts nobody out for longer than a window and the step.
THEOREM LockoutsEnd == Spec => []LockoutIsBounded
<1>1. LimiterInv => LockoutIsBounded
  <2> SUFFICES ASSUME LimiterInv, NEW u \in Users, Lately(u, Window + Behind) = <<>>
               PROVE  Valid(u) = <<>>
    BY DEF LockoutIsBounded
  <2>1. UserOK(Swept[u], admitted[u], retryAt[u], now, elapsed) /\ Clocks(now, elapsed)
    BY SweptOK DEF LimiterInv
  <2>2. PICK r, a \in Times : r = Swept[u] /\ a = admitted[u]
    BY <2>1 DEF UserOK
  <2>3. now - Window \in Int /\ elapsed - (Window + Behind) \in Int
        /\ elapsed - (Window + Behind) = now - Window
        /\ elapsed - (Window + MaxBack) <= now - Window
    BY <2>1, WindowIsInt, BoundsAssumption DEF Clocks, Behind
  <2>4. Elements(a) \subseteq Int /\ Elements(r) \subseteq Int
    BY <2>2, ElementsAreTimes
  <2>5. \A y \in Elements(a) : ~(y > now - Window)
    <3>1. Elements(After(a, now - Window)) = {}
      BY <2>2, <2>3, ElementsEmpty DEF Lately
    <3>2. QED
      BY <2>2, <2>3, <3>1, ElementsAfter
  <2>6. ASSUME NEW x \in Elements(r)  PROVE ~(x > now - Window)
    <3>1. x \in Int
      BY <2>4
    <3>2. x <= elapsed - (Window + MaxBack) \/ \E y \in Elements(a) : x <= y
      BY <2>1, <2>2 DEF UserOK, Traced
    <3>3. CASE x <= elapsed - (Window + MaxBack)
      BY <2>3, <3>1, <3>3, <2>1, WindowIsInt, BoundsAssumption DEF Clocks
    <3>4. ASSUME NEW y \in Elements(a), x <= y  PROVE ~(x > now - Window)
      <4>1. y \in Int /\ ~(y > now - Window)
        BY <2>4, <2>5
      <4>2. QED
        BY <2>3, <3>1, <3>4, <4>1
    <3>5. QED
      BY <3>2, <3>3, <3>4
  <2>7. Elements(After(r, now - Window)) = {}
    BY <2>2, <2>3, <2>6, ElementsAfter
  <2>8. After(r, now - Window) = <<>>
    BY <2>2, <2>3, <2>7, AfterType, ElementsAreTimes
  <2>9. QED
    BY <2>2, <2>8 DEF Valid, Since
<1>2. QED
  BY LimiterInvariance, <1>1, PTL

=============================================================================
