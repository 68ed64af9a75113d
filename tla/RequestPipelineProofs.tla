------------------------ MODULE RequestPipelineProofs ------------------------
(***************************************************************************)
(* TLAPS proofs about RequestPipeline, for every number of requests, any   *)
(* bodies and any way of keying them.                                      *)
(*                                                                         *)
(* The invariant says of a request, for each place it may be at, which     *)
(* records it has left by then and which calls it has made (Shape); and of *)
(* a body in the cache, or given to a client, whose it is (CacheWhole,     *)
(* Given).  The latter outlives the step that put it there because a       *)
(* request whose body is shared has been routed, and keeps its payload.    *)
(***************************************************************************)
EXTENDS RequestPipeline, TLAPS

Outcomes == {"ok", "4xx", "5xx", "error"}

LabelOf(o) == IF o = "error" THEN "0" ELSE o

\* At most n calls, each one but the last followed by another because it failed.
Calls(s, n) ==
    /\ Len(s) <= n
    /\ \A i \in 1..(Len(s) - 1) : s[i] \in {"5xx", "error"}

\* ... and the last one too.
FailedCalls(s, n) ==
    /\ Len(s) <= n
    /\ \A i \in 1..Len(s) : s[i] \in {"5xx", "error"}

\* Nothing recorded, nothing answered.
Unrecorded(r) ==
    /\ answer[r] = None /\ outcome[r] = None
    /\ counted[r] = <<>> /\ spans[r] = <<>> /\ metered[r] = 0

\* Tokens are counted once if a stream has come to its end.
Metered(r) ==
    /\ metered[r] \in 0..1
    /\ metered[r] > 0 => outcome[r] = "ok"
    /\ payload[r] \in Streamed =>
          answer[r].body = None \/ ~answer[r].body.whole \/ metered[r] = 1

\* A request that has been answered: before any call, or with the outcome of
\* its calls.
Answered(r) ==
    /\ answer[r] \in Answer
    /\ IF answer[r].body # None \/ answer[r].status \in {"4xx", "5xx"}
         THEN Len(spans[r]) = 1 /\ spans[r][1].status = answer[r].status
         ELSE spans[r] = <<>>
    /\ \/ calls[r] = <<>> /\ outcome[r] = None /\ Len(counted[r]) <= 1
       \/ outcome[r] \in Outcomes /\ counted[r] = <<LabelOf(outcome[r])>>
    /\ Calls(calls[r], MaxRetries + 1)
    /\ Metered(r)

\* The last call has been answered, or has failed, and is counted.
Called(r) ==
    /\ answer[r] = None /\ spans[r] = <<>>
    /\ outcome[r] \in Outcomes /\ counted[r] = <<LabelOf(outcome[r])>>
    /\ Calls(calls[r], MaxRetries + 1)

Shape(r) ==
    /\ phase[r] \notin {"new", "done"} => payload[r] \in Payload
    /\ phase[r] \in {"new", "routed", "cache"} => Unrecorded(r) /\ calls[r] = <<>>
    /\ phase[r] = "send" => Unrecorded(r) /\ FailedCalls(calls[r], attempt[r])
    /\ phase[r] = "await" =>
          Unrecorded(r) /\ Calls(calls[r], attempt[r] + 1) /\ calls[r] # <<>>
    /\ phase[r] = "answer" => Called(r) /\ metered[r] = 0
    /\ phase[r] = "stream" =>
          Called(r) /\ outcome[r] = "ok" /\ payload[r] \in Streamed /\ metered[r] \in 0..1
    /\ phase[r] = "done" => Answered(r)

\* A body that may be shared under the key k.
Whole(b, k) ==
    /\ b \in Body /\ b.whole
    /\ payload[b.from] \notin Streamed
    /\ CacheKey[payload[b.from]] = k
    /\ phase[b.from] # "new"

CacheWhole == \A k \in Key : cache[k] # None => Whole(cache[k], k)

Given(r) ==
    answer[r] # None /\ answer[r].body # None =>
        /\ phase[r] = "done"
        /\ answer[r].body.from = r \/ Whole(answer[r].body, KeyOf(r))

IInv ==
    /\ TypeOK
    /\ \A r \in Request : Shape(r) /\ Given(r)
    /\ CacheWhole

USE DEF MaxRetries

-----------------------------------------------------------------------------

\* Sequences of calls.
LEMMA CallStarts ==
    ASSUME NEW s \in Seq(Call), NEW n \in Nat, FailedCalls(s, n)
    PROVE  LET t == Append(s, "open") IN
           t \in Seq(Call) /\ t # <<>> /\ Calls(t, n + 1)
<1> DEFINE t == Append(s, "open")
<1>1. t \in Seq(Call) /\ Len(t) = Len(s) + 1
  BY DEF Call
<1>2. \A i \in 1..Len(s) : t[i] = s[i]
  OBVIOUS
<1>3. t # <<>>
  BY <1>1
<1> QED
  BY <1>1, <1>2, <1>3 DEF Calls, FailedCalls

LEMMA CallReturns ==
    ASSUME NEW s \in Seq(Call), NEW n \in Nat, Calls(s, n), s # <<>>, NEW o \in Call
    PROVE  LET t == [s EXCEPT ![Len(s)] = o] IN
           /\ t \in Seq(Call) /\ Calls(t, n)
           /\ o \in {"5xx", "error"} => FailedCalls(t, n)
<1> DEFINE t == [s EXCEPT ![Len(s)] = o]
<1>1. Len(s) \in Nat /\ Len(s) \in 1..Len(s)
  OBVIOUS
<1>2. t \in Seq(Call) /\ Len(t) = Len(s)
  OBVIOUS
<1>3. /\ \A i \in 1..(Len(s) - 1) : t[i] = s[i]
      /\ t[Len(s)] = o
  BY <1>1
<1>4. \A i \in 1..Len(s) : i = Len(s) \/ i \in 1..(Len(s) - 1)
  BY <1>1
<1> HIDE DEF t
<1>5. Calls(t, n)
  BY <1>2, <1>3 DEF Calls
<1>6. o \in {"5xx", "error"} => FailedCalls(t, n)
  BY <1>2, <1>3, <1>4 DEF Calls, FailedCalls
<1> QED
  BY <1>2, <1>5, <1>6 DEF t

LEMMA FailedAreCalls ==
    ASSUME NEW s \in Seq(Call), NEW n \in Nat, FailedCalls(s, n)
    PROVE  Calls(s, n)
BY DEF Calls, FailedCalls

\* The empty sequence.
LEMMA NoCalls ==
    ASSUME NEW n \in Nat
    PROVE  Calls(<<>>, n) /\ FailedCalls(<<>>, n)
BY DEF Calls, FailedCalls

LEMMA First ==
    ASSUME NEW v
    PROVE  Append(<<>>, v) = <<v>> /\ Len(<<v>>) = 1 /\ <<v>>[1] = v /\ <<v>> # <<>>
OBVIOUS

LEMMA AddTo ==
    ASSUME NEW S, NEW f \in [Request -> Seq(S)], NEW r \in Request, NEW v \in S
    PROVE  /\ Add(f, r, v) \in [Request -> Seq(S)]
           /\ Add(f, r, v)[r] = Append(f[r], v)
           /\ \A q \in Request \ {r} : Add(f, r, v)[q] = f[q]
BY DEF Add

-----------------------------------------------------------------------------

Same(q) ==
    /\ phase'[q] = phase[q] /\ payload'[q] = payload[q] /\ attempt'[q] = attempt[q]
    /\ outcome'[q] = outcome[q] /\ answer'[q] = answer[q]
    /\ counted'[q] = counted[q] /\ spans'[q] = spans[q] /\ calls'[q] = calls[q]
    /\ metered'[q] = metered[q]

\* A request keeps the payload it has been routed with.
Evolves ==
    \A q \in Request : phase[q] # "new" =>
        phase'[q] # "new" /\ payload'[q] = payload[q]

LEMMA WholeStill ==
    ASSUME Evolves, NEW b, NEW k, Whole(b, k)
    PROVE  Whole(b, k)'
<1>1. b \in Body /\ b.from \in Request /\ b.whole
  BY DEF Whole, Body
<1> QED
  BY <1>1 DEF Whole, Evolves

LEMMA OthersStill ==
    ASSUME IInv, Evolves, NEW q \in Request, Same(q)
    PROVE  Shape(q)' /\ Given(q)'
<1>1. Shape(q)'
  BY DEF IInv, Shape, Same, Unrecorded, Answered, Called, Metered
<1>2. Given(q)'
  <2> SUFFICES ASSUME answer'[q] # None, answer'[q].body # None
               PROVE  Given(q)'
    BY DEF Given
  <2>1. /\ phase[q] = "done"
        /\ answer[q].body.from = q \/ Whole(answer[q].body, KeyOf(q))
    BY DEF IInv, Given, Same
  <2>2. PICK b, k : b = answer[q].body /\ k = KeyOf(q)
    OBVIOUS
  <2>3. b = answer'[q].body /\ k = KeyOf(q)' /\ phase'[q] = "done"
    BY <2>1, <2>2 DEF Same, KeyOf
  <2>4. b.from = q \/ Whole(b, k)'
    BY <2>1, <2>2, WholeStill
  <2> QED
    BY <2>3, <2>4 DEF Given
<1> QED
  BY <1>1, <1>2

LEMMA CacheStill ==
    ASSUME IInv, Evolves, \A k \in Key : cache'[k] \in {cache[k], None}
    PROVE  CacheWhole'
<1> SUFFICES ASSUME NEW k \in Key, cache'[k] # None
             PROVE  Whole(cache[k], k)'
  BY DEF CacheWhole
<1>1. PICK b : b = cache[k]
  OBVIOUS
<1>2. b = cache'[k] /\ Whole(b, k)
  BY <1>1 DEF IInv, CacheWhole
<1>3. Whole(b, k)'
  BY <1>2, WholeStill
<1> QED
  BY <1>2, <1>3

\* What a step of one request has to show for it.
LEMMA StepOf ==
    ASSUME IInv, TypeOK', Evolves, NEW r \in Request,
           \A q \in Request \ {r} : Same(q),
           Shape(r)', Given(r)', CacheWhole'
    PROVE  IInv'
BY OthersStill DEF IInv

-----------------------------------------------------------------------------

LEMMA InitIInv == Init => IInv
<1> SUFFICES ASSUME Init PROVE IInv
  OBVIOUS
<1>1. TypeOK
  <2>1. caching \in BOOLEAN /\ ctxDone \in [Request -> BOOLEAN]
    BY Zenon DEF Init
  <2>2. \A S : <<>> \in Seq(S)
    OBVIOUS
  <2> QED
    BY <2>1, <2>2 DEF Init, TypeOK
<1>2. \A r \in Request : Shape(r) /\ Given(r)
  BY DEF Init, Shape, Given, Unrecorded
<1>3. CacheWhole
  BY DEF Init, CacheWhole
<1> QED
  BY <1>1, <1>2, <1>3 DEF IInv

\* The steps of a request before it goes to the upstream that do not end it.
LEMMA OnwardKeeps ==
    ASSUME IInv, NEW r \in Request, Route(r) \/ Pass(r) \/ CacheMiss(r)
    PROVE  IInv'
<1>1. TypeOK /\ Shape(r)
  BY DEF IInv
<1>2. TypeOK'
  BY <1>1 DEF TypeOK, Route, Pass, CacheMiss, PassesCache, control, records
<1>3. Evolves
  BY <1>1 DEF Evolves, TypeOK, Route, Pass, CacheMiss, PassesCache
<1>4. \A q \in Request \ {r} : Same(q)
  BY <1>1 DEF Same, TypeOK, Route, Pass, CacheMiss, PassesCache, control, records
<1>5. CacheWhole'
  BY <1>3, CacheStill DEF Route, Pass, CacheMiss, PassesCache
<1>6. Unrecorded(r)' /\ calls'[r] = <<>> /\ answer'[r] = None
  BY <1>1 DEF Shape, Unrecorded, Route, Pass, CacheMiss, PassesCache, control, records
<1>7. payload'[r] \in Payload /\ phase'[r] \in {"routed", "cache", "send"}
  BY <1>1 DEF Shape, TypeOK, Route, Pass, CacheMiss, PassesCache
<1>8. Shape(r)'
  <2>1. FailedCalls(<<>>, attempt'[r])
    <3>1. attempt' \in [Request -> 0..1]
      BY <1>2, Zenon DEF TypeOK
    <3> QED
      BY <3>1, NoCalls
  <2> QED
    BY <1>6, <1>7, <2>1 DEF Shape
<1>9. Given(r)'
  BY <1>6 DEF Given
<1> QED
  BY <1>2, <1>3, <1>4, <1>5, <1>8, <1>9, StepOf

\* The exits before the upstream is called.
LEMMA RefusedKeeps ==
    ASSUME IInv, NEW r \in Request,
           RejectUnparsed(r) \/ RejectUnrouted(r) \/ Throttle(r) \/ Block(r)
             \/ BuildFails(r)
    PROVE  IInv'
<1>1. TypeOK /\ Shape(r)
  BY DEF IInv
<1>2. PICK status \in {"400", "403", "404", "429", "500"} :
         Finish(r, status, None)
  BY DEF RejectUnparsed, RejectUnrouted, Throttle, Block, BuildFails
<1>3. /\ phase[r] \in {"new", "routed", "cache"}
      /\ UNCHANGED <<caching, cache, payload, attempt, outcome, ctxDone, spans,
                     metered, calls>>
      /\ \/ counted' = counted
         \/ \E l \in {"400", "403", "429"} : counted' = Add(counted, r, l)
  BY DEF RejectUnparsed, RejectUnrouted, Throttle, Block, BuildFails, PassesCache, control
<1>4. /\ counted' \in [Request -> Seq(Label)]
      /\ \/ counted'[r] = counted[r]
         \/ \E l \in Label : counted'[r] = Append(counted[r], l)
      /\ \A q \in Request \ {r} : counted'[q] = counted[q]
  <2>1. counted \in [Request -> Seq(Label)]
    BY <1>1 DEF TypeOK
  <2>2. CASE counted' = counted
    BY <2>1, <2>2
  <2>3. ASSUME NEW l \in {"400", "403", "429"}, counted' = Add(counted, r, l)
        PROVE  /\ counted' \in [Request -> Seq(Label)]
               /\ \E n \in Label : counted'[r] = Append(counted[r], n)
               /\ \A q \in Request \ {r} : counted'[q] = counted[q]
    <3>1. l \in Label
      BY DEF Label
    <3> QED
      BY <2>1, <2>3, <3>1, AddTo
  <2> QED
    BY <1>3, <2>2, <2>3
<1>5. /\ answer'[r] = [status |-> status, body |-> None]
      /\ phase'[r] = "done"
      /\ answer'[r] \in Answer
  BY <1>1, <1>2 DEF Finish, TypeOK, Answer, Status
<1>6. TypeOK'
  <2>1. answer' \in [Request -> Answer \cup {None}]
    BY <1>1, <1>2, <1>5 DEF Finish, TypeOK
  <2>2. counted' \in [Request -> Seq(Label)]
    BY <1>4
  <2> QED
    BY <1>1, <1>2, <1>3, <2>1, <2>2 DEF TypeOK, Finish
<1>7. Evolves
  BY <1>1, <1>2, <1>3 DEF Evolves, TypeOK, Finish
<1>8. \A q \in Request \ {r} : Same(q)
  BY <1>1, <1>2, <1>3 DEF Same, TypeOK, Finish, Add
<1>9. CacheWhole'
  BY <1>3, <1>7, CacheStill
<1>10. Shape(r)'
  <2>1. /\ outcome'[r] = None /\ spans'[r] = <<>> /\ calls'[r] = <<>>
        /\ metered'[r] = 0
    BY <1>1, <1>3 DEF Shape, Unrecorded
  <2>2. Len(counted'[r]) <= 1
    <3>1. counted[r] = <<>>
      BY <1>1, <1>3 DEF Shape, Unrecorded
    <3> QED
      <4>1. CASE counted'[r] = counted[r]
        BY <3>1, <4>1
      <4>2. ASSUME NEW l \in Label, counted'[r] = Append(counted[r], l)
            PROVE  Len(counted'[r]) <= 1
        BY <3>1, <4>2, First
      <4> QED
        BY <1>4, <4>1, <4>2
  <2>3. Answered(r)'
    BY <1>5, <2>1, <2>2, NoCalls DEF Answered, Metered
  <2> QED
    BY <1>5, <2>3 DEF Shape
<1>11. Given(r)'
  BY <1>5 DEF Given
<1> QED
  BY <1>6, <1>7, <1>8, <1>9, <1>10, <1>11, StepOf

\* The cache answers.
LEMMA HitKeeps ==
    ASSUME IInv, NEW r \in Request, CacheHit(r)
    PROVE  IInv'
<1> DEFINE body == cache[KeyOf(r)]
<1>1. /\ TypeOK /\ Shape(r) /\ phase[r] = "cache" /\ payload[r] \in Payload
      /\ Unrecorded(r) /\ calls[r] = <<>> /\ payload[r] \notin Streamed
  BY DEF IInv, Shape, CacheHit, MayUseCache
<1>2. KeyOf(r) \in Key /\ body \in Body /\ Whole(body, KeyOf(r))
  BY <1>1, PayloadAssumption DEF IInv, CacheWhole, CacheHit, KeyOf, Whole
<1>3. /\ answer' = [answer EXCEPT ![r] = [status |-> "ok", body |-> body]]
      /\ phase' = [phase EXCEPT ![r] = "done"]
      /\ counted' = Add(counted, r, "200-cache")
      /\ spans' = Add(spans, r, [status |-> "ok", tokens |-> TRUE])
      /\ UNCHANGED <<caching, cache, payload, attempt, outcome, ctxDone, metered, calls>>
  BY DEF CacheHit, Finish, control
<1>4. [status |-> "ok", body |-> body] \in Answer
  BY <1>2 DEF Answer, Status
<1>5. [status |-> "ok", tokens |-> TRUE] \in Span /\ "200-cache" \in Label
  BY DEF Span, Label
<1>6. /\ counted' \in [Request -> Seq(Label)]
      /\ counted'[r] = Append(counted[r], "200-cache")
      /\ \A q \in Request \ {r} : counted'[q] = counted[q]
  <2>1. counted \in [Request -> Seq(Label)]
    BY <1>1 DEF TypeOK
  <2> QED
    BY <1>3, <1>5, <2>1, AddTo
<1>7. /\ spans' \in [Request -> Seq(Span)]
      /\ spans'[r] = Append(spans[r], [status |-> "ok", tokens |-> TRUE])
      /\ \A q \in Request \ {r} : spans'[q] = spans[q]
  <2>1. spans \in [Request -> Seq(Span)]
    BY <1>1 DEF TypeOK
  <2> QED
    BY <1>3, <1>5, <2>1, AddTo
<1>8. answer' \in [Request -> Answer \cup {None}]
  BY <1>1, <1>3, <1>4 DEF TypeOK
<1>9. TypeOK'
  BY <1>1, <1>3, <1>6, <1>7, <1>8 DEF TypeOK
<1>10. Evolves
  BY <1>1, <1>3 DEF Evolves, TypeOK
<1>11. \A q \in Request \ {r} : Same(q)
  BY <1>1, <1>3, <1>6, <1>7 DEF Same, TypeOK
<1>12. CacheWhole'
  BY <1>3, <1>10, CacheStill
<1>13. answer'[r] = [status |-> "ok", body |-> body] /\ phase'[r] = "done"
  BY <1>1, <1>3 DEF TypeOK
<1>14. Shape(r)'
  <2>1. counted'[r] = <<"200-cache">>
    BY <1>1, <1>6, First DEF Unrecorded
  <2>2. spans'[r] = <<[status |-> "ok", tokens |-> TRUE]>>
    BY <1>1, <1>7, First DEF Unrecorded
  <2>3. Len(counted'[r]) = 1 /\ Len(spans'[r]) = 1 /\ spans'[r][1].status = "ok"
    BY <2>1, <2>2
  <2>4. body # None
    BY <1>2, NoneAssumption
  <2>5. Answered(r)'
    <3>1. /\ answer'[r] \in Answer /\ answer'[r].body # None
          /\ answer'[r].status = "ok"
      BY <1>4, <1>13, <2>4
    <3>2. calls'[r] = <<>> /\ outcome'[r] = None /\ metered'[r] = 0
      BY <1>1, <1>3 DEF Unrecorded
    <3>3. Calls(calls'[r], 2)
      BY <3>2, NoCalls
    <3>4. Metered(r)'
      BY <1>1, <1>3, <3>2 DEF Metered
    <3> QED
      BY <2>3, <3>1, <3>2, <3>3, <3>4 DEF Answered
  <2> QED
    BY <1>13, <2>5 DEF Shape
<1>15. Given(r)'
  <2>1. PICK b, k : b = body /\ k = KeyOf(r)
    OBVIOUS
  <2>2. Whole(b, k)'
    BY <1>2, <1>10, <2>1, WholeStill
  <2>3. KeyOf(r)' = k
    BY <1>3, <2>1 DEF KeyOf
  <2> QED
    BY <1>13, <2>1, <2>2, <2>3 DEF Given
<1> QED
  BY <1>9, <1>10, <1>11, <1>12, <1>14, <1>15, StepOf

-----------------------------------------------------------------------------

\* An attempt is over: another follows, or the result is counted.
LEMMA ConcludeKeeps ==
    ASSUME IInv, NEW r \in Request, NEW o \in Outcomes, Conclude(r, o),
           phase[r] \in {"send", "await"},
           UNCHANGED <<caching, cache, payload, ctxDone, answer, spans, metered>>,
           calls' \in [Request -> Seq(Call)],
           \A q \in Request \ {r} : calls'[q] = calls[q],
           Calls(calls'[r], attempt[r] + 1),
           o \in {"5xx", "error"} => FailedCalls(calls'[r], attempt[r] + 1)
    PROVE  IInv'
<1>1. /\ TypeOK /\ Shape(r) /\ Unrecorded(r) /\ payload[r] \in Payload
      /\ attempt[r] \in 0..1
  BY DEF IInv, TypeOK, Shape
<1>2. CASE o \in {"5xx", "error"} /\ attempt[r] < MaxRetries
  <2>1. /\ phase' = [phase EXCEPT ![r] = "send"]
        /\ attempt' = [attempt EXCEPT ![r] = @ + 1]
        /\ UNCHANGED <<outcome, counted>>
    BY <1>2 DEF Conclude, RetryIf
  <2>2. attempt' \in [Request -> 0..1]
    BY <1>1, <1>2, <2>1 DEF TypeOK
  <2>3. TypeOK'
    BY <1>1, <2>1, <2>2 DEF TypeOK
  <2>4. Evolves
    BY <1>1, <2>1 DEF Evolves, TypeOK
  <2>5. \A q \in Request \ {r} : Same(q)
    BY <1>1, <2>1 DEF Same, TypeOK
  <2>6. CacheWhole'
    BY <2>4, CacheStill
  <2>7. attempt'[r] = attempt[r] + 1 /\ phase'[r] = "send"
    BY <1>1, <2>1 DEF TypeOK
  <2>8. Shape(r)'
    BY <1>1, <1>2, <2>1, <2>7 DEF Shape, Unrecorded
  <2>9. Given(r)'
    BY <1>1 DEF Given, Unrecorded
  <2> QED
    BY <2>3, <2>4, <2>5, <2>6, <2>8, <2>9, StepOf
<1>3. CASE ~(o \in {"5xx", "error"} /\ attempt[r] < MaxRetries)
  <2>1. /\ phase' = [phase EXCEPT ![r] = "answer"]
        /\ outcome' = [outcome EXCEPT ![r] = o]
        /\ counted' = Add(counted, r, LabelOf(o))
        /\ attempt' = attempt
    BY <1>3 DEF Conclude, RetryIf, LabelOf
  <2>2. /\ counted' \in [Request -> Seq(Label)]
        /\ counted'[r] = Append(counted[r], LabelOf(o))
        /\ \A q \in Request \ {r} : counted'[q] = counted[q]
    <3>1. counted \in [Request -> Seq(Label)]
      BY <1>1 DEF TypeOK
    <3>2. LabelOf(o) \in Label
      BY DEF LabelOf, Label, Outcomes
    <3>3. PICK l \in Label : l = LabelOf(o)
      BY <3>2
    <3>4. /\ Add(counted, r, l) \in [Request -> Seq(Label)]
          /\ Add(counted, r, l)[r] = Append(counted[r], l)
          /\ \A q \in Request \ {r} : Add(counted, r, l)[q] = counted[q]
      BY <3>1, <3>3, AddTo
    <3>5. counted' = Add(counted, r, l)
      BY <2>1, <3>3
    <3> QED
      BY <3>3, <3>4, <3>5
  <2>3. TypeOK'
    BY <1>1, <2>1, <2>2 DEF TypeOK, Outcomes
  <2>4. Evolves
    BY <1>1, <2>1 DEF Evolves, TypeOK
  <2>5. \A q \in Request \ {r} : Same(q)
    BY <1>1, <2>1, <2>2 DEF Same, TypeOK
  <2>6. CacheWhole'
    BY <2>4, CacheStill
  <2>7. /\ outcome'[r] = o /\ phase'[r] = "answer"
        /\ counted'[r] = <<LabelOf(o)>>
    BY <1>1, <2>1, <2>2, First DEF TypeOK, Unrecorded
  <2>8. Calls(calls'[r], MaxRetries + 1)
    <3>1. Len(calls'[r]) \in Nat
      OBVIOUS
    <3> QED
      BY <1>1, <3>1 DEF Calls
  <2>9. Shape(r)'
    BY <1>1, <2>7, <2>8 DEF Shape, Unrecorded, Called
  <2>10. Given(r)'
    BY <1>1 DEF Given, Unrecorded
  <2> QED
    BY <2>3, <2>4, <2>5, <2>6, <2>9, <2>10, StepOf
<1> QED
  BY <1>2, <1>3

LEMMA UnreachableKeeps ==
    ASSUME IInv, NEW r \in Request, Unreachable(r)
    PROVE  IInv'
<1>1. /\ phase[r] = "send" /\ Shape(r) /\ calls' = calls /\ "error" \in Outcomes
      /\ calls \in [Request -> Seq(Call)] /\ attempt \in [Request -> 0..1]
  BY DEF IInv, TypeOK, Unreachable, Outcomes
<1>2. FailedCalls(calls[r], attempt[r] + 1)
  BY <1>1 DEF Shape, FailedCalls
<1>3. Calls(calls[r], attempt[r] + 1)
  BY <1>1, <1>2, FailedAreCalls
<1> QED
  BY <1>1, <1>2, <1>3, ConcludeKeeps DEF Unreachable

LEMMA ReturnKeeps ==
    ASSUME IInv, NEW r \in Request, Respond(r) \/ Break(r)
    PROVE  IInv'
<1>1. PICK o \in Outcomes : Conclude(r, o) /\ Returned(r, o)
  BY DEF Respond, Break, Outcomes
<1>2. /\ TypeOK /\ calls \in [Request -> Seq(Call)]
      /\ phase[r] = "await" /\ calls[r] \in Seq(Call)
      /\ Calls(calls[r], attempt[r] + 1) /\ calls[r] # <<>>
      /\ UNCHANGED <<caching, cache, payload, ctxDone, answer, spans, metered>>
  BY DEF IInv, TypeOK, Shape, Respond, Break
<1>3. attempt[r] + 1 \in Nat /\ o \in Call
  <2>1. attempt \in [Request -> 0..1]
    BY <1>2 DEF TypeOK
  <2>2. o \in Call
    BY DEF Outcomes, Call
  <2> QED
    BY <2>1, <2>2
<1> DEFINE t == [calls[r] EXCEPT ![Len(calls[r])] = o]
<1>4. calls' = [calls EXCEPT ![r] = t]
  BY <1>1 DEF Returned
<1>5. /\ t \in Seq(Call) /\ Calls(t, attempt[r] + 1)
      /\ o \in {"5xx", "error"} => FailedCalls(t, attempt[r] + 1)
  BY <1>2, <1>3, CallReturns
<1> HIDE DEF t
<1>6. /\ calls' \in [Request -> Seq(Call)] /\ calls'[r] = t
      /\ \A q \in Request \ {r} : calls'[q] = calls[q]
  BY <1>2, <1>4, <1>5
<1> QED
  BY <1>1, <1>2, <1>5, <1>6, ConcludeKeeps

LEMMA ReachKeeps ==
    ASSUME IInv, NEW r \in Request, Reach(r)
    PROVE  IInv'
<1>1. /\ TypeOK /\ Shape(r) /\ Unrecorded(r) /\ payload[r] \in Payload
      /\ calls \in [Request -> Seq(Call)] /\ calls[r] \in Seq(Call)
      /\ attempt[r] \in Nat /\ FailedCalls(calls[r], attempt[r])
  <2>1. TypeOK /\ Shape(r) /\ phase[r] = "send"
    BY DEF IInv, Reach
  <2>2. calls \in [Request -> Seq(Call)] /\ attempt \in [Request -> 0..1]
    BY <2>1 DEF TypeOK
  <2> QED
    BY <2>1, <2>2 DEF Shape
<1> DEFINE t == Append(calls[r], "open")
<1>2. t \in Seq(Call) /\ t # <<>> /\ Calls(t, attempt[r] + 1)
  BY <1>1, CallStarts
<1>3. calls' = [calls EXCEPT ![r] = t]
  BY DEF Reach, Add
<1> HIDE DEF t
<1>4. /\ calls' \in [Request -> Seq(Call)] /\ calls'[r] = t
      /\ \A q \in Request \ {r} : calls'[q] = calls[q]
  BY <1>1, <1>2, <1>3
<1>5. TypeOK'
  BY <1>1, <1>4 DEF TypeOK, Reach, control, records
<1>6. Evolves
  BY <1>1 DEF Evolves, TypeOK, Reach
<1>7. \A q \in Request \ {r} : Same(q)
  BY <1>1, <1>4 DEF Same, TypeOK, Reach, control, records
<1>8. CacheWhole'
  BY <1>6, CacheStill DEF Reach
<1>9. Shape(r)' /\ Given(r)'
  BY <1>1, <1>2, <1>4 DEF Shape, Given, Unrecorded, TypeOK, Reach, control, records
<1> QED
  BY <1>5, <1>6, <1>7, <1>8, <1>9, StepOf

-----------------------------------------------------------------------------

\* The answer after the call, with the span it leaves, if any.
LEMMA AnswerKeeps ==
    ASSUME IInv, NEW r \in Request, phase[r] \in {"answer", "stream"},
           NEW status \in Status, NEW body \in Body \cup {None}, NEW s \in Seq(Span),
           Finish(r, status, body),
           spans' = [spans EXCEPT ![r] = s],
           NEW m \in 0..1,
           metered' = [metered EXCEPT ![r] = m],
           m > 0 => outcome[r] = "ok",
           payload[r] \in Streamed /\ body # None => ~body.whole \/ m = 1,
           cache' \in [Key -> Body \cup {None}],
           UNCHANGED <<caching, payload, control, counted, calls>>,
           IF body # None \/ status \in {"4xx", "5xx"}
             THEN Len(s) = 1 /\ s[1].status = status
             ELSE s = <<>>,
           body # None => body.from = r,
           Evolves => CacheWhole'
    PROVE  IInv'
<1>1. /\ TypeOK /\ Shape(r)
      /\ outcome[r] \in Outcomes /\ counted[r] = <<LabelOf(outcome[r])>>
      /\ Calls(calls[r], MaxRetries + 1)
  BY DEF IInv, Shape, Called
<1> DEFINE a == [status |-> status, body |-> body]
<1>2. a \in Answer /\ a.status = status /\ a.body = body
  BY DEF Answer
<1>3. answer' = [answer EXCEPT ![r] = a] /\ phase' = [phase EXCEPT ![r] = "done"]
  BY DEF Finish
<1> HIDE DEF a
<1>4. /\ UNCHANGED <<caching, payload, attempt, outcome, ctxDone, counted, calls>>
  BY DEF control
<1>5. answer' \in [Request -> Answer \cup {None}] /\ answer'[r] = a
  BY <1>1, <1>2, <1>3 DEF TypeOK
<1>6. spans' \in [Request -> Seq(Span)] /\ spans'[r] = s
  BY <1>1 DEF TypeOK
<1>7. phase'[r] = "done"
  BY <1>1, <1>3 DEF TypeOK
<1>8. TypeOK' /\ metered'[r] = m
  BY <1>1, <1>3, <1>4, <1>5, <1>6 DEF TypeOK
<1>9. Evolves
  BY <1>1, <1>3, <1>4 DEF Evolves, TypeOK
<1>10. \A q \in Request \ {r} : Same(q)
  BY <1>1, <1>3, <1>4 DEF Same, TypeOK
<1>11. Shape(r)'
  <2>1. /\ answer'[r] \in Answer
        /\ IF answer'[r].body # None \/ answer'[r].status \in {"4xx", "5xx"}
             THEN Len(spans'[r]) = 1 /\ spans'[r][1].status = answer'[r].status
             ELSE spans'[r] = <<>>
    BY <1>2, <1>5, <1>6
  <2>2. /\ outcome'[r] \in Outcomes /\ counted'[r] = <<LabelOf(outcome'[r])>>
        /\ Calls(calls'[r], MaxRetries + 1)
    BY <1>1, <1>4
  <2>3. Metered(r)'
    BY <1>2, <1>4, <1>5, <1>8 DEF Metered
  <2>4. Answered(r)'
    BY <2>1, <2>2, <2>3 DEF Answered
  <2> QED
    BY <1>7, <2>4 DEF Shape
<1>12. Given(r)'
  BY <1>2, <1>5, <1>7 DEF Given
<1> QED
  BY <1>8, <1>9, <1>10, <1>11, <1>12, StepOf

\* Ways of answering that leave no span.
LEMMA SilentKeeps ==
    ASSUME IInv, NEW r \in Request,
           BadGateway(r) \/ (PassBroken(r) /\ caching)
    PROVE  IInv'
<1>1. PICK status \in {"502", "ok"} : Finish(r, status, None)
  BY DEF BadGateway, PassBroken
<1>2. /\ phase[r] = "answer" /\ UNCHANGED <<cache, spans, metered>>
      /\ UNCHANGED <<caching, payload, control, counted, calls>>
  BY DEF BadGateway, PassBroken, Answering
<1>3. /\ cache \in [Key -> Body \cup {None}] /\ metered \in [Request -> Nat]
      /\ spans \in [Request -> Seq(Span)]
  BY DEF IInv, TypeOK
<1>4. spans[r] = <<>> /\ metered[r] = 0
  BY <1>2 DEF IInv, Shape, Called
<1>5. /\ spans' = [spans EXCEPT ![r] = <<>>] /\ <<>> \in Seq(Span)
      /\ metered' = [metered EXCEPT ![r] = 0]
  BY <1>2, <1>3, <1>4
<1>6. Evolves => CacheWhole'
  BY <1>2, CacheStill
<1>7. status \in Status /\ status \notin {"4xx", "5xx"}
  BY DEF Status
<1>8. 0 \in 0..1 /\ ~(0 > 0) /\ phase[r] \in {"answer", "stream"}
  BY <1>2
<1> QED
  BY <1>1, <1>2, <1>3, <1>5, <1>6, <1>7, <1>8, AnswerKeeps

\* A span added to none.
LEMMA OneSpan ==
    ASSUME IInv, NEW r \in Request, phase[r] \in {"answer", "stream"}, NEW v \in Span
    PROVE  /\ Add(spans, r, v) = [spans EXCEPT ![r] = <<v>>]
           /\ <<v>> \in Seq(Span) /\ Len(<<v>>) = 1 /\ <<v>>[1] = v
<1>1. spans[r] = <<>> /\ spans \in [Request -> Seq(Span)]
  BY DEF IInv, Shape, Called, TypeOK
<1>2. Append(spans[r], v) = <<v>>
  BY <1>1, First
<1> QED
  BY <1>2 DEF Add

LEMMA PassErrorKeeps ==
    ASSUME IInv, NEW r \in Request, PassError(r)
    PROVE  IInv'
<1>1. /\ phase[r] = "answer" /\ UNCHANGED <<cache, metered>>
      /\ UNCHANGED <<caching, payload, control, counted, calls>>
  BY DEF PassError
<1>2. PICK status \in {"4xx", "5xx"} : status = outcome[r]
  BY DEF PassError
<1> DEFINE v == [status |-> status, tokens |-> FALSE]
<1>3. /\ Finish(r, status, None) /\ spans' = Add(spans, r, v)
      /\ v \in Span /\ v.status = status /\ status \in Status
  BY <1>2 DEF PassError, Span, Status
<1> HIDE DEF v
<1>4. /\ cache \in [Key -> Body \cup {None}]
      /\ metered' = [metered EXCEPT ![r] = 0]
  BY <1>1 DEF IInv, TypeOK, Shape
<1>5. Evolves => CacheWhole'
  BY <1>1, CacheStill
<1>6. /\ spans' = [spans EXCEPT ![r] = <<v>>]
      /\ <<v>> \in Seq(Span) /\ Len(<<v>>) = 1 /\ <<v>>[1].status = status
  BY <1>1, <1>3, OneSpan
<1>7. 0 \in 0..1 /\ ~(0 > 0) /\ phase[r] \in {"answer", "stream"}
  BY <1>1
<1> QED
  BY <1>1, <1>2, <1>3, <1>4, <1>5, <1>6, <1>7, AnswerKeeps

\* Bodies that are not shared: broken off, or streamed.
LEMMA PassPrivateKeeps ==
    ASSUME IInv, NEW r \in Request,
           (PassBroken(r) /\ ~caching) \/ EndStream(r) \/ BreakStream(r)
    PROVE  IInv'
<1> USE DEF PassBroken, EndStream, BreakStream, FinishStream
<1>1. /\ phase[r] \in {"answer", "stream"} /\ cache' = cache
      /\ UNCHANGED <<caching, payload, control, counted, calls>>
      /\ outcome[r] = "ok" /\ metered[r] \in 0..1
  <2>1. /\ phase[r] \in {"answer", "stream"} /\ cache' = cache
        /\ UNCHANGED <<caching, payload, control, counted, calls>>
        /\ phase[r] = "answer" => outcome[r] = "ok"
    BY DEF Streaming, Answering
  <2> QED
    BY <2>1 DEF IInv, Shape
<1>2. PICK body \in Body :
         /\ Finish(r, "ok", body) /\ body.from = r
         /\ body.whole => EndStream(r)
  <2>1. PICK whole \in BOOLEAN :
           /\ Finish(r, "ok", [from |-> r, whole |-> whole])
           /\ whole => EndStream(r)
    OBVIOUS
  <2>2. /\ [from |-> r, whole |-> whole] \in Body
        /\ [from |-> r, whole |-> whole].from = r
        /\ [from |-> r, whole |-> whole].whole = whole
    BY DEF Body
  <2> QED
    BY <2>1, <2>2
<1> DEFINE v == [status |-> "ok", tokens |-> FALSE]
<1>3. /\ spans' = Add(spans, r, v)
      /\ v \in Span /\ v.status = "ok" /\ "ok" \in Status
  BY DEF Span, Status
<1> HIDE DEF v
<1>4. cache \in [Key -> Body \cup {None}]
  BY DEF IInv, TypeOK
<1>5. PICK m \in 0..1 :
         /\ metered' = [metered EXCEPT ![r] = m]
         /\ m = 1 \/ ~EndStream(r)
  <2>1. metered \in [Request -> Nat]
    BY DEF IInv, TypeOK
  <2>2. CASE EndStream(r)
    <3>1. metered[r] > 0 => metered[r] = 1
      BY <1>1
    <3>2. metered' = [metered EXCEPT ![r] = 1]
      BY <2>2, <3>1, Zenon DEF usageFound
    <3> QED
      BY <3>2
  <2>3. CASE metered' = metered /\ ~EndStream(r)
    BY <1>1, <2>1, <2>3
  <2> QED
    BY <2>2, <2>3
<1>6. Evolves => CacheWhole'
  BY <1>1, CacheStill
<1>7. /\ spans' = [spans EXCEPT ![r] = <<v>>]
      /\ <<v>> \in Seq(Span) /\ Len(<<v>>) = 1 /\ <<v>>[1].status = "ok"
  BY <1>1, <1>3, OneSpan
<1>8. body # None
  BY NoneAssumption
<1> QED
  BY <1>1, <1>2, <1>3, <1>4, <1>5, <1>6, <1>7, <1>8, AnswerKeeps

\* The body that goes into the cache has been read to its end, and its request
\* has been routed, was not streamed, and has the key it is set under.
LEMMA PassWholeKeeps ==
    ASSUME IInv, NEW r \in Request, PassWhole(r)
    PROVE  IInv'
<1> DEFINE body == [from |-> r, whole |-> TRUE]
           v == [status |-> "ok", tokens |-> TRUE]
<1>1. /\ phase[r] = "answer" /\ payload[r] \notin Streamed /\ payload' = payload
      /\ UNCHANGED <<caching, payload, control, counted, calls>>
      /\ Finish(r, "ok", body)
      /\ cache' = IF caching THEN [cache EXCEPT ![KeyOf(r)] = body] ELSE cache
      /\ spans' = Add(spans, r, v)
      /\ \E usage \in {0, 1} :
            metered' = [metered EXCEPT ![r] = IF caching THEN usage ELSE 0]
      /\ outcome[r] = "ok"
  BY DEF PassWhole, Answering
<1>2. /\ TypeOK /\ payload[r] \in Payload /\ KeyOf(r) \in Key
      /\ cache \in [Key -> Body \cup {None}]
  BY <1>1, PayloadAssumption DEF IInv, TypeOK, Shape, KeyOf
<1>3. /\ body \in Body /\ body.from = r /\ body.whole
      /\ v \in Span /\ v.status = "ok" /\ "ok" \in Status
  BY DEF Body, Span, Status
<1>4. body # None
  BY <1>3, NoneAssumption
<1>5. cache' \in [Key -> Body \cup {None}]
  BY <1>1, <1>2, <1>3
<1>6. PICK m \in 0..1 : metered' = [metered EXCEPT ![r] = m]
  <2>1. PICK usage \in {0, 1} :
           metered' = [metered EXCEPT ![r] = IF caching THEN usage ELSE 0]
    BY <1>1
  <2>2. (IF caching THEN usage ELSE 0) \in 0..1
    OBVIOUS
  <2> QED
    BY <2>1, <2>2
<1>7. ASSUME Evolves PROVE CacheWhole'
  <2> SUFFICES ASSUME NEW k \in Key, cache'[k] # None
               PROVE  Whole(cache[k], k)'
    BY DEF CacheWhole
  <2>1. PICK b : b = cache'[k]
    OBVIOUS
  <2>2. CASE cache'[k] = cache[k]
    <3>1. Whole(b, k)
      BY <1>2, <2>1, <2>2 DEF IInv, CacheWhole
    <3>2. Whole(b, k)'
      BY <1>7, <3>1, WholeStill
    <3> QED
      BY <2>1, <3>2
  <2>3. CASE cache'[k] # cache[k]
    <3>1. b = body /\ k = KeyOf(r)
      BY <1>1, <1>2, <2>1, <2>3
    <3>2. phase'[r] # "new" /\ payload'[r] = payload[r]
      BY <1>1, <1>7 DEF Evolves
    <3> QED
      BY <1>1, <1>3, <2>1, <3>1, <3>2 DEF Whole, KeyOf
  <2> QED
    BY <2>2, <2>3
<1> HIDE DEF v, body
<1>8. /\ spans' = [spans EXCEPT ![r] = <<v>>]
      /\ <<v>> \in Seq(Span) /\ Len(<<v>>) = 1 /\ <<v>>[1].status = "ok"
  BY <1>1, <1>3, OneSpan
<1> QED
  BY <1>1, <1>3, <1>4, <1>5, <1>6, <1>7, <1>8, AnswerKeeps

\* A line of a stream.
LEMMA LineKeeps ==
    ASSUME IInv, NEW r \in Request, PassLine(r)
    PROVE  IInv'
<1>1. /\ TypeOK /\ Shape(r) /\ Called(r) /\ outcome[r] = "ok"
      /\ payload[r] \in Payload /\ payload[r] \in Streamed /\ metered[r] \in 0..1
      /\ phase[r] \in {"answer", "stream"}
  BY DEF IInv, Shape, PassLine, Streaming, Answering
<1>2. /\ phase' = [phase EXCEPT ![r] = "stream"]
      /\ UNCHANGED <<caching, cache, payload, attempt, outcome, ctxDone, answer,
                     counted, spans, calls>>
  BY DEF PassLine, control
<1>3. PICK m \in 0..1 : metered' = [metered EXCEPT ![r] = m]
  <2>1. PICK usage \in {0, 1} :
           metered' = [metered EXCEPT ![r] = IF usageFound(r) THEN metered[r] ELSE usage]
    BY DEF PassLine
  <2>2. (IF usageFound(r) THEN metered[r] ELSE usage) \in 0..1
    BY <1>1
  <2> QED
    BY <2>1, <2>2
<1>4. TypeOK' /\ phase'[r] = "stream" /\ metered'[r] = m
  BY <1>1, <1>2, <1>3 DEF TypeOK
<1>5. Evolves
  BY <1>1, <1>2 DEF Evolves, TypeOK
<1>6. \A q \in Request \ {r} : Same(q)
  BY <1>1, <1>2, <1>3 DEF Same, TypeOK
<1>7. CacheWhole'
  BY <1>2, <1>5, CacheStill
<1>8. Shape(r)'
  BY <1>1, <1>2, <1>4 DEF Shape, Called
<1>9. Given(r)'
  BY <1>1, <1>2 DEF Given, Called
<1> QED
  BY <1>4, <1>5, <1>6, <1>7, <1>8, <1>9, StepOf

-----------------------------------------------------------------------------

\* The context of a request ends; an item leaves the cache; nothing happens.
LEMMA OutsideKeeps ==
    ASSUME IInv,
           \/ \E r \in Request : CtxEnds(r)
           \/ \E k \in Key : Forget(k)
           \/ UNCHANGED vars
    PROVE  IInv'
<1>1. TypeOK
  BY DEF IInv
<1>2. UNCHANGED <<caching, phase, payload, attempt, outcome, answer, counted, spans,
                  metered, calls>>
  BY DEF CtxEnds, Forget, vars, control, records
<1>3. ctxDone' \in [Request -> BOOLEAN]
  <2>1. ctxDone \in [Request -> BOOLEAN]
    BY <1>1 DEF TypeOK
  <2>2. ctxDone' = ctxDone \/ \E r \in Request : ctxDone' = [ctxDone EXCEPT ![r] = TRUE]
    BY DEF CtxEnds, Forget, vars, control
  <2> QED
    BY <2>1, <2>2
<1>4. /\ cache' \in [Key -> Body \cup {None}]
      /\ \A k \in Key : cache'[k] \in {cache[k], None}
  BY <1>1 DEF TypeOK, CtxEnds, Forget, vars
<1>5. TypeOK'
  BY <1>1, <1>2, <1>3, <1>4 DEF TypeOK
<1>6. Evolves /\ \A q \in Request : Same(q)
  BY <1>2 DEF Evolves, Same
<1>7. CacheWhole'
  BY <1>4, <1>6, CacheStill
<1> QED
  BY <1>5, <1>6, <1>7, OthersStill DEF IInv

LEMMA NextIInv == IInv /\ [Next]_vars => IInv'
<1> SUFFICES ASSUME IInv, [Next]_vars PROVE IInv'
  OBVIOUS
<1>1. ASSUME NEW r \in Request, Arrival(r) PROVE IInv'
  BY <1>1, RefusedKeeps, OnwardKeeps DEF Arrival
<1>2. ASSUME NEW r \in Request, Local(r) PROVE IInv'
  BY <1>2, RefusedKeeps, OnwardKeeps, HitKeeps, SilentKeeps DEF Local
<1>3. ASSUME NEW r \in Request, Upstream(r) PROVE IInv'
  BY <1>3, ReachKeeps, UnreachableKeeps, ReturnKeeps DEF Upstream
<1>4. ASSUME NEW r \in Request, Passing(r) PROVE IInv'
  BY <1>4, PassErrorKeeps, PassWholeKeeps, SilentKeeps, PassPrivateKeeps DEF Passing
<1> QED
  BY <1>1, <1>2, <1>3, <1>4, LineKeeps, OutsideKeeps DEF Next

LEMMA Invariant == Spec => []IInv
BY InitIInv, NextIInv, PTL DEF Spec

\* The variables keep their types (handler.go:61-270).
THEOREM TypeCorrect == Spec => []TypeOK
<1>1. IInv => TypeOK
  BY DEF IInv
<1> QED
  BY <1>1, Invariant, PTL

\* Answers are shared through the cache only whole, unstreamed and under their
\* own key (handler.go:143-160, 245-258).
THEOREM SharedWhole == Spec => []SharedAnswersWhole
<1>1. IInv => SharedAnswersWhole
  BY DEF IInv, CacheWhole, Given, Whole, SharedAnswersWhole
<1> QED
  BY <1>1, Invariant, PTL

\* Each request is recorded once and counted once, with the status the client
\* saw (handler.go:214-270).
THEOREM Accounted == Spec => []AccountedOnce
<1>1. IInv => AccountedOnce
  <2> SUFFICES ASSUME IInv, NEW r \in Request, phase[r] = "done"
               PROVE  /\ IF answer[r].body # None \/ answer[r].status \in {"4xx", "5xx"}
                           THEN Len(spans[r]) = 1 /\ spans[r][1].status = answer[r].status
                           ELSE spans[r] = <<>>
                      /\ Len(counted[r]) <= 1
                      /\ outcome[r] # None =>
                            counted[r] = <<IF outcome[r] = "error" THEN "0" ELSE outcome[r]>>
    BY DEF AccountedOnce
  <2>1. Answered(r)
    BY DEF IInv, Shape
  <2>2. /\ Len(counted[r]) <= 1
        /\ outcome[r] # None => counted[r] = <<LabelOf(outcome[r])>>
    <3>1. CASE outcome[r] = None /\ Len(counted[r]) <= 1
      BY <3>1
    <3>2. CASE counted[r] = <<LabelOf(outcome[r])>>
      <4>1. Len(counted[r]) = 1
        BY <3>2
      <4> QED
        BY <3>2, <4>1
    <3> QED
      BY <2>1, <3>1, <3>2 DEF Answered
  <2> QED
    BY <2>1, <2>2 DEF Answered, LabelOf
<1> QED
  BY <1>1, Invariant, PTL

\* Tokens are counted at most once for a request, never for an answer from the
\* cache, and once for a stream that came to its end (handler.go:245-339).
THEOREM Once == Spec => []MeteredOnce
<1>1. IInv => MeteredOnce
  <2> SUFFICES ASSUME IInv, NEW r \in Request
               PROVE  /\ metered[r] <= 1
                      /\ metered[r] > 0 => outcome[r] = "ok"
                      /\ phase[r] = "done" => Metered(r)
    BY DEF MeteredOnce, Metered
  <2>1. /\ Shape(r)
        /\ phase[r] \in {"new", "routed", "cache", "send", "await", "answer", "stream",
                          "done"}
    BY DEF IInv, TypeOK
  <2>2. phase[r] = "done" => Metered(r)
    BY <2>1 DEF Shape, Answered
  <2>3. \/ metered[r] = 0
        \/ metered[r] \in 0..1 /\ outcome[r] = "ok"
    BY <2>1, <2>2 DEF Shape, Unrecorded, Metered
  <2> QED
    BY <2>2, <2>3
<1> QED
  BY <1>1, Invariant, PTL

\* A second call follows a failure only, there is no third, and none for a
\* request that is refused or answered from the cache (retry.go:20-48).
THEOREM Retried == Spec => []RetriedOnlyAfterFailure
<1>1. IInv => RetriedOnlyAfterFailure
  <2> SUFFICES ASSUME IInv, NEW r \in Request
               PROVE  /\ Calls(calls[r], MaxRetries + 1)
                      /\ calls[r] # <<>> =>
                            counted[r] \notin {<<"403">>, <<"429">>, <<"200-cache">>}
    BY DEF RetriedOnlyAfterFailure, Calls
  <2>1. /\ Shape(r) /\ calls[r] \in Seq(Call) /\ attempt[r] \in 0..1
        /\ phase[r] \in {"new", "routed", "cache", "send", "await", "answer", "stream",
                          "done"}
    BY DEF IInv, TypeOK
  <2>2. Calls(calls[r], MaxRetries + 1)
    BY <2>1, NoCalls DEF Shape, Answered, Called, Calls, FailedCalls
  <2>3. calls[r] # <<>> => counted[r] \notin {<<"403">>, <<"429">>, <<"200-cache">>}
    <3>1. \A v, w : <<v>> = <<w>> => v = w
      OBVIOUS
    <3>2. \A v : <<v>> # <<>>
      OBVIOUS
    <3>3. ASSUME calls[r] # <<>>
          PROVE  counted[r] = <<>> \/ \E o \in Outcomes : counted[r] = <<LabelOf(o)>>
      BY <2>1, <3>3 DEF Shape, Answered, Called, Unrecorded
    <3>4. \A o \in Outcomes : LabelOf(o) \notin {"403", "429", "200-cache"}
      BY DEF Outcomes, LabelOf
    <3> QED
      BY <3>1, <3>2, <3>3, <3>4
  <2> QED
    BY <2>2, <2>3
<1> QED
  BY <1>1, Invariant, PTL

=============================================================================
