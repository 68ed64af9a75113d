-------------------------- MODULE RequestPipeline --------------------------
(***************************************************************************)
(* One chat completion through the gateway: ServeHTTP                      *)
(* (internal/proxy/handler.go:61-339) with ExecuteWithRetry                *)
(* (internal/proxy/retry.go), for requests that run concurrently and meet  *)
(* in the response cache.                                                  *)
(*                                                                         *)
(* The components around it appear by what they may do: the bucket admits  *)
(* or not (TokenBucket), the engine returns any result (PolicyEngine), the *)
(* cache may forget a key at any time (CacheContract).  The upstream, the  *)
(* network and net/http are external: an attempt may fail before or after  *)
(* the upstream has seen it, which includes the retry whose body was read  *)
(* by the attempt before.  A stream is passed on line by line, of which    *)
(* only the usage is kept.                                                 *)
(***************************************************************************)
EXTENDS Integers, Sequences

CONSTANTS
    Request,     \* requests, each made once
    Payload,     \* request bodies
    Streamed,    \* those with "stream": true
    CacheKey,    \* GenerateKey of each: model, messages, temperature to one
                 \* decimal
    Key,
    None

ASSUME PayloadAssumption ==
    /\ Streamed \subseteq Payload
    /\ CacheKey \in [Payload -> Key]

VARIABLES
    caching,     \* cache.enabled, read at start-up
    cache,       \* what the response cache holds under each key
    phase,       \* new, routed, cache, send, await, answer, stream, done
    payload,     \* of each request
    attempt,     \* of ExecuteWithRetry
    outcome,     \* its result
    ctxDone,     \* the deadline has passed, or the client has gone
    answer,      \* what was written to the client: status and body
    counted,     \* the labels under which RequestTotal was incremented
    spans,       \* the spans collected: their status, and whether with tokens
    metered,     \* how often TokensUsed was incremented, by the usage of the
                 \* answer or as unknown
    calls        \* history: the calls that reached the upstream, each by how it
                 \* ended

control == <<attempt, outcome, ctxDone>>
records == <<answer, counted, spans, metered>>
vars    == <<caching, cache, phase, payload, control, records, calls>>

MaxRetries == 1

Body    == [from : Request, whole : BOOLEAN]
Status  == {"400", "403", "404", "429", "500", "502", "ok", "4xx", "5xx"}
Answer  == [status : Status, body : Body \cup {None}]
Label   == {"400", "403", "429", "200-cache", "ok", "4xx", "5xx", "0"}
Span    == [status : {"ok", "4xx", "5xx"}, tokens : BOOLEAN]
Call    == {"open", "ok", "4xx", "5xx", "error"}

\* A request without a body, a key without an item can be told from those with.
ASSUME NoneAssumption == None \notin Body

Init ==
    /\ caching \in BOOLEAN
    /\ cache = [k \in Key |-> None]
    /\ phase = [r \in Request |-> "new"]
    /\ payload = [r \in Request |-> None]
    /\ attempt = [r \in Request |-> 0]
    /\ outcome = [r \in Request |-> None]
    /\ ctxDone = [r \in Request |-> FALSE]
    /\ answer = [r \in Request |-> None]
    /\ counted = [r \in Request |-> <<>>]
    /\ spans = [r \in Request |-> <<>>]
    /\ metered = [r \in Request |-> 0]
    /\ calls = [r \in Request |-> <<>>]

\* f with v appended to the sequence of r.
Add(f, r, v) == [f EXCEPT ![r] = Append(@, v)]

\* The handler writes its answer and returns.
Finish(r, status, body) ==
    /\ answer' = [answer EXCEPT ![r] = [status |-> status, body |-> body]]
    /\ phase' = [phase EXCEPT ![r] = "done"]

-----------------------------------------------------------------------------

\* Another endpoint, a body that cannot be read or parsed: not counted.
RejectUnparsed(r) ==
    /\ phase[r] = "new"
    /\ \E status \in {"404", "400"} : Finish(r, status, None)
    /\ UNCHANGED <<caching, cache, payload, control, counted, spans, metered, calls>>

\* No model, or one no provider serves: counted.
RejectUnrouted(r) ==
    /\ phase[r] = "new"
    /\ Finish(r, "400", None)
    /\ counted' = Add(counted, r, "400")
    /\ UNCHANGED <<caching, cache, payload, control, spans, metered, calls>>

Route(r) ==
    /\ phase[r] = "new"
    /\ \E p \in Payload : payload' = [payload EXCEPT ![r] = p]
    /\ phase' = [phase EXCEPT ![r] = "routed"]
    /\ UNCHANGED <<caching, cache, control, records, calls>>

\* bucket.Allow returns false.
Throttle(r) ==
    /\ phase[r] = "routed"
    /\ Finish(r, "429", None)
    /\ counted' = Add(counted, r, "429")
    /\ UNCHANGED <<caching, cache, payload, control, spans, metered, calls>>

\* Of what Evaluate may return only block stops the request: alert, downgrade,
\* no match and an error of the engine all let it pass.
Block(r) ==
    /\ phase[r] = "routed"
    /\ Finish(r, "403", None)
    /\ counted' = Add(counted, r, "403")
    /\ UNCHANGED <<caching, cache, payload, control, spans, metered, calls>>

Pass(r) ==
    /\ phase[r] = "routed"
    /\ phase' = [phase EXCEPT ![r] = "cache"]
    /\ UNCHANGED <<caching, cache, payload, control, records, calls>>

MayUseCache(r) == caching /\ payload[r] \notin Streamed

KeyOf(r) == CacheKey[payload[r]]

CacheHit(r) ==
    /\ phase[r] = "cache"
    /\ MayUseCache(r)
    /\ cache[KeyOf(r)] # None
    /\ Finish(r, "ok", cache[KeyOf(r)])
    /\ counted' = Add(counted, r, "200-cache")
    /\ spans' = Add(spans, r, [status |-> "ok", tokens |-> TRUE])
    /\ UNCHANGED <<caching, cache, payload, control, metered, calls>>

PassesCache(r) ==
    /\ phase[r] = "cache"
    /\ MayUseCache(r) => cache[KeyOf(r)] = None

CacheMiss(r) ==
    /\ PassesCache(r)
    /\ phase' = [phase EXCEPT ![r] = "send"]
    /\ UNCHANGED <<caching, cache, payload, control, records, calls>>

\* The base_url of the provider makes no URL.
BuildFails(r) ==
    /\ PassesCache(r)
    /\ Finish(r, "500", None)
    /\ UNCHANGED <<caching, cache, payload, control, counted, spans, metered, calls>>

-----------------------------------------------------------------------------

\* The timeout of the provider, which both attempts and the reading of the body
\* share, or the client closes its connection.
CtxEnds(r) ==
    /\ phase[r] \in {"send", "await", "answer", "stream"}
    /\ ~ctxDone[r]
    /\ ctxDone' = [ctxDone EXCEPT ![r] = TRUE]
    /\ UNCHANGED <<caching, cache, phase, payload, attempt, outcome, records, calls>>

\* The next attempt follows, or the result of this one is returned and counted.
RetryIf(again, r, o) ==
    IF again
      THEN /\ phase' = [phase EXCEPT ![r] = "send"]
           /\ attempt' = [attempt EXCEPT ![r] = @ + 1]
           /\ UNCHANGED <<outcome, counted>>
      ELSE /\ outcome' = [outcome EXCEPT ![r] = o]
           /\ phase' = [phase EXCEPT ![r] = "answer"]
           /\ counted' = Add(counted, r, IF o = "error" THEN "0" ELSE o)
           /\ UNCHANGED attempt

ConcludeRetryAll(r, o) == RetryIf(o # "ok" /\ attempt[r] < MaxRetries, r, o)

ConcludeCounting(r, o) ==
    IF o \in {"5xx", "error"} /\ attempt[r] < MaxRetries
      THEN /\ phase' = [phase EXCEPT ![r] = "send"]
           /\ attempt' = [attempt EXCEPT ![r] = @ + 1]
           /\ counted' = Add(counted, r, IF o = "error" THEN "0" ELSE o)
           /\ UNCHANGED outcome
      ELSE RetryIf(FALSE, r, o)

ConcludeForever(r, o) ==
    IF o = "error" /\ ctxDone[r]
      THEN phase' = [phase EXCEPT ![r] = "send"] /\ UNCHANGED <<attempt, outcome, counted>>
      ELSE RetryIf(o \in {"5xx", "error"} /\ attempt[r] < MaxRetries, r, o)

\* An attempt is over: another after a failure (and a sleep that does not look
\* at the context), as long as there are retries left.
Conclude(r, o) ==
    RetryIf(o \in {"5xx", "error"} /\ attempt[r] < MaxRetries, r, o)

\* client.Do: the request reaches the upstream.
Reach(r) ==
    /\ phase[r] = "send"
    /\ ~ctxDone[r]
    /\ phase' = [phase EXCEPT ![r] = "await"]
    /\ calls' = Add(calls, r, "open")
    /\ UNCHANGED <<caching, cache, payload, control, records>>

Returned(r, o) == calls' = [calls EXCEPT ![r][Len(calls[r])] = o]

\* It does not: refused, the context is done, or the body cannot be sent again.
Unreachable(r) ==
    /\ phase[r] = "send"
    /\ Conclude(r, "error")
    /\ UNCHANGED <<caching, cache, payload, ctxDone, answer, spans, metered, calls>>

\* The upstream answers; the body of a 5xx is drained here.
Respond(r) ==
    /\ phase[r] = "await"
    /\ \E o \in {"ok", "4xx", "5xx"} : Conclude(r, o) /\ Returned(r, o)
    /\ UNCHANGED <<caching, cache, payload, ctxDone, answer, spans, metered>>

\* The connection breaks, or the context ends, before an answer.
Break(r) ==
    /\ phase[r] = "await"
    /\ Conclude(r, "error")
    /\ Returned(r, "error")
    /\ UNCHANGED <<caching, cache, payload, ctxDone, answer, spans, metered>>

-----------------------------------------------------------------------------

BadGateway(r) ==
    /\ phase[r] = "answer"
    /\ outcome[r] = "error"
    /\ Finish(r, "502", None)
    /\ UNCHANGED <<caching, cache, payload, control, counted, spans, metered, calls>>

\* The upstream's status with a body of the gateway's own; what can be read of
\* the upstream's body is recorded.
PassError(r) ==
    /\ phase[r] = "answer"
    /\ outcome[r] \in {"4xx", "5xx"}
    /\ Finish(r, outcome[r], None)
    /\ spans' = Add(spans, r, [status |-> outcome[r], tokens |-> FALSE])
    /\ UNCHANGED <<caching, cache, payload, control, counted, metered, calls>>

Answering(r) == phase[r] = "answer" /\ outcome[r] = "ok"

\* The body is read to its end, written, cached, metered and recorded.
PassWhole(r) ==
    /\ Answering(r)
    /\ payload[r] \notin Streamed
    /\ LET body == [from |-> r, whole |-> TRUE] IN
         /\ Finish(r, "ok", body)
         /\ cache' = IF caching THEN [cache EXCEPT ![KeyOf(r)] = body] ELSE cache
    /\ \E usage \in {0, 1} :
         metered' = [metered EXCEPT ![r] = IF caching THEN usage ELSE 0]
    /\ spans' = Add(spans, r, [status |-> "ok", tokens |-> TRUE])
    /\ UNCHANGED <<caching, payload, control, counted, calls>>

\* Not the code: the error of ReadAll is not looked at.
PassBrokenUnchecked(r) ==
    /\ Answering(r)
    /\ payload[r] \notin Streamed
    /\ LET body == [from |-> r, whole |-> FALSE] IN
         /\ Finish(r, "ok", body)
         /\ cache' = IF caching THEN [cache EXCEPT ![KeyOf(r)] = body] ELSE cache
    /\ spans' = Add(spans, r, [status |-> "ok", tokens |-> FALSE])
    /\ UNCHANGED <<caching, payload, control, counted, metered, calls>>

\* It breaks off after the status has been written: the client gets an empty
\* body and nothing is recorded, or without a cache what there is of it.
PassBroken(r) ==
    /\ Answering(r)
    /\ payload[r] \notin Streamed
    /\ IF caching
         THEN Finish(r, "ok", None) /\ UNCHANGED spans
         ELSE /\ Finish(r, "ok", [from |-> r, whole |-> FALSE])
              /\ spans' = Add(spans, r, [status |-> "ok", tokens |-> FALSE])
    /\ UNCHANGED <<caching, cache, payload, control, counted, metered, calls>>

Streaming(r) ==
    /\ payload[r] \in Streamed
    /\ Answering(r) \/ phase[r] = "stream"

\* Set together with the metrics, and only there.
usageFound(r) == metered[r] > 0

\* Not the code: every usage in the stream is counted.
PassLineCounting(r) ==
    /\ Streaming(r)
    /\ phase' = [phase EXCEPT ![r] = "stream"]
    /\ \E usage \in {0, 1} : metered' = [metered EXCEPT ![r] = @ + usage]
    /\ UNCHANGED <<caching, cache, payload, control, answer, counted, spans, calls>>

\* A line is passed on; the first usage in one is counted.
PassLine(r) ==
    /\ Streaming(r)
    /\ phase' = [phase EXCEPT ![r] = "stream"]
    /\ \E usage \in {0, 1} :
         metered' = [metered EXCEPT ![r] = IF usageFound(r) THEN @ ELSE usage]
    /\ UNCHANGED <<caching, cache, payload, control, answer, counted, spans, calls>>

\* The client has got the lines; the span is collected without them.
FinishStream(r, whole) ==
    /\ Finish(r, "ok", [from |-> r, whole |-> whole])
    /\ spans' = Add(spans, r, [status |-> "ok", tokens |-> FALSE])
    /\ UNCHANGED <<caching, cache, payload, control, counted, calls>>

\* [DONE], or the end of the body, where a last line without its end is not
\* passed on.
EndStream(r) ==
    /\ Streaming(r)
    /\ \E whole \in BOOLEAN : FinishStream(r, whole)
    /\ metered' = [metered EXCEPT ![r] = IF usageFound(r) THEN @ ELSE 1]

\* A read or a write fails; usage in a line that cannot be written is lost.
BreakStream(r) ==
    /\ Streaming(r)
    /\ FinishStream(r, FALSE)
    /\ UNCHANGED metered

\* The cache evicts or expires an item.
Forget(k) ==
    /\ cache[k] # None
    /\ cache' = [cache EXCEPT ![k] = None]
    /\ UNCHANGED <<caching, phase, payload, control, records, calls>>

-----------------------------------------------------------------------------

Arrival(r)  == RejectUnparsed(r) \/ RejectUnrouted(r) \/ Route(r)
Local(r)    == Throttle(r) \/ Block(r) \/ Pass(r) \/ CacheHit(r) \/ CacheMiss(r)
                 \/ BuildFails(r) \/ BadGateway(r)
Upstream(r) == Reach(r) \/ Unreachable(r) \/ Respond(r) \/ Break(r)
Passing(r)  == PassError(r) \/ PassWhole(r) \/ PassBroken(r)
                 \/ EndStream(r) \/ BreakStream(r)

Next ==
    \/ \E r \in Request :
         \/ Arrival(r) \/ Local(r) \/ CtxEnds(r) \/ Upstream(r)
         \/ PassLine(r) \/ Passing(r)
    \/ \E k \in Key : Forget(k)

\* The handler runs on and its deadline passes.  The network and the upstream
\* may leave a call or a body without an end, but net/http returns from both
\* when the context ends.
Fairness ==
    \A r \in Request :
        /\ WF_vars(Local(r))
        /\ WF_vars(CtxEnds(r))
        /\ WF_vars(ctxDone[r] /\ (Upstream(r) \/ Passing(r)))

Spec == Init /\ [][Next]_vars /\ Fairness

-----------------------------------------------------------------------------

\* Types of the variables.
TypeOK ==
    /\ caching \in BOOLEAN
    /\ cache \in [Key -> Body \cup {None}]
    /\ phase \in [Request -> {"new", "routed", "cache", "send", "await",
                              "answer", "stream", "done"}]
    /\ payload \in [Request -> Payload \cup {None}]
    /\ attempt \in [Request -> 0..MaxRetries]
    /\ outcome \in [Request -> {None, "ok", "4xx", "5xx", "error"}]
    /\ ctxDone \in [Request -> BOOLEAN]
    /\ answer \in [Request -> Answer \cup {None}]
    /\ counted \in [Request -> Seq(Label)]
    /\ spans \in [Request -> Seq(Span)]
    /\ metered \in [Request -> Nat]
    /\ calls \in [Request -> Seq(Call)]

\* Whatever lies in the cache, and whatever a request is given from it, is a
\* whole answer the upstream gave to a request that was not streamed and has
\* the same key, however the misses and sets of concurrent requests interleave
\* and wherever an upstream body breaks off (handler.go:143-160, 245-258).
SharedAnswersWhole ==
    LET Shareable(b, k) ==
            /\ b.whole
            /\ payload[b.from] \notin Streamed
            /\ CacheKey[payload[b.from]] = k
    IN  /\ \A k \in Key : cache[k] # None => Shareable(cache[k], k)
        /\ \A r \in Request :
             answer[r] # None /\ answer[r].body # None =>
                 answer[r].body.from = r \/ Shareable(answer[r].body, KeyOf(r))

\* An answer that carries a body or an error of the upstream leaves exactly one
\* span, with the status the client saw, and every other none; however often
\* the upstream was tried, RequestTotal is incremented once for a request that
\* got as far as ExecuteWithRetry, with the label of the last attempt
\* (handler.go:214-270).
AccountedOnce ==
    \A r \in Request : phase[r] = "done" =>
        /\ IF answer[r].body # None \/ answer[r].status \in {"4xx", "5xx"}
             THEN Len(spans[r]) = 1 /\ spans[r][1].status = answer[r].status
             ELSE spans[r] = <<>>
        /\ Len(counted[r]) <= 1
        /\ outcome[r] # None =>
              counted[r] = <<IF outcome[r] = "error" THEN "0" ELSE outcome[r]>>

\* Tokens are counted at most once for a request, and only where the upstream
\* gave an answer: not for one from the cache, nor for an attempt that was
\* repeated.  A stream that was passed on to its end is counted once, with its
\* usage or as unknown, wherever in it the usage is and however often
\* (handler.go:245-339).
MeteredOnce ==
    \A r \in Request :
        /\ metered[r] <= 1
        /\ metered[r] > 0 => outcome[r] = "ok"
        /\ phase[r] = "done" /\ payload[r] \in Streamed =>
              answer[r].body = None \/ ~answer[r].body.whole \/ metered[r] = 1

\* The upstream is called a second time only after a 5xx or a broken
\* connection, never a third time, and not for a request that a policy blocks,
\* the bucket refuses or the cache answers (retry.go:20-48).
RetriedOnlyAfterFailure ==
    \A r \in Request :
        /\ Len(calls[r]) <= MaxRetries + 1
        /\ \A i \in 1..(Len(calls[r]) - 1) : calls[r][i] \in {"5xx", "error"}
        /\ calls[r] # <<>> =>
              counted[r] \notin {<<"403">>, <<"429">>, <<"200-cache">>}

\* Every routed request is answered: by its deadline at the latest, whatever the
\* upstream does (handler.go:177-182, retry.go:20).
EveryRequestAnswered ==
    \A r \in Request : phase[r] = "routed" ~> phase[r] = "done"

=============================================================================
