------------------------------ MODULE SpanTable ------------------------------
(***************************************************************************)
(* The spans table as the console's pages meet it through the gateway      *)
(* (internal/trace/collector.go, internal/storage/sqlite/span_store.go):   *)
(* spans are inserted one by one, at any time after they ended, in any     *)
(* order, and stay.  A column is a function on the spans.                  *)
(*                                                                         *)
(* Spans that start in the same millisecond are left out: SQLite is free   *)
(* in their order.                                                         *)
(***************************************************************************)
EXTENDS Integers, FiniteSets

CONSTANTS
    Span,       \* the spans that may be stored, by span_id
    Trace, Agent, User,
    TraceOf, ParentOf, AgentOf, UserOf, StatusOf,
    Began, Ended,   \* the collector's two readings of the clock
    Ms,         \* readings to a millisecond
    None        \* no parent; nothing there

ASSUME SpanAssumption ==
    /\ IsFiniteSet(Span) /\ None \notin Span \cup Trace
    /\ TraceOf \in [Span -> Trace]
    /\ AgentOf \in [Span -> Agent] /\ UserOf \in [Span -> User]
    /\ StatusOf \in [Span -> {"success", "error"}]
    /\ Ms \in Nat \ {0}
    /\ Began \in [Span -> Nat] /\ Ended \in [Span -> Nat]
    /\ \A s \in Span : Began[s] <= Ended[s]
    /\ \A s, t \in Span : Began[s] \div Ms = Began[t] \div Ms => s = t

\* Start and end are stored as milliseconds, the duration is that of the
\* readings.
Start(s)    == Began[s] \div Ms
End(s)      == Ended[s] \div Ms
Duration(s) == (Ended[s] - Began[s]) \div Ms

VARIABLE stored   \* the spans that have been inserted

SpansOf(t) == {s \in stored : TraceOf[s] = t}

\* The insert of CollectLLMSpan is done.
Store(s) ==
    /\ s \notin stored
    /\ stored' = stored \cup {s}

=============================================================================
