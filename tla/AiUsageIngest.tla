---------------------------- MODULE AiUsageIngest ----------------------------
(***************************************************************************)
(* The write side of the AI usage ledger: the OTLP endpoint the gateway    *)
(* exports to, the JetStream stream it publishes into, and the durable     *)
(* consumer that writes to Postgres.  Source: platform-api/internal/       *)
(* modules/aiusage/internal/ingest/receiver.go, stream.go, writer.go.      *)
(*                                                                         *)
(* The gateway, JetStream and Postgres are external: they are modelled by  *)
(* what the code asks of them (deduplication by message id within a        *)
(* window, an explicit ack, a bounded number of deliveries, a primary key, *)
(* transactions).  During a deployment two writers share the durable.      *)
(* MaxAge and DiscardOld, which drop what the stream has held for 72       *)
(* hours, are left out: while the writers work, a message is acknowledged  *)
(* or out of deliveries long before.                                       *)
(***************************************************************************)
EXTENDS Naturals, FiniteSets, Sequences

CONSTANTS
    Spans,          \* span ids
    Buckets,        \* rows of ai_usage_hourly: an hour of one product and model
    BucketOf,       \* the bucket of each span
    Batches,        \* exports of the gateway: sequences of spans
    Writers,        \* processes that consume
    MaxDeliver,     \* deliveries of a message, five in the code
    MaxMessages,    \* messages the stream ever holds (a bound)
    MaxRetries,     \* times the gateway sends a batch again (a bound)
    Null

ASSUME IngestAssumption ==
    /\ MaxDeliver \in Nat \ {0}
    /\ MaxMessages \in Nat
    /\ MaxRetries \in Nat
    /\ BucketOf \in [Spans -> Buckets]
    /\ Batches \subseteq Seq(Spans)
    /\ Null \notin Spans \cup Buckets \cup Writers

VARIABLES
    export,     \* each batch: how far it is, how often it was sent again
    stream,     \* the messages, in order: [span, deliveries, acked]
    window,     \* span ids published within the duplicate window
    writer,     \* what each writer is doing
    events,     \* ai_usage_events: the span ids with a row
    hourly,     \* ai_usage_hourly.requests of each bucket
    database    \* is Postgres up

vars == <<export, stream, window, writer, events, hourly, database>>

Message == [span : Spans, deliveries : 0..MaxDeliver, acked : BOOLEAN]
Messages == DOMAIN stream

Export == [at : {"idle", "sending", "refused", "accepted", "abandoned"},
           published : Nat, retries : 0..MaxRetries]

\* idle, or at a step of Consume's callback on a message:
\*   received: before the transaction;  inserted: the event row is written;
\*   counted: so is the bucket, if the row was new;  stored: before the ack.
Writer ==
    [at : {"idle"}]
    \cup [at : {"received", "inserted", "stored"}, message : 1..MaxMessages]
    \cup [at : {"counted"}, message : 1..MaxMessages, new : BOOLEAN]

Idle == [at |-> "idle"]
Is(w, step) == writer[w].at = step
SpanOf(w) == stream[writer[w].message].span
Become(w, record) == writer' = [writer EXCEPT ![w] = record]
At(w, step) == Become(w, [at |-> step, message |-> writer[w].message])
Counted(w, new) ==
    Become(w, [at |-> "counted", message |-> writer[w].message, new |-> new])

(***************************************************************************)
(* The receiver                                                            *)
(***************************************************************************)

\* The gateway sends a batch, for the first time or after a 503 or no answer.
Send(b) ==
    /\ \/ export[b].at = "idle"
       \/ export[b].at = "refused" /\ export[b].retries < MaxRetries
    /\ export' = [export EXCEPT ![b] =
          [at |-> "sending", published |-> 0,
           retries |-> IF @.at = "idle" THEN 0 ELSE @.retries + 1]]
    /\ UNCHANGED <<stream, window, writer, events, hourly, database>>

\* JetStream acknowledges a message id it has seen within the window without
\* storing it again.
Stored(span) ==
    /\ stream' = IF span \in window THEN stream
                 ELSE Append(stream, [span |-> span, deliveries |-> 0, acked |-> FALSE])
    /\ window' = window \cup {span}

\* A bound of the model: the stream itself limits the age of its messages only.
RoomFor(span) == span \in window \/ Len(stream) < MaxMessages

\* serveTraces publishes the records of the batch one after another.
Publish(b) ==
    LET span == b[export[b].published + 1] IN
    /\ export[b].at = "sending"
    /\ export[b].published < Len(b)
    /\ RoomFor(span)
    /\ Stored(span)
    /\ export' = [export EXCEPT ![b].published = @ + 1]
    /\ UNCHANGED <<writer, events, hourly, database>>

\* A publish fails, before or after the stream has the message: 503.  So do a
\* receiver that stops and an answer that is lost.
PublishFails(b) ==
    /\ export[b].at = "sending"
    /\ \/ UNCHANGED <<stream, window>>
       \/ /\ export[b].published < Len(b)
          /\ RoomFor(b[export[b].published + 1])
          /\ Stored(b[export[b].published + 1])
    /\ export' = [export EXCEPT ![b].at = "refused"]
    /\ UNCHANGED <<writer, events, hourly, database>>

Accept(b) ==
    /\ export[b].at = "sending"
    /\ export[b].published = Len(b)
    /\ export' = [export EXCEPT ![b].at = "accepted"]
    /\ UNCHANGED <<stream, window, writer, events, hourly, database>>

GiveUpBatch(b) ==
    /\ export[b].at = "refused"
    /\ export' = [export EXCEPT ![b].at = "abandoned"]
    /\ UNCHANGED <<stream, window, writer, events, hourly, database>>

\* Ten minutes later the stream no longer knows the id.
WindowPasses(span) ==
    /\ span \in window
    /\ window' = window \ {span}
    /\ UNCHANGED <<export, stream, writer, events, hourly, database>>

(***************************************************************************)
(* The consumer                                                            *)
(***************************************************************************)
DeliverableUnbounded(m) == ~stream[m].acked

Deliverable(m) == ~stream[m].acked /\ stream[m].deliveries < MaxDeliver

\* A message is delivered for the first time, in the order of the stream; then
\* after a Nak, or when AckWait has passed without an ack -- while an earlier
\* delivery may still be handled.
Deliver(w, m) ==
    /\ Is(w, "idle")
    /\ Deliverable(m)
    /\ \A earlier \in 1..m - 1 : stream[earlier].deliveries > 0
    /\ stream' = [stream EXCEPT ![m].deliveries = @ + 1]
    /\ Become(w, [at |-> "received", message |-> m])
    /\ UNCHANGED <<export, window, events, hourly, database>>

\* A row inserted and not committed makes another INSERT of the key wait.
IsNew(w) == Is(w, "inserted") \/ (Is(w, "counted") /\ writer[w].new)
RowFreeAlways(w) == TRUE

RowFree(w) == \A v \in Writers \ {w} : IsNew(v) => SpanOf(v) # SpanOf(w)

\* INSERT ... ON CONFLICT (span_id) DO NOTHING: only a row that is new counts.
InsertEvent(w) ==
    /\ Is(w, "received")
    /\ database
    /\ RowFree(w)
    /\ IF SpanOf(w) \in events THEN Counted(w, FALSE) ELSE At(w, "inserted")
    /\ UNCHANGED <<export, stream, window, events, hourly, database>>

\* The upsert of the bucket waits for another transaction's, until its COMMIT.
BucketFree(w) ==
    \A v \in Writers \ {w} :
        Is(v, "counted") /\ writer[v].new => BucketOf[SpanOf(v)] # BucketOf[SpanOf(w)]

UpsertHourly(w) ==
    /\ Is(w, "inserted")
    /\ database
    /\ BucketFree(w)
    /\ Counted(w, TRUE)
    /\ UNCHANGED <<export, stream, window, events, hourly, database>>

Lands(w) ==
    /\ events' = events \cup {SpanOf(w)}
    /\ hourly' = IF writer[w].new
                 THEN [hourly EXCEPT ![BucketOf[SpanOf(w)]] = @ + 1] ELSE hourly

CommitEvent(w) ==
    /\ Is(w, "counted")
    /\ database
    /\ Lands(w)
    /\ At(w, "stored")
    /\ UNCHANGED <<export, stream, window, database>>
WriteFailsAcked(w) ==
    /\ writer[w].at \in {"received", "inserted", "counted"}
    /\ ~database
    /\ stream' = [stream EXCEPT ![writer[w].message].acked = TRUE]
    /\ Become(w, Idle)
    /\ UNCHANGED <<export, window, events, hourly, database>>

\* Postgres is away: Write returns its error, and the message is nak'd.
WriteFails(w) ==
    /\ writer[w].at \in {"received", "inserted", "counted"}
    /\ ~database
    /\ Become(w, Idle)
    /\ UNCHANGED <<export, stream, window, events, hourly, database>>

\* Postgres goes away with its answer to the COMMIT: nak'd as well.
CommitUnanswered(w) ==
    /\ Is(w, "counted")
    /\ database
    /\ Lands(w)
    /\ database' = FALSE
    /\ Become(w, Idle)
    /\ UNCHANGED <<export, stream, window>>

Ack(w) ==
    /\ Is(w, "stored")
    /\ stream' = [stream EXCEPT ![writer[w].message].acked = TRUE]
    /\ Become(w, Idle)
    /\ UNCHANGED <<export, window, events, hourly, database>>

\* The process stops, or its ack is lost: Postgres rolls back what was not
\* committed, AckWait redelivers.
CrashWriter(w) ==
    /\ ~Is(w, "idle")
    /\ Become(w, Idle)
    /\ UNCHANGED <<export, stream, window, events, hourly, database>>

DatabaseFails ==
    /\ database
    /\ database' = FALSE
    /\ UNCHANGED <<export, stream, window, writer, events, hourly>>

DatabaseReturns ==
    /\ ~database
    /\ database' = TRUE
    /\ UNCHANGED <<export, stream, window, writer, events, hourly>>

(***************************************************************************)
(* The specification                                                       *)
(***************************************************************************)

Init ==
    /\ export = [b \in Batches |-> [at |-> "idle", published |-> 0, retries |-> 0]]
    /\ stream = <<>>
    /\ window = {}
    /\ writer = [w \in Writers |-> Idle]
    /\ events = {}
    /\ hourly = [b \in Buckets |-> 0]
    /\ database = TRUE

Receive(b) ==
    Send(b) \/ Publish(b) \/ PublishFails(b) \/ Accept(b) \/ GiveUpBatch(b)

Write(w) ==
    \/ InsertEvent(w) \/ UpsertHourly(w) \/ CommitEvent(w)
    \/ WriteFails(w) \/ Ack(w)

DeliverNext(w) == \E m \in Messages : Deliver(w, m)

Next ==
    \/ \E b \in Batches : Receive(b)
    \/ \E span \in Spans : WindowPasses(span)
    \/ \E w \in Writers :
          Write(w) \/ CommitUnanswered(w) \/ CrashWriter(w) \/ DeliverNext(w)
    \/ DatabaseFails
    \/ DatabaseReturns

\* A writer goes on with the message it has, the stream goes on delivering, and
\* Postgres does not stay away for ever.
Fairness ==
    /\ \A w \in Writers : WF_vars(Write(w)) /\ WF_vars(DeliverNext(w))
    /\ WF_vars(DatabaseReturns)

Spec == Init /\ [][Next]_vars /\ Fairness

(***************************************************************************)
(* What should hold                                                        *)
(***************************************************************************)

\* Every variable stays in its set.
TypeOK ==
    /\ export \in [Batches -> Export]
    /\ Len(stream) <= MaxMessages
    /\ \A m \in Messages : stream[m] \in Message
    /\ window \subseteq Spans
    /\ writer \in [Writers -> Writer]
    /\ events \subseteq Spans
    /\ hourly \in [Buckets -> Nat]
    /\ database \in BOOLEAN

\* A rollup counts the requests the events table has, no more and no fewer,
\* however often a span is exported, published and delivered, and whichever
\* commit, ack or process is lost (writer.go: the invariant the whole surface
\* rests on).
RollupCountsEvents ==
    \A b \in Buckets : hourly[b] = Cardinality({s \in events : BucketOf[s] = b})

\* A message is acknowledged only when its span is in the ledger: an ack that
\* came first would lose the span with the next crash.
AckedIsRecorded ==
    \A m \in Messages : stream[m].acked => stream[m].span \in events

Exhausted(span) ==
    \E m \in Messages :
        stream[m].span = span /\ ~stream[m].acked /\ stream[m].deliveries = MaxDeliver

\* Every span of an accepted batch reaches the ledger, unless all the
\* deliveries of its message were used up.
AcceptedIsCounted ==
    \A b \in Batches, span \in Spans :
        (export[b].at = "accepted" /\ \E i \in DOMAIN b : b[i] = span)
            ~> (span \in events \/ Exhausted(span))

\* Every span of an accepted batch reaches the ledger, since outages end: the
\* stream lets the writer fall behind and catch up (stream.go).
OutagesLoseNothing ==
    \A b \in Batches, span \in Spans :
        (export[b].at = "accepted" /\ \E i \in DOMAIN b : b[i] = span)
            ~> (span \in events)
=============================================================================
