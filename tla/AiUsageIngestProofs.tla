------------------------ MODULE AiUsageIngestProofs ------------------------
(***************************************************************************)
(* Proofs about the ingest of AI usage: types, the rollup, and the ack, for *)
(* any spans, buckets, batches, writers and bounds.                        *)
(*                                                                         *)
(* The rollup is a count kept beside the events it counts.  It stays right *)
(* because a transaction adds one to a bucket exactly when it has inserted *)
(* the event, and because the primary key lets one transaction at a time   *)
(* have an uncommitted row of a span (OneInserter).                        *)
(***************************************************************************)
EXTENDS AiUsageIngest, FiniteSetTheorems, TLAPS

\* A writer handles a message the stream has.
Handled == \A w \in Writers : ~Is(w, "idle") => writer[w].message \in DOMAIN stream

\* What a writer's place says of the events table.
PlaceInv ==
    \A w \in Writers :
        /\ IsNew(w) => SpanOf(w) \notin events
        /\ Is(w, "counted") /\ ~writer[w].new => SpanOf(w) \in events
        /\ Is(w, "stored") => SpanOf(w) \in events

OneInserter ==
    \A v, w \in Writers : v # w /\ IsNew(v) /\ IsNew(w) => SpanOf(v) # SpanOf(w)

Inv ==
    /\ TypeOK
    /\ stream \in Seq(Message)
    /\ Handled
    /\ PlaceInv
    /\ OneInserter
    /\ AckedIsRecorded
    /\ IsFiniteSet(events)
    /\ RollupCountsEvents

LEMMA InitInv == Init => Inv
<1> SUFFICES ASSUME Init PROVE Inv
  OBVIOUS
<1> USE IngestAssumption DEF Init
<1>1. TypeOK /\ stream \in Seq(Message)
  BY DEF TypeOK, Export, Messages, Writer, Idle
<1>2. Handled /\ PlaceInv /\ OneInserter /\ AckedIsRecorded
  BY DEF Handled, PlaceInv, OneInserter, AckedIsRecorded, Is, IsNew, Idle, Messages
<1>3. IsFiniteSet(events) /\ RollupCountsEvents
  <2>1. \A b \in Buckets : {s \in events : BucketOf[s] = b} = {}
    OBVIOUS
  <2> QED
    BY <2>1, FS_EmptySet DEF RollupCountsEvents
<1> QED
  BY <1>1, <1>2, <1>3 DEF Inv

\* Every event is in one bucket, and a new one makes that bucket's count grow.
LEMMA BucketCount ==
    ASSUME IsFiniteSet(events), NEW span \in Spans, NEW b \in Buckets
    PROVE  Cardinality({s \in events \cup {span} : BucketOf[s] = b}) =
              IF BucketOf[span] = b /\ span \notin events
              THEN Cardinality({s \in events : BucketOf[s] = b}) + 1
              ELSE Cardinality({s \in events : BucketOf[s] = b})
<1> DEFINE old == {s \in events : BucketOf[s] = b}
           new == {s \in events \cup {span} : BucketOf[s] = b}
<1>1. IsFiniteSet(old)
  BY FS_Subset
<1>2. CASE BucketOf[span] = b /\ span \notin events
  <2>1. new = old \cup {span} /\ span \notin old
    BY <1>2
  <2> QED
    BY <1>1, <1>2, <2>1, FS_AddElement
<1>3. CASE ~(BucketOf[span] = b /\ span \notin events)
  <2>1. new = old
    BY <1>3
  <2> QED
    BY <1>3, <2>1
<1> QED
  BY <1>2, <1>3

\* Steps that leave the writers and the ledger alone, and keep or extend the
\* stream without a change to what it has.
LEMMA StreamStep ==
    ASSUME Inv, stream' \in Seq(Message), Len(stream') <= MaxMessages,
           \A m \in DOMAIN stream :
              /\ m \in DOMAIN stream'
              /\ stream'[m].span = stream[m].span
              /\ stream'[m].acked = stream[m].acked,
           \A m \in DOMAIN stream' \ DOMAIN stream : ~stream'[m].acked,
           UNCHANGED <<writer, events, hourly>>,
           export' \in [Batches -> Export], window' \subseteq Spans, database' \in BOOLEAN
    PROVE  Inv'
<1> USE DEF Inv, TypeOK
<1>1. TypeOK' /\ stream' \in Seq(Message)
  BY DEF Messages
<1>2. \A w \in Writers : ~Is(w, "idle") => SpanOf(w)' = SpanOf(w)
  BY DEF Handled, SpanOf
<1>3. \A w \in Writers : IsNew(w) => ~Is(w, "idle")
  BY DEF IsNew, Is
<1>4. Handled'
  BY DEF Handled, Is
<1>5. PlaceInv'
  BY <1>2 DEF PlaceInv, IsNew, Is
<1>6. OneInserter'
  BY <1>2, <1>3 DEF OneInserter, IsNew, Is
<1>7. AckedIsRecorded'
  BY DEF AckedIsRecorded, Messages
<1>8. IsFiniteSet(events)' /\ RollupCountsEvents'
  BY DEF RollupCountsEvents
<1> QED
  BY <1>1, <1>4, <1>5, <1>6, <1>7, <1>8

\* What the stream does with a message it is given.
LEMMA StoredStep ==
    ASSUME Inv, NEW span \in Spans, RoomFor(span), Stored(span)
    PROVE  /\ stream' \in Seq(Message) /\ Len(stream') <= MaxMessages
           /\ \A m \in DOMAIN stream :
                 /\ m \in DOMAIN stream'
                 /\ stream'[m] = stream[m]
           /\ \A m \in DOMAIN stream' \ DOMAIN stream : ~stream'[m].acked
           /\ window' \subseteq Spans
<1> DEFINE message == [span |-> span, deliveries |-> 0, acked |-> FALSE]
<1>1. message \in Message /\ ~message.acked
  BY IngestAssumption DEF Message
<1>2. window' \subseteq Spans
  BY DEF Stored, Inv, TypeOK
<1>3. CASE span \in window
  BY <1>2, <1>3 DEF Stored, Inv, TypeOK
<1>4. CASE span \notin window
  <2>1. stream' = Append(stream, message) /\ stream \in Seq(Message)
    BY <1>4 DEF Stored, Inv
  <2>2. Len(stream) < MaxMessages /\ Len(stream) \in Nat /\ MaxMessages \in Nat
    BY <1>4, <2>1, IngestAssumption DEF RoomFor
  <2>3. /\ stream' \in Seq(Message) /\ Len(stream') = Len(stream) + 1
        /\ DOMAIN stream' = 1..Len(stream) + 1 /\ DOMAIN stream = 1..Len(stream)
        /\ \A m \in DOMAIN stream : stream'[m] = stream[m]
        /\ stream'[Len(stream) + 1] = message
    BY <1>1, <2>1
  <2>4. \A m \in DOMAIN stream' \ DOMAIN stream : m = Len(stream) + 1
    BY <2>2, <2>3
  <2> QED
    BY <1>1, <1>2, <2>2, <2>3, <2>4
<1> QED
  BY <1>3, <1>4

LEMMA ReceiveInv ==
    ASSUME Inv, NEW b \in Batches, Receive(b)
    PROVE  Inv'
<1> USE IngestAssumption
<1>0. /\ export[b] \in Export /\ b \in Seq(Spans)
      /\ stream \in Seq(Message) /\ Len(stream) <= MaxMessages
      /\ window \subseteq Spans /\ database \in BOOLEAN
      /\ export \in [Batches -> Export]
  BY DEF Inv, TypeOK
<1>1. CASE Send(b)
  <2>1. export' \in [Batches -> Export]
    BY <1>0, <1>1 DEF Send, Export
  <2> QED
    BY <1>0, <1>1, <2>1, StreamStep DEF Send
<1>2. CASE Publish(b)
  <2>1. b[export[b].published + 1] \in Spans
    <3>1. export[b].published \in Nat /\ export[b].published < Len(b)
      BY <1>0, <1>2 DEF Publish, Export
    <3> QED
      BY <1>0, <3>1
  <2>2. export' \in [Batches -> Export]
    <3>1. export[b].published + 1 \in Nat
      BY <1>0 DEF Export
    <3>2. \A n \in Nat : [export[b] EXCEPT !.published = n] \in Export
      BY <1>0 DEF Export
    <3>3. [export[b] EXCEPT !.published = export[b].published + 1] \in Export
      BY <3>1, <3>2
    <3> QED
      BY <1>0, <1>2, <3>3 DEF Publish
  <2> QED
    BY <1>0, <1>2, <2>1, <2>2, StoredStep, StreamStep DEF Publish
<1>3. CASE PublishFails(b)
  <2>1. export' \in [Batches -> Export]
    <3>1. [export[b] EXCEPT !.at = "refused"] \in Export
      BY <1>0 DEF Export
    <3> QED
      BY <1>0, <1>3, <3>1 DEF PublishFails
  <2>2. CASE UNCHANGED <<stream, window>>
    BY <1>0, <1>3, <2>1, <2>2, StreamStep DEF PublishFails
  <2>3. CASE ~UNCHANGED <<stream, window>>
    <3>1. b[export[b].published + 1] \in Spans
      BY <1>0, <1>3, <2>3 DEF PublishFails, Export
    <3> QED
      BY <1>0, <1>3, <2>1, <2>3, <3>1, StoredStep, StreamStep DEF PublishFails
  <2> QED
    BY <2>2, <2>3
<1>4. CASE Accept(b) \/ GiveUpBatch(b)
  <2>1. export' \in [Batches -> Export]
    <3>1. \A place \in {"accepted", "abandoned"} :
             [export[b] EXCEPT !.at = place] \in Export
      BY <1>0 DEF Export
    <3> QED
      BY <1>0, <1>4, <3>1 DEF Accept, GiveUpBatch
  <2> QED
    BY <1>0, <1>4, <2>1, StreamStep DEF Accept, GiveUpBatch
<1> QED
  BY <1>1, <1>2, <1>3, <1>4 DEF Receive

--------------------------------------------------------------------------------
(* The writers.                                                                 *)

\* The step of one writer that leaves events and hourly as they are.
LEMMA PlaceStep ==
    ASSUME Inv, NEW w \in Writers, NEW record \in Writer, Become(w, record),
           record.at # "idle" =>
              record.message \in DOMAIN stream,
           stream' \in Seq(Message), Len(stream') = Len(stream),
           \A m \in DOMAIN stream :
              /\ stream'[m].span = stream[m].span
              /\ stream'[m].acked => stream[m].acked \/ stream[m].span \in events,
           UNCHANGED <<export, window, events, hourly>>, database' \in BOOLEAN,
           IsNew(w)' => SpanOf(w)' \notin events,
           Is(w, "counted")' /\ ~writer'[w].new => SpanOf(w)' \in events,
           Is(w, "stored")' => SpanOf(w)' \in events,
           \A v \in Writers \ {w} : IsNew(w)' /\ IsNew(v) => SpanOf(w)' # SpanOf(v)
    PROVE  Inv'
<1> USE DEF Inv, TypeOK
<1>0. /\ writer' = [writer EXCEPT ![w] = record] /\ writer'[w] = record
      /\ \A v \in Writers \ {w} : writer'[v] = writer[v]
      /\ DOMAIN stream' = DOMAIN stream
  BY DEF Become
<1>1. TypeOK' /\ stream' \in Seq(Message)
  <2>1. writer' \in [Writers -> Writer]
    BY <1>0
  <2>2. \A m \in DOMAIN stream' : stream'[m] \in Message
    OBVIOUS
  <2>3. Len(stream') <= MaxMessages
    OBVIOUS
  <2> QED
    BY <2>1, <2>2, <2>3 DEF Messages
<1>2. Handled'
  BY <1>0 DEF Handled, Is
<1>3. \A v \in Writers \ {w} : ~Is(v, "idle") => SpanOf(v)' = SpanOf(v)
  BY <1>0 DEF Handled, SpanOf
<1>4. \A v \in Writers \ {w} : /\ IsNew(v)' <=> IsNew(v)
                               /\ IsNew(v) => ~Is(v, "idle")
  BY <1>0 DEF IsNew, Is
<1>5. PlaceInv'
  <2>1. ASSUME NEW v \in Writers \ {w}
        PROVE  /\ IsNew(v)' => SpanOf(v)' \notin events
               /\ Is(v, "counted")' /\ ~writer'[v].new => SpanOf(v)' \in events
               /\ Is(v, "stored")' => SpanOf(v)' \in events
    BY <1>0, <1>3, <1>4 DEF PlaceInv, Is
  <2> QED
    BY <2>1 DEF PlaceInv
<1>6. OneInserter'
  BY <1>3, <1>4 DEF OneInserter
<1>7. AckedIsRecorded'
  BY <1>0 DEF AckedIsRecorded, Messages
<1>8. IsFiniteSet(events)' /\ RollupCountsEvents'
  BY DEF RollupCountsEvents
<1> QED
  BY <1>1, <1>2, <1>5, <1>6, <1>7, <1>8

LEMMA SpanType ==
    ASSUME Inv, NEW w \in Writers, ~Is(w, "idle")
    PROVE  /\ writer[w] \in Writer /\ writer[w].message \in DOMAIN stream
           /\ writer[w].message \in 1..MaxMessages
           /\ SpanOf(w) \in Spans /\ stream[writer[w].message] \in Message
<1>1. writer[w] \in Writer /\ writer[w].message \in DOMAIN stream
  BY DEF Inv, TypeOK, Handled
<1>2. /\ stream \in Seq(Message) /\ Len(stream) \in Nat /\ Len(stream) <= MaxMessages
      /\ DOMAIN stream = 1..Len(stream)
  BY DEF Inv, TypeOK
<1>3. writer[w].message \in 1..MaxMessages
  BY <1>1, <1>2, IngestAssumption
<1>4. stream[writer[w].message] \in Message
  BY <1>1, <1>2
<1> QED
  BY <1>1, <1>3, <1>4 DEF SpanOf, Message

LEMMA DeliverInv ==
    ASSUME Inv, NEW w \in Writers, NEW m \in Messages, Deliver(w, m)
    PROVE  Inv'
<1> DEFINE record == [at |-> "received", message |-> m]
<1>0. /\ stream \in Seq(Message) /\ Len(stream) <= MaxMessages /\ stream[m] \in Message
      /\ m \in DOMAIN stream /\ database \in BOOLEAN /\ Len(stream) \in Nat
      /\ DOMAIN stream = 1..Len(stream)
  BY DEF Inv, TypeOK, Messages
<1>1. record \in Writer
  BY <1>0, IngestAssumption DEF Writer
<1>2. [stream[m] EXCEPT !.deliveries = stream[m].deliveries + 1] \in Message
  BY <1>0, IngestAssumption DEF Message, Deliver, Deliverable
<1>3. /\ stream' \in Seq(Message) /\ Len(stream') = Len(stream)
      /\ \A i \in DOMAIN stream :
            /\ stream'[i].span = stream[i].span
            /\ stream'[i].acked = stream[i].acked
  <2>1. stream' = [stream EXCEPT ![m] = [stream[m] EXCEPT !.deliveries = stream[m].deliveries + 1]]
    BY DEF Deliver
  <2>2. /\ [stream[m] EXCEPT !.deliveries = stream[m].deliveries + 1].span = stream[m].span
        /\ [stream[m] EXCEPT !.deliveries = stream[m].deliveries + 1].acked = stream[m].acked
    BY <1>0 DEF Message
  <2> QED
    BY <1>0, <1>2, <2>1, <2>2
<1>4. Become(w, record) /\ writer'[w] = record
  BY DEF Deliver, Become, Inv, TypeOK
<1>5. ~IsNew(w)' /\ ~Is(w, "counted")' /\ ~Is(w, "stored")'
  BY <1>4 DEF IsNew, Is
<1> QED
  BY <1>0, <1>1, <1>3, <1>4, <1>5, PlaceStep DEF Deliver

LEMMA IdleStepInv ==
    ASSUME Inv, NEW w \in Writers, Become(w, Idle), database' \in BOOLEAN,
           UNCHANGED <<export, stream, window, events, hourly>>
    PROVE  Inv'
<1>1. Idle \in Writer /\ Idle.at = "idle"
  BY DEF Idle, Writer
<1>2. writer'[w] = Idle
  BY DEF Become, Inv, TypeOK
<1>3. ~IsNew(w)' /\ ~Is(w, "counted")' /\ ~Is(w, "stored")'
  BY <1>1, <1>2 DEF IsNew, Is
<1>4. stream \in Seq(Message)
  BY DEF Inv
<1> QED
  BY <1>1, <1>3, <1>4, PlaceStep

LEMMA AckInv ==
    ASSUME Inv, NEW w \in Writers, Ack(w)
    PROVE  Inv'
<1> DEFINE m == writer[w].message
<1>0. /\ m \in DOMAIN stream /\ stream[m] \in Message /\ stream \in Seq(Message)
      /\ stream[m].span \in events /\ database \in BOOLEAN
  BY SpanType DEF Ack, Inv, TypeOK, PlaceInv, SpanOf, Is
<1>1. Idle \in Writer /\ Idle.at = "idle"
  BY DEF Idle, Writer
<1>2. [stream[m] EXCEPT !.acked = TRUE] \in Message
  BY <1>0 DEF Message
<1>3. /\ stream' \in Seq(Message) /\ Len(stream') = Len(stream)
      /\ \A i \in DOMAIN stream :
            /\ stream'[i].span = stream[i].span
            /\ stream'[i].acked => stream[i].acked \/ stream[i].span \in events
  <2>1. stream' = [stream EXCEPT ![m] = [stream[m] EXCEPT !.acked = TRUE]]
    BY DEF Ack
  <2>2. [stream[m] EXCEPT !.acked = TRUE].span = stream[m].span
    BY <1>0 DEF Message
  <2> QED
    BY <1>0, <1>2, <2>1, <2>2
<1>4. Become(w, Idle) /\ writer'[w] = Idle
  BY DEF Ack, Become, Inv, TypeOK
<1>5. ~IsNew(w)' /\ ~Is(w, "counted")' /\ ~Is(w, "stored")'
  BY <1>1, <1>4 DEF IsNew, Is
<1> QED
  BY <1>0, <1>1, <1>3, <1>4, <1>5, PlaceStep DEF Ack

LEMMA InsertEventInv ==
    ASSUME Inv, NEW w \in Writers, InsertEvent(w)
    PROVE  Inv'
<1> DEFINE m == writer[w].message
<1>0. /\ m \in DOMAIN stream /\ m \in 1..MaxMessages /\ stream \in Seq(Message)
      /\ database \in BOOLEAN /\ SpanOf(w) = stream[m].span
  BY SpanType DEF InsertEvent, Inv, TypeOK, Is, SpanOf
<1>1. CASE SpanOf(w) \in events
  <2> DEFINE record == [at |-> "counted", message |-> m, new |-> FALSE]
  <2>1. record \in Writer /\ Become(w, record)
    BY <1>0, <1>1 DEF Writer, InsertEvent, Counted
  <2>2. writer'[w] = record
    BY <2>1 DEF Become, Inv, TypeOK
  <2>3. SpanOf(w)' = SpanOf(w) /\ ~IsNew(w)' /\ ~Is(w, "stored")'
    BY <2>2 DEF SpanOf, IsNew, Is, InsertEvent
  <2> QED
    BY <1>0, <1>1, <2>1, <2>2, <2>3, PlaceStep DEF InsertEvent
<1>2. CASE SpanOf(w) \notin events
  <2> DEFINE record == [at |-> "inserted", message |-> m]
  <2>1. record \in Writer /\ Become(w, record)
    BY <1>0, <1>2 DEF Writer, InsertEvent, At
  <2>2. writer'[w] = record
    BY <2>1 DEF Become, Inv, TypeOK
  <2>3. SpanOf(w)' = SpanOf(w) /\ ~Is(w, "counted")' /\ ~Is(w, "stored")'
    BY <2>2 DEF SpanOf, Is, InsertEvent
  <2>4. \A v \in Writers \ {w} : IsNew(v) => SpanOf(w)' # SpanOf(v)
    BY <2>3 DEF InsertEvent, RowFree
  <2> QED
    BY <1>0, <1>2, <2>1, <2>3, <2>4, PlaceStep DEF InsertEvent
<1> QED
  BY <1>1, <1>2

LEMMA UpsertHourlyInv ==
    ASSUME Inv, NEW w \in Writers, UpsertHourly(w)
    PROVE  Inv'
<1> DEFINE m == writer[w].message
           record == [at |-> "counted", message |-> m, new |-> TRUE]
<1>0. /\ m \in DOMAIN stream /\ m \in 1..MaxMessages /\ stream \in Seq(Message)
      /\ database \in BOOLEAN /\ IsNew(w)
  BY SpanType DEF UpsertHourly, Inv, TypeOK, Is, IsNew
<1>1. record \in Writer /\ Become(w, record)
  BY <1>0 DEF Writer, UpsertHourly, Counted
<1>2. writer'[w] = record
  BY <1>1 DEF Become, Inv, TypeOK
<1>3. SpanOf(w)' = SpanOf(w) /\ ~Is(w, "stored")'
  BY <1>2 DEF SpanOf, Is, UpsertHourly
<1>4. SpanOf(w) \notin events
  BY <1>0 DEF Inv, PlaceInv
<1>5. \A v \in Writers \ {w} : IsNew(v) => SpanOf(w)' # SpanOf(v)
  BY <1>0, <1>3 DEF Inv, OneInserter
<1> QED
  BY <1>0, <1>1, <1>2, <1>3, <1>4, <1>5, PlaceStep DEF UpsertHourly

\* COMMIT: the event and its count become visible together.
LEMMA CommitStep ==
    ASSUME Inv, NEW w \in Writers, Is(w, "counted"), Lands(w),
           \/ At(w, "stored")
           \/ Become(w, Idle),
           UNCHANGED <<export, stream, window>>, database' \in BOOLEAN
    PROVE  Inv'
<1> DEFINE span == SpanOf(w)
<1> USE DEF Inv, TypeOK
<1>0. /\ writer[w] \in Writer /\ span \in Spans /\ writer[w].new \in BOOLEAN
      /\ writer[w].message \in DOMAIN stream /\ writer[w].message \in 1..MaxMessages
      /\ BucketOf \in [Spans -> Buckets]
  BY SpanType, IngestAssumption DEF Is, Writer
<1>1. /\ writer[w].new <=> span \notin events
      /\ events' = events \cup {span}
  BY <1>0 DEF PlaceInv, IsNew, Lands
<1>2. /\ \A v \in Writers \ {w} : writer'[v] = writer[v]
      /\ writer'[w] \in {[at |-> "stored", message |-> writer[w].message], Idle}
      /\ writer' \in [Writers -> Writer]
  <2>1. ASSUME NEW record \in Writer, Become(w, record)
        PROVE  /\ \A v \in Writers \ {w} : writer'[v] = writer[v]
               /\ writer'[w] = record
               /\ writer' \in [Writers -> Writer]
    BY <2>1 DEF Become
  <2>2. [at |-> "stored", message |-> writer[w].message] \in Writer /\ Idle \in Writer
    BY <1>0 DEF Writer, Idle
  <2> QED
    BY <2>1, <2>2 DEF At
<1>3. TypeOK'
  BY <1>0, <1>1, <1>2 DEF Lands, Messages
<1>4. ~IsNew(w)' /\ ~Is(w, "counted")'
  BY <1>2 DEF IsNew, Is, Idle
<1>5. \A v \in Writers \ {w} : ~Is(v, "idle") => SpanOf(v)' = SpanOf(v)
  BY <1>2 DEF SpanOf
<1>6. Is(w, "stored")' => SpanOf(w)' = span
  BY <1>2 DEF Is, SpanOf, Idle
<1>7. Handled'
  <2>1. ~Is(w, "idle")' => writer'[w].message \in DOMAIN stream'
    BY <1>0, <1>2 DEF Is, Idle
  <2>2. \A v \in Writers \ {w} : ~Is(v, "idle")' => writer'[v].message \in DOMAIN stream'
    BY <1>2 DEF Handled, Is
  <2> QED
    BY <2>1, <2>2 DEF Handled
<1>8. \A v \in Writers \ {w} : IsNew(v) => SpanOf(v) \notin events'
  <2> SUFFICES ASSUME NEW v \in Writers \ {w}, IsNew(v) PROVE SpanOf(v) \notin events'
    OBVIOUS
  <2>1. SpanOf(v) \notin events
    BY DEF PlaceInv
  <2>2. SpanOf(v) # span
    <3>1. CASE writer[w].new
      BY <3>1 DEF OneInserter, IsNew
    <3>2. CASE ~writer[w].new
      BY <1>1, <2>1, <3>2
    <3> QED
      BY <3>1, <3>2
  <2> QED
    BY <1>1, <2>1, <2>2
<1>9. PlaceInv'
  <2>1. ASSUME NEW v \in Writers \ {w}
        PROVE  /\ IsNew(v)' => SpanOf(v)' \notin events'
               /\ Is(v, "counted")' /\ ~writer'[v].new => SpanOf(v)' \in events'
               /\ Is(v, "stored")' => SpanOf(v)' \in events'
    BY <1>1, <1>2, <1>5, <1>8 DEF PlaceInv, IsNew, Is
  <2> QED
    BY <1>1, <1>4, <1>6, <2>1 DEF PlaceInv
<1>10. OneInserter'
  BY <1>2, <1>4, <1>5 DEF OneInserter, IsNew, Is
<1>11. AckedIsRecorded'
  BY <1>1 DEF AckedIsRecorded, Messages
<1>12. IsFiniteSet(events)'
  BY <1>1, FS_AddElement
<1>13. RollupCountsEvents'
  <2> SUFFICES ASSUME NEW b \in Buckets
               PROVE  hourly'[b] = Cardinality({s \in events' : BucketOf[s] = b})
    BY DEF RollupCountsEvents
  <2>1. hourly[b] = Cardinality({s \in events : BucketOf[s] = b}) /\ hourly[b] \in Nat
    BY DEF RollupCountsEvents
  <2>2. hourly'[b] = IF BucketOf[span] = b /\ span \notin events
                     THEN hourly[b] + 1 ELSE hourly[b]
    BY <1>0, <1>1 DEF Lands
  <2>3. Cardinality({s \in events \cup {span} : BucketOf[s] = b}) =
           IF BucketOf[span] = b /\ span \notin events
           THEN Cardinality({s \in events : BucketOf[s] = b}) + 1
           ELSE Cardinality({s \in events : BucketOf[s] = b})
    BY <1>0, BucketCount
  <2> QED
    BY <1>1, <2>1, <2>2, <2>3
<1> QED
  BY <1>3, <1>7, <1>9, <1>10, <1>11, <1>12, <1>13

--------------------------------------------------------------------------------
(* The theorems.                                                                *)

LEMMA NextInv == Inv /\ [Next]_vars => Inv'
<1> SUFFICES ASSUME Inv, [Next]_vars PROVE Inv'
  OBVIOUS
<1>0. database \in BOOLEAN /\ stream \in Seq(Message) /\ Len(stream) <= MaxMessages
      /\ window \subseteq Spans /\ export \in [Batches -> Export]
  BY DEF Inv, TypeOK
<1>1. ASSUME NEW b \in Batches, Receive(b) PROVE Inv'
  BY <1>1, ReceiveInv
<1>2. ASSUME NEW span \in Spans, WindowPasses(span) PROVE Inv'
  BY <1>0, <1>2, StreamStep DEF WindowPasses
<1>3. ASSUME NEW w \in Writers, Write(w) \/ CommitUnanswered(w) \/ CrashWriter(w) PROVE Inv'
  <2>1. CASE InsertEvent(w)
    BY <2>1, InsertEventInv
  <2>2. CASE UpsertHourly(w)
    BY <2>2, UpsertHourlyInv
  <2>3. CASE CommitEvent(w)
    BY <1>0, <2>3, CommitStep DEF CommitEvent
  <2>4. CASE WriteFails(w) \/ CrashWriter(w)
    BY <1>0, <2>4, IdleStepInv DEF WriteFails, CrashWriter
  <2>5. CASE Ack(w)
    BY <2>5, AckInv
  <2>6. CASE CommitUnanswered(w)
    BY <2>6, CommitStep DEF CommitUnanswered
  <2> QED
    BY <1>3, <2>1, <2>2, <2>3, <2>4, <2>5, <2>6 DEF Write
<1>4. ASSUME NEW w \in Writers, DeliverNext(w) PROVE Inv'
  BY <1>4, DeliverInv DEF DeliverNext
<1>5. CASE DatabaseFails \/ DatabaseReturns
  BY <1>0, <1>5, StreamStep DEF DatabaseFails, DatabaseReturns, Inv, AckedIsRecorded
<1>6. CASE UNCHANGED vars
  BY <1>0, <1>6, StreamStep DEF vars
<1> QED
  BY <1>1, <1>2, <1>3, <1>4, <1>5, <1>6 DEF Next

LEMMA InvHolds == Spec => []Inv
<1>1. Init => Inv
  BY InitInv
<1>2. Inv /\ [Next]_vars => Inv'
  BY NextInv
<1> QED
  BY <1>1, <1>2, PTL DEF Spec

\* Every variable of the ingest keeps its type.
THEOREM TypeCorrect == Spec => []TypeOK
<1>1. Inv => TypeOK
  BY DEF Inv
<1> QED
  BY <1>1, InvHolds, PTL

\* The rollup counts the events the ledger has, however often a span is
\* exported, delivered or lost on the way (writer.go).
THEOREM RollupIsExact == Spec => []RollupCountsEvents
<1>1. Inv => RollupCountsEvents
  BY DEF Inv
<1> QED
  BY <1>1, InvHolds, PTL

\* A message is acknowledged only when its span is in the ledger (stream.go).
THEOREM AckMeansRecorded == Spec => []AckedIsRecorded
<1>1. Inv => AckedIsRecorded
  BY DEF Inv
<1> QED
  BY <1>1, InvHolds, PTL

=============================================================================
