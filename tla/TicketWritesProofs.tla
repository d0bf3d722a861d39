------------------------- MODULE TicketWritesProofs -------------------------
(***************************************************************************)
(* Proofs about write.Perform, as the tickets module uses it: every        *)
(* variable keeps its type, a write with a key lands once, and the whole   *)
(* implements WriteOnce, for any attempts, keys, requests and pool.        *)
(*                                                                         *)
(* The argument is that a key has one owner at a time.  While no record of *)
(* it is stored, at most one transaction has inserted it (Claims); that    *)
(* transaction stores the record and the audit row in one COMMIT; and from *)
(* then on every other transaction finds the record when its INSERT waits. *)
(*                                                                         *)
(* The stamp of a resolution rests on the row lock of the UPDATE (RowInv). *)
(***************************************************************************)
EXTENDS TicketWrites, TLAPS

AuditRow == [by : Attempts, entry : Entry]

\* What an attempt has by the place it is at.
PlaceInv ==
    \A a \in Attempts :
        /\ at[a] = "idle" <=> call[a] = Null
        /\ at[a] \in {"lookup", "record", "replay"} => call[a].key # Null
        /\ at[a] \in {"write", "record", "commit", "replay", "detached"}
              => work[a] \in Written
        /\ answer[a] = Null <=> at[a] \notin {"detached", "done"}
        /\ at[a] = "detached" => answer[a] = "failed"

\* The audit trail holds every landed attempt once.
TrailInv ==
    /\ trail \in Seq(AuditRow)
    /\ \A i \in DOMAIN trail : at[trail[i].by] = "done"
    /\ \A i, j \in DOMAIN trail : i # j => trail[i].by # trail[j].by

\* A key has one owner: the attempt that claims it, or the one its record names.
OwnerInv ==
    /\ \A k \in Keys, a \in Attempts : Claims(a, k) => records[k] = Null
    /\ \A k \in Keys, a, b \in Attempts : Claims(a, k) /\ Claims(b, k) => a = b
    /\ \A i \in DOMAIN trail, k \in Keys :
          call[trail[i].by].key = k =>
              records[k] # Null /\ records[k].by = trail[i].by

Inv == TypeOK /\ PlaceInv /\ TrailInv /\ OwnerInv /\ KeyMeansWrite

LEMMA InitInv == Init => Inv
<1> SUFFICES ASSUME Init PROVE Inv
  OBVIOUS
<1> USE PerformAssumption, TicketAssumption DEF Init, PerformInit
<1>1. TypeOK
  BY DEF TypeOK, PerformTypeOK, Places, Answers, Statuses
<1>2. PlaceInv /\ TrailInv /\ OwnerInv /\ KeyMeansWrite
  BY DEF PlaceInv, TrailInv, OwnerInv, KeyMeansWrite, Claims
<1> QED
  BY <1>1, <1>2 DEF Inv

\* A step that stores nothing and takes no key leaves trail and owners alone.
LEMMA QuietStep ==
    ASSUME Inv, NEW a \in Attempts, NEW place \in Places, at[a] # "done",
           at' = [at EXCEPT ![a] = place],
           place \in {"commit", "detached"} =>
              at[a] \in {"commit", "detached"} \/ call[a].key = Null,
           UNCHANGED <<call, records, trail>>
    PROVE  TrailInv' /\ OwnerInv' /\ KeyMeansWrite'
<1> USE DEF Inv, TypeOK, PerformTypeOK
<1>1. TrailInv'
  BY DEF TrailInv, AuditRow
<1>2. \A b \in Attempts, k \in Keys : Claims(b, k)' => Claims(b, k)
  BY PerformAssumption DEF Claims
<1>3. OwnerInv'
  BY <1>2 DEF OwnerInv
<1>4. KeyMeansWrite'
  BY DEF KeyMeansWrite, Effects
<1> QED
  BY <1>1, <1>3, <1>4

\* A call that ends without landing.
LEMMA ReplyStep ==
    ASSUME Inv, NEW a \in Attempts, NEW value \in Answers \ {Null}, Reply(a, value),
           at[a] \notin {"idle", "done"},
           UNCHANGED <<call, records, trail, ticketVars>>
    PROVE  Inv'
<1> USE DEF Inv, TypeOK, PerformTypeOK, Reply, Go, ticketVars
<1>1. TypeOK'
  BY DEF Places
<1>2. PlaceInv'
  BY DEF PlaceInv
<1>3. TrailInv' /\ OwnerInv' /\ KeyMeansWrite'
  BY QuietStep DEF Places
<1> QED
  BY <1>1, <1>2, <1>3

LEMMA ArriveInv ==
    ASSUME Inv, NEW a \in Attempts, NEW key \in Keys \cup {Null}, NEW request \in Requests,
           Arrive(a, key, request), UNCHANGED ticketVars
    PROVE  Inv'
<1> USE DEF Inv, TypeOK, PerformTypeOK, Arrive, Go, ticketVars
<1> DEFINE c == [key |-> key, request |-> request]
<1>1. c \in Call /\ c # Null
  BY PerformAssumption DEF Call
<1>2. TypeOK'
  BY <1>1 DEF Places
<1>3. PlaceInv'
  BY <1>1 DEF PlaceInv
<1>4. TrailInv'
  BY DEF TrailInv, AuditRow
<1>5. \A b \in Attempts, k \in Keys : Claims(b, k)' => Claims(b, k)
  BY DEF Claims
<1>6. \A i \in DOMAIN trail : trail[i].by # a
  BY DEF TrailInv
<1>7. OwnerInv'
  BY <1>5, <1>6 DEF OwnerInv
<1>8. KeyMeansWrite'
  <2>1. \A k \in Keys : records[k] # Null => records[k].by # a
    BY <1>6 DEF KeyMeansWrite, Effects
  <2> QED
    BY <2>1 DEF KeyMeansWrite, Effects, IdempotencyRecord
<1> QED
  BY <1>2, <1>3, <1>4, <1>7, <1>8

\* The answer of a stored record is an attempt, or the refusal of a reused key.
LEMMA FoundIsAnAnswer ==
    ASSUME Inv, NEW a \in Attempts, at[a] \in {"lookup", "replay"}, records[call[a].key] # Null
    PROVE  Found(a) \in Answers \ {Null}
<1>1. call[a].key \in Keys
  BY DEF Inv, TypeOK, PerformTypeOK, PlaceInv, Call
<1>2. records[call[a].key].by \in Attempts
  BY <1>1 DEF Inv, TypeOK, PerformTypeOK, IdempotencyRecord
<1> QED
  BY <1>2, PerformAssumption DEF Found, Answers

LEMMA LookupInv ==
    ASSUME Inv, NEW a \in Attempts, Lookup(a), UNCHANGED ticketVars
    PROVE  Inv'
<1>1. CASE records[call[a].key] # Null
  BY <1>1, FoundIsAnAnswer, ReplyStep DEF Lookup
<1>2. CASE records[call[a].key] = Null
  <2> USE <1>2 DEF Inv, TypeOK, PerformTypeOK, Lookup, Go, ticketVars
  <2>1. TypeOK'
    BY DEF Places
  <2>2. PlaceInv'
    BY DEF PlaceInv
  <2>3. TrailInv' /\ OwnerInv' /\ KeyMeansWrite'
    BY QuietStep DEF Places
  <2> QED
    BY <2>1, <2>2, <2>3
<1> QED
  BY <1>1, <1>2

LEMMA BeginInv ==
    ASSUME Inv, NEW a \in Attempts, Begin(a), UNCHANGED ticketVars
    PROVE  Inv'
<1> USE DEF Inv, TypeOK, PerformTypeOK, Begin, Go, ticketVars
<1>1. TypeOK'
  BY DEF Places
<1>2. PlaceInv'
  BY DEF PlaceInv
<1>3. TrailInv' /\ OwnerInv' /\ KeyMeansWrite'
  BY QuietStep DEF Places
<1> QED
  BY <1>1, <1>2, <1>3

\* The key is taken only when nobody claims it and no record has it.
LEMMA RecordInv ==
    ASSUME Inv, NEW a \in Attempts, Record(a), UNCHANGED ticketVars
    PROVE  Inv'
<1> USE DEF Inv, TypeOK, PerformTypeOK, Record, Go, ticketVars
<1>1. TypeOK'
  BY DEF Places
<1>2. PlaceInv'
  BY DEF PlaceInv
<1>3. TrailInv' /\ KeyMeansWrite'
  BY DEF TrailInv, AuditRow, KeyMeansWrite, Effects
<1>4. OwnerInv'
  <2>1. \A b \in Attempts \ {a}, k \in Keys : Claims(b, k)' => Claims(b, k) /\ k # call[a].key
    BY DEF Claims
  <2>2. \A k \in Keys : Claims(a, k)' => k = call[a].key /\ records[k] = Null
    BY DEF Claims, KeyIsNew
  <2>3. \A k \in Keys, b \in Attempts : Claims(b, k)' => records'[k] = Null
    BY <2>1, <2>2 DEF OwnerInv
  <2>4. \A k \in Keys, b, c \in Attempts : Claims(b, k)' /\ Claims(c, k)' => b = c
    BY <2>1, <2>2 DEF OwnerInv
  <2> QED
    BY <2>3, <2>4 DEF OwnerInv
<1> QED
  BY <1>1, <1>2, <1>3, <1>4

LEMMA ReplayStoredInv ==
    ASSUME Inv, NEW a \in Attempts, ReplayStored(a), UNCHANGED ticketVars
    PROVE  Inv'
<1>1. "failed" \in Answers \ {Null}
  BY PerformAssumption DEF Answers
<1>2. (IF records[call[a].key] = Null THEN "failed" ELSE Found(a)) \in Answers \ {Null}
  BY <1>1, FoundIsAnAnswer DEF ReplayStored
<1> QED
  BY <1>2, ReplyStep DEF ReplayStored

LEMMA FailInv ==
    ASSUME Inv, NEW a \in Attempts, Fail(a), UNCHANGED ticketVars
    PROVE  Inv'
<1>1. "failed" \in Answers \ {Null}
  BY PerformAssumption DEF Answers
<1> QED
  BY <1>1, ReplyStep DEF Fail, Transaction

LEMMA DetachInv ==
    ASSUME Inv, NEW a \in Attempts, Detach(a), UNCHANGED ticketVars
    PROVE  Inv'
<1> USE DEF Inv, TypeOK, PerformTypeOK, Detach, Go, ticketVars
<1>1. TypeOK'
  BY DEF Places, Answers
<1>2. PlaceInv'
  BY PerformAssumption DEF PlaceInv
<1>3. TrailInv' /\ OwnerInv' /\ KeyMeansWrite'
  BY QuietStep DEF Places
<1> QED
  BY <1>1, <1>2, <1>3

LEMMA DetachedRollsBackInv ==
    ASSUME Inv, NEW a \in Attempts, DetachedRollsBack(a), UNCHANGED ticketVars
    PROVE  Inv'
<1> USE DEF Inv, TypeOK, PerformTypeOK, DetachedRollsBack, Go, ticketVars
<1>1. TypeOK'
  BY DEF Places
<1>2. PlaceInv'
  BY DEF PlaceInv
<1>3. TrailInv' /\ OwnerInv' /\ KeyMeansWrite'
  BY QuietStep DEF Places
<1> QED
  BY <1>1, <1>2, <1>3

\* What an operation decides to write is well typed.
LEMMA DecisionShape ==
    ASSUME Inv, NEW request \in Requests
    PROVE  [entry |-> [action |-> ActionName(request), to |-> Effect(request)],
            stamp |-> Null] \in Written
<1>1. request \in TicketRequest
  BY TicketAssumption
<1>2. ActionName(request) \in {"tickets.create", "tickets.reply", "tickets.status",
                               "tickets.reopen"}
  BY <1>1 DEF ActionName, TicketRequest
<1>3. Effect(request) \in Statuses \cup {Null}
  BY <1>1 DEF Effect, TicketRequest, Statuses
<1> QED
  BY <1>2, <1>3 DEF Written, Entry

LEMMA ReadTicketInv ==
    ASSUME Inv, NEW a \in Attempts, ReadTicket(a)
    PROVE  Inv'
<1>1. call[a].request \in Requests
  BY DEF ReadTicket, Inv, TypeOK, PerformTypeOK, PlaceInv, Call
<1>2. CASE Refuses(call[a].request)
  <2>1. "failed" \in Answers \ {Null}
    BY PerformAssumption DEF Answers
  <2> QED
    BY <1>2, <2>1, ReplyStep DEF ReadTicket
<1>3. CASE ~Refuses(call[a].request)
  <2> USE <1>3 DEF Inv, TypeOK, PerformTypeOK, ReadTicket, Go, ticketVars
  <2>1. work'[a] \in Written /\ work' \in [Attempts -> Written \cup {Null}]
    BY <1>1, DecisionShape
  <2>2. TypeOK'
    BY <2>1 DEF Places
  <2>3. PlaceInv'
    BY <2>1 DEF PlaceInv
  <2>4. TrailInv' /\ OwnerInv' /\ KeyMeansWrite'
    BY QuietStep DEF Places
  <2> QED
    BY <2>2, <2>3, <2>4
<1> QED
  BY <1>2, <1>3

LEMMA WriteTicketInv ==
    ASSUME Inv, NEW a \in Attempts, WriteTicket(a)
    PROVE  Inv'
<1> DEFINE stamp == IF Moves(a) THEN Stamp(a) ELSE Null
<1> USE DEF Inv, TypeOK, PerformTypeOK, WriteTicket, Worked, Go, ticketVars
<1>1. stamp \in Attempts \cup {Null}
  BY DEF Stamp
<1>2. [work[a] EXCEPT !.stamp = stamp] \in Written
  BY <1>1 DEF PlaceInv, Written
<1>3. work' = [work EXCEPT ![a] = [work[a] EXCEPT !.stamp = stamp]]
  OBVIOUS
<1>4. TypeOK'
  BY <1>2, <1>3 DEF Places
<1>5. PlaceInv'
  <2>1. work'[a] \in Written /\ \A b \in Attempts \ {a} : work'[b] = work[b]
    BY <1>2, <1>3
  <2> QED
    BY <2>1 DEF PlaceInv
<1>6. TrailInv' /\ OwnerInv' /\ KeyMeansWrite'
  BY QuietStep DEF Places
<1> QED
  BY <1>4, <1>5, <1>6

--------------------------------------------------------------------------------
(* COMMIT.                                                                      *)

\* An attempt about to land has left no audit row; with a key, neither has any
\* other attempt of that key.
LEMMA LandsAlone ==
    ASSUME Inv, NEW a \in Attempts, at[a] \in {"commit", "detached"}
    PROVE  /\ \A i \in DOMAIN trail : trail[i].by # a
           /\ \A i \in DOMAIN trail :
                 call[a].key # Null => call[trail[i].by].key # call[a].key
<1>1. \A i \in DOMAIN trail : trail[i].by # a
  BY DEF Inv, TrailInv
<1>2. call[a].key \in Keys \cup {Null}
  BY DEF Inv, TypeOK, PerformTypeOK, PlaceInv, Call
<1>3. call[a].key # Null => records[call[a].key] = Null
  BY <1>2 DEF Inv, OwnerInv, Claims
<1> QED
  BY <1>1, <1>2, <1>3 DEF Inv, OwnerInv

LEMMA LandEffects ==
    ASSUME Inv, NEW a \in Attempts, Land(a)
    PROVE  /\ DOMAIN trail' = 1..Len(trail) + 1
           /\ DOMAIN trail = 1..Len(trail) /\ Len(trail) \in Nat
           /\ \A i \in DOMAIN trail : trail'[i] = trail[i]
           /\ trail'[Len(trail) + 1] = [by |-> a, entry |-> work[a].entry]
           /\ Effects' = Effects \cup {a}
<1> DEFINE row == [by |-> a, entry |-> work[a].entry]
<1>1. trail \in Seq(AuditRow) /\ trail' = Append(trail, row)
  BY DEF Inv, TrailInv, Land
<1>2. /\ DOMAIN trail' = 1..Len(trail) + 1
      /\ DOMAIN trail = 1..Len(trail) /\ Len(trail) \in Nat
      /\ \A i \in DOMAIN trail : trail'[i] = trail[i]
      /\ trail'[Len(trail) + 1] = row
  BY <1>1
<1>3. Effects' = {trail'[i].by : i \in DOMAIN trail'}
  BY DEF Effects
<1>4. \A b : b \in Effects' <=> \E i \in 1..Len(trail) + 1 : trail'[i].by = b
  BY <1>2, <1>3
<1>5. \A b : b \in Effects <=> \E i \in 1..Len(trail) : trail[i].by = b
  BY <1>2 DEF Effects
<1>6. \A i \in 1..Len(trail) + 1 : i \in 1..Len(trail) \/ i = Len(trail) + 1
  BY <1>2
<1>7. \A b : b \in Effects' => b \in Effects \/ b = a
  BY <1>2, <1>4, <1>5, <1>6
<1>8. \A b : b \in Effects => b \in Effects'
  <2>1. \A i \in 1..Len(trail) : i \in 1..Len(trail) + 1
    BY <1>2
  <2> QED
    BY <1>2, <1>4, <1>5, <2>1
<1>9. a \in Effects'
  BY <1>2, <1>4
<1> QED
  BY <1>2, <1>7, <1>8, <1>9

LEMMA LandInv ==
    ASSUME Inv, NEW a \in Attempts, at[a] \in {"commit", "detached"},
           Land(a), LandTicket(a), at' = [at EXCEPT ![a] = "done"],
           work' = [work EXCEPT ![a] = Null],
           \/ answer' = [answer EXCEPT ![a] = a]
           \/ answer' = answer /\ at[a] = "detached",
           UNCHANGED call
    PROVE  Inv'
<1> DEFINE n == Len(trail) + 1
           key == call[a].key
<1> USE DEF Inv, TypeOK, PerformTypeOK
<1>1. /\ work[a] \in Written /\ work[a].entry \in Entry
      /\ call[a] \in Call /\ key \in Keys \cup {Null}
  BY DEF PlaceInv, Written, Call
<1>2. /\ DOMAIN trail' = 1..n /\ DOMAIN trail = 1..Len(trail) /\ Len(trail) \in Nat
      /\ \A i \in DOMAIN trail : trail'[i] = trail[i]
      /\ trail'[n] = [by |-> a, entry |-> work[a].entry]
      /\ trail' \in Seq(AuditRow)
  <2>1. trail' = Append(trail, [by |-> a, entry |-> work[a].entry])
    BY DEF Land
  <2>2. trail \in Seq(AuditRow) /\ [by |-> a, entry |-> work[a].entry] \in AuditRow
    BY <1>1 DEF TrailInv, AuditRow
  <2> QED
    BY <2>1, <2>2, LandEffects
<1>3. \A i \in DOMAIN trail' :
         \/ i \in DOMAIN trail /\ trail'[i] = trail[i]
         \/ i = n /\ trail'[i].by = a
  BY <1>2
<1>4. /\ \A i \in DOMAIN trail : trail[i].by # a
      /\ \A i \in DOMAIN trail : key # Null => call[trail[i].by].key # key
  BY LandsAlone
<1>5. \A i \in DOMAIN trail' : trail'[i].by \in Attempts
  BY <1>3
<1>6. /\ records' \in [Keys -> IdempotencyRecord \cup {Null}]
      /\ key # Null => records' = [records EXCEPT ![key] =
                           [request |-> call[a].request, by |-> a]]
      /\ key = Null => records' = records
  BY <1>1 DEF Land, IdempotencyRecord, Call
<1>7. TypeOK'
  <2>1. /\ at' \in [Attempts -> Places] /\ answer' \in [Attempts -> Answers]
        /\ work' \in [Attempts -> Written \cup {Null}]
    BY DEF Places, Answers
  <2>2. status' \in Statuses /\ resolvedAt' \in Attempts \cup {Null} /\ thread' \subseteq Attempts
    BY <1>1 DEF LandTicket, Moves, Written, Entry
  <2> QED
    BY <1>5, <1>6, <2>1, <2>2
<1>8. PlaceInv'
  BY PerformAssumption DEF PlaceInv
<1>9. TrailInv'
  <2>1. \A i \in DOMAIN trail' : at'[trail'[i].by] = "done"
    BY <1>3, <1>5 DEF TrailInv
  <2>2. \A i, j \in DOMAIN trail' : i # j => trail'[i].by # trail'[j].by
    BY <1>3, <1>4 DEF TrailInv
  <2> QED
    BY <1>2, <2>1, <2>2 DEF TrailInv
<1>10. OwnerInv'
  <2>1. \A b \in Attempts, k \in Keys :
           Claims(b, k)' => Claims(b, k) /\ b # a
    BY DEF Claims
  <2>2. \A b \in Attempts : b # a /\ key # Null => ~Claims(b, key)
    BY <1>1 DEF OwnerInv, Claims
  <2>3. \A k \in Keys, b \in Attempts : Claims(b, k)' => records'[k] = Null
    BY <1>6, <2>1, <2>2 DEF OwnerInv
  <2>4. \A k \in Keys, b, c \in Attempts : Claims(b, k)' /\ Claims(c, k)' => b = c
    BY <2>1 DEF OwnerInv
  <2>5. \A i \in DOMAIN trail', k \in Keys :
           call[trail'[i].by].key = k => records'[k] # Null /\ records'[k].by = trail'[i].by
    <3> SUFFICES ASSUME NEW i \in DOMAIN trail', NEW k \in Keys, call[trail'[i].by].key = k
                 PROVE  records'[k] # Null /\ records'[k].by = trail'[i].by
      OBVIOUS
    <3>1. k # Null
      BY PerformAssumption
    <3>2. CASE i \in DOMAIN trail /\ trail'[i] = trail[i]
      <4>1. k # key
        BY <1>4, <3>1, <3>2
      <4>2. records'[k] = records[k]
        BY <1>6, <4>1
      <4> QED
        BY <3>2, <4>2 DEF OwnerInv
    <3>3. CASE i = n /\ trail'[i].by = a
      <4>1. k = key /\ key # Null
        BY <3>1, <3>3
      <4>2. records'[k] = [request |-> call[a].request, by |-> a]
        BY <1>6, <4>1
      <4>3. records'[k] \in IdempotencyRecord
        BY <1>1, <4>2 DEF IdempotencyRecord, Call
      <4> QED
        BY <3>3, <4>2, <4>3, PerformAssumption
    <3> QED
      BY <1>3, <3>2, <3>3
  <2> QED
    BY <2>3, <2>4, <2>5 DEF OwnerInv
<1>11. KeyMeansWrite'
  <2>1. Effects' = Effects \cup {a}
    BY LandEffects
  <2> SUFFICES ASSUME NEW k \in Keys, records'[k] # Null
               PROVE  /\ records'[k].by \in Effects'
                      /\ call'[records'[k].by] = [key |-> k, request |-> records'[k].request]
    BY DEF KeyMeansWrite
  <2>2. CASE k # key \/ key = Null
    <3>1. records'[k] = records[k]
      BY <1>6, <2>2
    <3> QED
      BY <2>1, <3>1 DEF KeyMeansWrite
  <2>3. CASE k = key /\ key # Null
    <3>1. records'[k] = [request |-> call[a].request, by |-> a]
      BY <1>6, <2>3
    <3>2. call[a] = [key |-> k, request |-> call[a].request]
      BY <1>1, <2>3 DEF Call
    <3> QED
      BY <2>1, <3>1, <3>2
  <2> QED
    BY <2>2, <2>3
<1> QED
  BY <1>7, <1>8, <1>9, <1>10, <1>11

--------------------------------------------------------------------------------
(* The theorems.                                                                *)

LEMMA NextInv == Inv /\ [Next]_vars => Inv'
<1> SUFFICES ASSUME Inv, [Next]_vars PROVE Inv'
  OBVIOUS
<1>1. ASSUME NEW a \in Attempts, PerformStep(a), UNCHANGED ticketVars PROVE Inv'
  BY <1>1, ArriveInv, LookupInv, BeginInv, RecordInv, ReplayStoredInv, FailInv,
     DetachInv, DetachedRollsBackInv DEF PerformStep
<1>2. ASSUME NEW a \in Attempts, ReadTicket(a) PROVE Inv'
  BY <1>2, ReadTicketInv
<1>3. ASSUME NEW a \in Attempts, WriteTicket(a) PROVE Inv'
  BY <1>3, WriteTicketInv
<1>4. ASSUME NEW a \in Attempts, Commit(a), LandTicket(a) PROVE Inv'
  BY <1>4, LandInv DEF Commit, Reply, Go
<1>5. ASSUME NEW a \in Attempts, DetachedLands(a), LandTicket(a) PROVE Inv'
  BY <1>5, LandInv DEF DetachedLands, Go
<1>6. CASE UNCHANGED vars
  BY <1>6 DEF vars, performVars, ticketVars, Inv, TypeOK, PerformTypeOK, PlaceInv,
     TrailInv, OwnerInv, KeyMeansWrite, Effects, Claims
<1> QED
  BY <1>1, <1>2, <1>3, <1>4, <1>5, <1>6 DEF Next, Step

LEMMA InvHolds == Spec => []Inv
<1>1. Init => Inv
  BY InitInv
<1>2. Inv /\ [Next]_vars => Inv'
  BY NextInv
<1> QED
  BY <1>1, <1>2, PTL DEF Spec

\* Every variable of write.Perform and of the tickets module keeps its type.
THEOREM TypeCorrect == Spec => []TypeOK
<1>1. Inv => TypeOK
  BY DEF Inv
<1> QED
  BY <1>1, InvHolds, PTL

\* A write whose client sent a key lands once, whatever is retried, submitted
\* twice or given up on (write.Perform).
THEOREM OneLandingPerKey == Spec => []LandsOnce
<1>1. Inv => LandsOnce
  <2> SUFFICES ASSUME Inv, NEW i \in DOMAIN trail, NEW j \in DOMAIN trail, i # j
               PROVE  /\ trail[i].by # trail[j].by
                      /\ call[trail[i].by].key # Null
                         => call[trail[i].by].key # call[trail[j].by].key
    BY DEF LandsOnce
  <2>1. trail[i].by # trail[j].by
    BY DEF Inv, TrailInv
  <2>2. call[trail[i].by] \in Call
    BY DEF Inv, TypeOK, PerformTypeOK, TrailInv, PlaceInv
  <2>3. call[trail[i].by].key # Null => call[trail[i].by].key \in Keys
    BY <2>2 DEF Call
  <2> QED
    BY <2>1, <2>3 DEF Inv, OwnerInv
<1> QED
  BY <1>1, InvHolds, PTL

\* A key that is stored names a write that landed, and the request it was sent
\* with: a rollback leaves no key behind.
THEOREM StoredKeysLanded == Spec => []KeyMeansWrite
<1>1. Inv => KeyMeansWrite
  BY DEF Inv
<1> QED
  BY <1>1, InvHolds, PTL

--------------------------------------------------------------------------------
(* write.Perform implements WriteOnce.                                          *)

LEMMA InitRefines == Init => WriteOnceSpec!Init
<1> SUFFICES ASSUME Init PROVE WriteOnceSpec!Init
  OBVIOUS
<1>1. Effects = {}
  BY DEF Init, PerformInit, Effects
<1> QED
  BY <1>1 DEF Init, PerformInit, WriteOnceSpec!Init

\* An answer that is not a landing: the promise calls it a failure.
LEMMA FailRefines ==
    ASSUME Inv, NEW a \in Attempts, at[a] \notin {"idle", "detached", "done"},
           answer' = [answer EXCEPT ![a] = "failed"], UNCHANGED <<call, trail>>
    PROVE  WriteOnceSpec!Fail(a)
<1>1. call[a] # Null /\ answer[a] = Null
  BY DEF Inv, PlaceInv
<1>2. Effects' = Effects
  BY DEF Effects
<1> QED
  BY <1>1, <1>2 DEF WriteOnceSpec!Fail

\* A stored record is an effect that has landed for the key.
LEMMA FoundRefines ==
    ASSUME Inv, NEW a \in Attempts, at[a] \in {"lookup", "replay"},
           records[call[a].key] # Null,
           answer' = [answer EXCEPT ![a] = Found(a)], UNCHANGED <<call, trail>>
    PROVE  WriteOnceSpec!Replay(a)
<1> DEFINE k == call[a].key
           b == records[k].by
<1>1. call[a] # Null /\ answer[a] = Null /\ k # Null
  BY DEF Inv, PlaceInv
<1>2. k \in Keys
  BY <1>1 DEF Inv, TypeOK, PerformTypeOK, Call
<1>3. b \in Effects /\ call[b] = [key |-> k, request |-> records[k].request]
  BY <1>2 DEF Inv, KeyMeansWrite
<1>4. b \in WriteOnceSpec!Landed(a)
  BY <1>3 DEF WriteOnceSpec!Landed
<1>5. Found(a) = IF call[b].request = call[a].request THEN b ELSE "reused"
  BY <1>3 DEF Found
<1>6. Effects' = Effects
  BY DEF Effects
<1> QED
  BY <1>1, <1>4, <1>5, <1>6 DEF WriteOnceSpec!Replay

\* COMMIT is the landing of the promise: no effect of the key came before it.
LEMMA LandRefines ==
    ASSUME Inv, NEW a \in Attempts, at[a] \in {"commit", "detached"}, Land(a),
           UNCHANGED call,
           \/ at[a] = "commit" /\ answer' = [answer EXCEPT ![a] = a]
           \/ at[a] = "detached" /\ UNCHANGED answer
    PROVE  WriteOnceSpec!Land(a)
<1>1. call[a] # Null
  BY DEF Inv, PlaceInv
<1>2. /\ at[a] = "commit" => answer[a] = Null
      /\ at[a] = "detached" => answer[a] = "failed"
  BY DEF Inv, PlaceInv
<1>3. a \notin Effects
  BY LandsAlone DEF Effects
<1>4. call[a].key # Null => WriteOnceSpec!Landed(a) = {}
  BY LandsAlone DEF WriteOnceSpec!Landed, Effects
<1>5. Effects' = Effects \cup {a}
  BY LandEffects
<1> QED
  BY <1>1, <1>2, <1>3, <1>4, <1>5 DEF WriteOnceSpec!Land

LEMMA StepRefines ==
    ASSUME Inv, [Next]_vars
    PROVE  [WriteOnceSpec!Next]_(WriteOnceSpec!vars)
<1> DEFINE Promised == [WriteOnceSpec!Next]_(WriteOnceSpec!vars)
<1> USE DEF WriteOnceSpec!Next, WriteOnceSpec!vars
<1>1. ASSUME UNCHANGED <<call, trail, answer>> PROVE Promised
  BY <1>1 DEF Effects
<1>2. ASSUME NEW a \in Attempts, PerformStep(a) PROVE Promised
  <2>1. ASSUME NEW key \in Keys \cup {Null}, NEW request \in Requests, Arrive(a, key, request)
        PROVE  Promised
    <3>1. call[a] = Null /\ [key |-> key, request |-> request] \in WriteOnceSpec!Call
      BY <2>1 DEF Arrive, Inv, PlaceInv, WriteOnceSpec!Call
    <3>2. Effects' = Effects
      BY <2>1 DEF Arrive, Effects
    <3> QED
      BY <2>1, <3>1, <3>2 DEF Arrive, WriteOnceSpec!Ask
  <2>2. CASE Lookup(a)
    <3>1. CASE records[call[a].key] # Null
      BY <2>2, <3>1, FoundRefines DEF Lookup, Reply
    <3>2. CASE records[call[a].key] = Null
      BY <2>2, <3>2, <1>1 DEF Lookup
    <3> QED
      BY <3>1, <3>2
  <2>3. CASE Begin(a) \/ Record(a) \/ DetachedRollsBack(a)
    BY <2>3, <1>1 DEF Begin, Record, DetachedRollsBack
  <2>4. CASE ReplayStored(a)
    <3>1. CASE records[call[a].key] # Null
      BY <2>4, <3>1, FoundRefines DEF ReplayStored, Reply
    <3>2. CASE records[call[a].key] = Null
      BY <2>4, <3>2, FailRefines DEF ReplayStored, Reply
    <3> QED
      BY <3>1, <3>2
  <2>5. CASE Fail(a)
    BY <2>5, FailRefines DEF Fail, Reply, Transaction
  <2>6. CASE Detach(a)
    BY <2>6, FailRefines DEF Detach
  <2> QED
    BY <1>2, <2>1, <2>2, <2>3, <2>4, <2>5, <2>6 DEF PerformStep
<1>3. ASSUME NEW a \in Attempts, ReadTicket(a) PROVE Promised
  <2>1. CASE Refuses(call[a].request)
    BY <1>3, <2>1, FailRefines DEF ReadTicket, Reply
  <2>2. CASE ~Refuses(call[a].request)
    BY <1>3, <2>2, <1>1 DEF ReadTicket
  <2> QED
    BY <2>1, <2>2
<1>4. ASSUME NEW a \in Attempts, WriteTicket(a) PROVE Promised
  BY <1>4, <1>1 DEF WriteTicket, Worked
<1>5. ASSUME NEW a \in Attempts, Commit(a) PROVE Promised
  BY <1>5, LandRefines DEF Commit, Reply
<1>6. ASSUME NEW a \in Attempts, DetachedLands(a) PROVE Promised
  BY <1>6, LandRefines DEF DetachedLands
<1>7. CASE UNCHANGED vars
  BY <1>7, <1>1 DEF vars, performVars
<1> QED
  BY <1>2, <1>3, <1>4, <1>5, <1>6, <1>7 DEF Next, Step

\* write.Perform keeps the promise of the idempotency convention: every step is
\* a step of WriteOnce, or none.
THEOREM ImplementsWriteOnce == Spec => KeepsThePromise
<1>1. Init => WriteOnceSpec!Init
  BY InitRefines
<1>2. Inv /\ [Next]_vars => [WriteOnceSpec!Next]_(WriteOnceSpec!vars)
  BY StepRefines
<1> QED
  BY <1>1, <1>2, InvHolds, PTL DEF Spec, KeepsThePromise, WriteOnceSpec!Spec

--------------------------------------------------------------------------------
(* The stamp.  An UPDATE decides under the row lock, and the row has one      *)
(* holder until COMMIT, so what it decided from is still there when it lands. *)

RowInv ==
    /\ \A a, b \in Attempts : HoldsTicket(a) /\ HoldsTicket(b) => a = b
    /\ \A a \in Attempts : HoldsTicket(a) => work[a].stamp = Stamp(a)

\* A step after which the attempt holds the row only if it did before.
LEMMA RowKept ==
    ASSUME Inv, RowInv, StampIsFirstResolution, NEW a \in Attempts,
           at' \in [Attempts -> Places], \A b \in Attempts \ {a} : at'[b] = at[b],
           \A b \in Attempts \ {a} : work'[b] = work[b],
           HoldsTicket(a)' => HoldsTicket(a) /\ work'[a] = work[a],
           UNCHANGED <<trail, resolvedAt>>
    PROVE  RowInv' /\ StampIsFirstResolution'
<1>1. \A b \in Attempts : HoldsTicket(b)' => HoldsTicket(b) /\ work'[b] = work[b]
  BY DEF HoldsTicket, Moves
<1>2. RowInv'
  BY <1>1 DEF RowInv, Stamp
<1>3. StampIsFirstResolution'
  BY DEF StampIsFirstResolution, Resolutions
<1> QED
  BY <1>2, <1>3

\* What the steps that land nothing do to the row: it is taken by the UPDATE,
\* kept through INSERT, COMMIT and a lost client, and given up.
LEMMA QuietRow ==
    ASSUME Inv, RowInv, StampIsFirstResolution, NEW a \in Attempts,
           (PerformStep(a) /\ UNCHANGED ticketVars) \/ ReadTicket(a)
    PROVE  RowInv' /\ StampIsFirstResolution'
<1> USE DEF Inv, TypeOK, PerformTypeOK, Go, Reply, ticketVars, HoldsTicket, Moves, Places
<1>1. ASSUME NEW key \in Keys \cup {Null}, NEW request \in Requests, Arrive(a, key, request),
             UNCHANGED ticketVars
      PROVE  RowInv' /\ StampIsFirstResolution'
  BY <1>1, RowKept DEF Arrive
<1>2. CASE Lookup(a) /\ UNCHANGED ticketVars
  BY <1>2, RowKept DEF Lookup
<1>3. CASE Begin(a) /\ UNCHANGED ticketVars
  BY <1>3, RowKept DEF Begin
<1>4. CASE Record(a) /\ UNCHANGED ticketVars
  BY <1>4, RowKept DEF Record
<1>5. CASE ReplayStored(a) /\ UNCHANGED ticketVars
  BY <1>5, RowKept DEF ReplayStored
<1>6. CASE Fail(a) /\ UNCHANGED ticketVars
  BY <1>6, RowKept DEF Fail
<1>7. CASE Detach(a) /\ UNCHANGED ticketVars
  BY <1>7, RowKept DEF Detach
<1>8. CASE DetachedRollsBack(a) /\ UNCHANGED ticketVars
  BY <1>8, RowKept DEF DetachedRollsBack
<1>9. CASE ReadTicket(a)
  BY <1>9, RowKept DEF ReadTicket
<1> QED
  BY <1>1, <1>2, <1>3, <1>4, <1>5, <1>6, <1>7, <1>8, <1>9 DEF PerformStep

\* The UPDATE takes a row that nobody has, and decides from what it finds.
LEMMA WriteTakesRow ==
    ASSUME Inv, RowInv, StampIsFirstResolution, NEW a \in Attempts, WriteTicket(a)
    PROVE  RowInv' /\ StampIsFirstResolution'
<1> USE DEF Inv, TypeOK, PerformTypeOK
<1> DEFINE stamp == IF Moves(a) THEN Stamp(a) ELSE Null
           written == [work[a] EXCEPT !.stamp = stamp]
<1>1. work[a] \in Written
  BY DEF WriteTicket, PlaceInv
<1>2. written.entry = work[a].entry /\ written.stamp = stamp /\ written # Null
  <2>1. written \in Written
    BY <1>1 DEF Written, Stamp
  <2> QED
    BY <1>1, <2>1, TicketAssumption DEF Written
<1>3. /\ work' = [work EXCEPT ![a] = written]
      /\ at' \in [Attempts -> Places] /\ \A b \in Attempts \ {a} : at'[b] = at[b]
      /\ UNCHANGED <<trail, resolvedAt>>
      /\ Moves(a) => TicketFree(a)
  BY DEF WriteTicket, Worked, Go, Places, ticketVars
<1> HIDE DEF written
<1>4. work'[a] = written /\ \A b \in Attempts \ {a} : work'[b] = work[b]
  BY <1>3
<1>5. \A b \in Attempts \ {a} : HoldsTicket(b)' => HoldsTicket(b)
  BY <1>3, <1>4 DEF HoldsTicket, Moves
<1>6. HoldsTicket(a)' => Moves(a)
  BY <1>1, <1>2, <1>4, TicketAssumption DEF HoldsTicket, Moves
<1>7. HoldsTicket(a)' => work'[a].stamp = Stamp(a)'
  BY <1>2, <1>3, <1>4, <1>6 DEF Stamp
<1>8. HoldsTicket(a)' => \A b \in Attempts \ {a} : ~HoldsTicket(b)'
  BY <1>3, <1>5, <1>6 DEF TicketFree
<1>9. \A b \in Attempts \ {a} : HoldsTicket(b)' => work'[b].stamp = Stamp(b)'
  BY <1>3, <1>4, <1>5 DEF RowInv, Stamp
<1>10. RowInv'
  BY <1>5, <1>7, <1>8, <1>9 DEF RowInv
<1>11. StampIsFirstResolution'
  BY <1>3 DEF StampIsFirstResolution, Resolutions
<1> QED
  BY <1>10, <1>11

\* COMMIT: the row is the one the UPDATE decided from.
LEMMA LandStamps ==
    ASSUME Inv, RowInv, StampIsFirstResolution, NEW a \in Attempts, at[a] \in {"commit", "detached"},
           Land(a), LandTicket(a), at' = [at EXCEPT ![a] = "done"],
           work' = [work EXCEPT ![a] = Null]
    PROVE  RowInv' /\ StampIsFirstResolution'
<1> USE DEF Inv, TypeOK, PerformTypeOK
<1> DEFINE n == Len(trail) + 1
           to == work[a].entry.to
<1>1. /\ work[a] \in Written /\ to \in Statuses \cup {Null} /\ work[a] # Null
      /\ Moves(a) <=> to # Null
      /\ Moves(a) <=> HoldsTicket(a)
  BY TicketAssumption DEF PlaceInv, Written, Entry, Moves, HoldsTicket
<1>2. /\ DOMAIN trail' = 1..n /\ DOMAIN trail = 1..Len(trail) /\ Len(trail) \in Nat
      /\ \A i \in DOMAIN trail : trail'[i] = trail[i]
      /\ trail'[n] = [by |-> a, entry |-> work[a].entry]
  BY LandEffects
<1>3. trail'[n].by = a /\ trail'[n].entry.to = to
  BY <1>2
<1>4. resolvedAt' = IF Moves(a) THEN Stamp(a) ELSE resolvedAt
  BY <1>1 DEF LandTicket, RowInv
<1> HIDE DEF to, n
<1>5. RowInv'
  <2>1. \A b \in Attempts : HoldsTicket(b)' => b # a /\ HoldsTicket(b) /\ work'[b] = work[b]
    BY DEF HoldsTicket, Moves
  <2>2. CASE Moves(a)
    BY <1>1, <2>1, <2>2 DEF RowInv
  <2>3. CASE ~Moves(a)
    BY <1>4, <2>1, <2>3 DEF RowInv, Stamp
  <2> QED
    BY <2>2, <2>3
<1>6. CASE to # "resolved"
  <2>1. Resolutions' = Resolutions
    BY <1>2, <1>3, <1>6 DEF Resolutions, n
  <2>2. resolvedAt' = resolvedAt
    BY <1>4, <1>6 DEF Stamp, to
  <2>3. \A i \in Resolutions : trail'[i] = trail[i]
    BY <1>2 DEF Resolutions
  <2> QED
    BY <1>5, <2>1, <2>2, <2>3 DEF StampIsFirstResolution
<1>7. CASE to = "resolved"
  <2>1. Moves(a)
    BY <1>1, <1>7, TicketAssumption DEF Statuses
  <2>2. /\ n \notin Resolutions /\ \A i \in Resolutions : i < n /\ trail'[i] = trail[i]
        /\ Resolutions' = Resolutions \cup {n}
    BY <1>2, <1>3, <1>7 DEF Resolutions, n
  <2>3. CASE Resolutions = {}
    <3>1. resolvedAt' = a
      BY <1>4, <1>7, <2>1, <2>3 DEF StampIsFirstResolution, Stamp, to
    <3>2. Resolutions' = {n} /\ n \in Nat
      BY <1>2, <2>2, <2>3 DEF n
    <3> QED
      BY <1>3, <1>5, <3>1, <3>2 DEF StampIsFirstResolution
  <2>4. CASE Resolutions # {}
    <3>1. PICK i \in Resolutions :
             (\A j \in Resolutions : i <= j) /\ resolvedAt = trail[i].by
      BY <2>4 DEF StampIsFirstResolution
    <3>2. resolvedAt # Null
      BY <3>1, PerformAssumption DEF Resolutions, TrailInv
    <3>3. resolvedAt' = resolvedAt
      BY <1>4, <2>1, <3>2 DEF Stamp
    <3>4. i <= n /\ i \in Nat
      BY <1>2, <2>2, <3>1 DEF Resolutions, n
    <3>5. (\A j \in Resolutions' : i <= j) /\ i \in Resolutions' /\ resolvedAt' = trail'[i].by
      BY <2>2, <3>1, <3>3, <3>4
    <3> QED
      BY <1>5, <3>5 DEF StampIsFirstResolution
  <2> QED
    BY <2>3, <2>4
<1> QED
  BY <1>6, <1>7

LEMMA NextRow ==
    Inv /\ RowInv /\ StampIsFirstResolution /\ [Next]_vars => RowInv' /\ StampIsFirstResolution'
<1> SUFFICES ASSUME Inv, RowInv, StampIsFirstResolution, [Next]_vars
             PROVE  RowInv' /\ StampIsFirstResolution'
  OBVIOUS
<1>1. ASSUME NEW a \in Attempts, (PerformStep(a) /\ UNCHANGED ticketVars) \/ ReadTicket(a)
      PROVE  RowInv' /\ StampIsFirstResolution'
  BY <1>1, QuietRow
<1>2. ASSUME NEW a \in Attempts, WriteTicket(a)
      PROVE  RowInv' /\ StampIsFirstResolution'
  BY <1>2, WriteTakesRow
<1>3. ASSUME NEW a \in Attempts, Commit(a) \/ DetachedLands(a), LandTicket(a)
      PROVE  RowInv' /\ StampIsFirstResolution'
  BY <1>3, LandStamps DEF Commit, DetachedLands, Reply, Go
<1>4. CASE UNCHANGED vars
  BY <1>4 DEF vars, performVars, ticketVars, RowInv, HoldsTicket, Moves, Stamp,
     StampIsFirstResolution, Resolutions
<1> QED
  BY <1>1, <1>2, <1>3, <1>4 DEF Next, Step

\* resolved_at is the first transition to resolved that landed, whoever read
\* the ticket when: service.go decides the transition from a read without a
\* lock, repository/tickets.go the stamp under the row's.
THEOREM FirstResolutionStamps == Spec => []StampIsFirstResolution
<1>1. Init => RowInv /\ StampIsFirstResolution
  BY DEF Init, PerformInit, RowInv, HoldsTicket, StampIsFirstResolution, Resolutions
<1>2. Inv /\ RowInv /\ StampIsFirstResolution /\ [Next]_vars => RowInv' /\ StampIsFirstResolution'
  BY NextRow
<1> QED
  BY <1>1, <1>2, InvHolds, PTL DEF Spec
=============================================================================
