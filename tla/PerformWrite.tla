----------------------------- MODULE PerformWrite -----------------------------
(***************************************************************************)
(* write.Perform of platform-api: a mutation, its audit row and its        *)
(* idempotency record in one transaction, over a small connection pool.    *)
(* Source: platform-api/internal/platform/write/write.go,                  *)
(* idempotency/idempotency.go, audit/audit.go.                             *)
(*                                                                         *)
(* The operation is the caller's (TicketWrites): it moves an attempt from  *)
(* "work" to its end with Worked or refuses it with Fail.  What the        *)
(* transaction has written waits in work[a] until it commits.              *)
(***************************************************************************)
EXTENDS Naturals, FiniteSets, Sequences

CONSTANTS
    Attempts,       \* HTTP requests, retries included, each made once
    Keys,           \* a principal with an Idempotency-Key
    Requests,       \* an operation with the digest of its body
    Connections,    \* TESSERIX_DB_MAX_CONNS (two by default)
    Concurrency,    \* attempts in service at a time (a bound)
    Null

Call == [key : Keys \cup {Null}, request : Requests]
IdempotencyRecord == [request : Requests, by : Attempts]

ASSUME PerformAssumption ==
    /\ Connections \in Nat \ {0}
    /\ Concurrency \in Nat \ {0}
    /\ Null \notin Attempts \cup Keys \cup Requests \cup Call \cup IdempotencyRecord
    /\ {"failed", "reused"} \cap Attempts = {}
    /\ Null \notin {"failed", "reused"}

VARIABLES
    at,         \* where each attempt is
    call,       \* its key (Null: none was sent) and its request
    work,       \* what its transaction has read and written so far
    answer,     \* what its client was told
    records,    \* platform_api_idempotency: [request, by], or Null
    trail       \* console_audit_log, as it was committed

performVars == <<at, call, work, answer, records, trail>>

\* lookup: before the replay check;  begin: waiting for a connection;
\* work, write: the operation reads, then writes;  record: it has written,
\* and its audit row too;  commit: its key is claimed;  replay: another claimed
\* it first;  detached: the client gave up during COMMIT.
Places == {"idle", "lookup", "begin", "work", "write", "record", "commit",
           "replay", "detached", "done"}

Answers == Attempts \cup {Null, "failed", "reused"}

InService == {a \in Attempts : at[a] \notin {"idle", "detached", "done"}}

(***************************************************************************)
(* Connections and transactions                                            *)
(***************************************************************************)

Transaction == {"work", "write", "record", "commit", "replay"}
HoldsConnectionAfterwards(a) == at[a] \in Transaction \cup {"done"}

\* pgx drops the connection of a COMMIT that was cancelled: it is no longer
\* the pool's, while Postgres may still be committing.
HoldsConnection(a) == at[a] \in Transaction
ConnectionFree == Cardinality({a \in Attempts : HoldsConnection(a)}) < Connections
ClaimsNothing(a, key) == FALSE

\* The INSERT of the key is done and not committed: another INSERT of it waits.
Claims(a, key) == at[a] \in {"commit", "detached"} /\ call[a].key = key

Go(a, place) == at' = [at EXCEPT ![a] = place]

\* The answer; the deferred Rollback gives up what the transaction wrote.
Reply(a, value) ==
    /\ Go(a, "done")
    /\ answer' = [answer EXCEPT ![a] = value]
    /\ work' = [work EXCEPT ![a] = Null]

(***************************************************************************)
(* Perform                                                                 *)
(***************************************************************************)

\* A client sends a request, or sends one again: after an answer, after it
\* gave up, or while the first one is still being served.
Arrive(a, key, request) ==
    /\ at[a] = "idle"
    /\ Cardinality(InService) < Concurrency
    /\ call' = [call EXCEPT ![a] = [key |-> key, request |-> request]]
    /\ Go(a, IF key = Null THEN "begin" ELSE "lookup")
    /\ UNCHANGED <<work, answer, records, trail>>
\* idempotency.Lookup of a stored record: the same operation and digest only.
Found(a) ==
    LET stored == records[call[a].key] IN
    IF stored.request = call[a].request THEN stored.by ELSE "reused"

\* The replay check, on a connection of the pool that it returns at once.
Lookup(a) ==
    /\ at[a] = "lookup"
    /\ ConnectionFree
    /\ IF records[call[a].key] # Null
       THEN Reply(a, Found(a))
       ELSE Go(a, "begin") /\ UNCHANGED <<work, answer>>
    /\ UNCHANGED <<call, records, trail>>

Begin(a) ==
    /\ at[a] = "begin"
    /\ ConnectionFree
    /\ Go(a, "work")
    /\ UNCHANGED <<call, work, answer, records, trail>>

\* The operation has returned, and audit.Write has added its row.
Worked(a, written) ==
    /\ work' = [work EXCEPT ![a] = written]
    /\ Go(a, IF call[a].key = Null THEN "commit" ELSE "record")
    /\ UNCHANGED <<call, answer, records, trail>>
KeyIsNewAlways(a) == TRUE

\* RowsAffected of that INSERT.
KeyIsNew(a) == records[call[a].key] = Null

\* idempotency.Record: INSERT ... ON CONFLICT DO NOTHING waits for a peer that
\* has inserted the key, and adds no row when that peer commits.
Record(a) ==
    /\ at[a] = "record"
    /\ \A b \in Attempts \ {a} : ~Claims(b, call[a].key)
    /\ Go(a, IF KeyIsNew(a) THEN "commit" ELSE "replay")
    /\ UNCHANGED <<call, work, answer, records, trail>>

\* The loser reads the winner's record on a second connection, while its own
\* transaction still holds the first one.
ReplayStored(a) ==
    /\ at[a] = "replay"
    /\ ConnectionFree
    /\ Reply(a, IF records[call[a].key] = Null THEN "failed" ELSE Found(a))
    /\ UNCHANGED <<call, records, trail>>

\* COMMIT: the operation's rows, its audit row and its record, all at once.
Land(a) ==
    /\ trail' = Append(trail, [by |-> a, entry |-> work[a].entry])
    /\ records' = IF call[a].key = Null THEN records
                  ELSE [records EXCEPT ![call[a].key] =
                            [request |-> call[a].request, by |-> a]]

Commit(a) ==
    /\ at[a] = "commit"
    /\ Land(a)
    /\ Reply(a, a)
    /\ UNCHANGED call

\* Any statement may fail, the operation may refuse, the client may give up
\* and the process may stop: the deferred Rollback runs, or Postgres does it.
Fail(a) ==
    /\ at[a] \in {"lookup", "begin"} \cup Transaction
    /\ Reply(a, "failed")
    /\ UNCHANGED <<call, records, trail>>

\* COMMIT was sent, and the client or the process is gone before its reply.
Detach(a) ==
    /\ at[a] = "commit"
    /\ Go(a, "detached")
    /\ answer' = [answer EXCEPT ![a] = "failed"]
    /\ UNCHANGED <<call, work, records, trail>>

DetachedLands(a) ==
    /\ at[a] = "detached"
    /\ Land(a)
    /\ Go(a, "done")
    /\ work' = [work EXCEPT ![a] = Null]
    /\ UNCHANGED <<call, answer>>

DetachedRollsBack(a) ==
    /\ at[a] = "detached"
    /\ Go(a, "done")
    /\ work' = [work EXCEPT ![a] = Null]
    /\ UNCHANGED <<call, answer, records, trail>>

PerformInit ==
    /\ at = [a \in Attempts |-> "idle"]
    /\ call = [a \in Attempts |-> Null]
    /\ work = [a \in Attempts |-> Null]
    /\ answer = [a \in Attempts |-> Null]
    /\ records = [k \in Keys |-> Null]
    /\ trail = <<>>

\* The steps of Perform that leave the operation's own tables alone.
PerformStep(a) ==
    \/ \E key \in Keys \cup {Null}, request \in Requests : Arrive(a, key, request)
    \/ Lookup(a) \/ Begin(a) \/ Record(a) \/ ReplayStored(a)
    \/ Fail(a) \/ Detach(a) \/ DetachedRollsBack(a)

\* The attempts whose writes are in the database, by their audit rows.
Effects == {trail[i].by : i \in DOMAIN trail}

(***************************************************************************)
(* What should hold of Perform                                             *)
(***************************************************************************)

\* Every variable of the kernel stays in its set.
PerformTypeOK ==
    /\ at \in [Attempts -> Places]
    /\ call \in [Attempts -> Call \cup {Null}]
    /\ answer \in [Attempts -> Answers]
    /\ records \in [Keys -> IdempotencyRecord \cup {Null}]
    /\ \A i \in DOMAIN trail : trail[i].by \in Attempts

\* A write whose client sent a key lands once, whatever is retried, submitted
\* twice or lost: no two audited writes of one key, and none twice.
LandsOnce ==
    \A i, j \in DOMAIN trail :
        i # j => /\ trail[i].by # trail[j].by
                 /\ call[trail[i].by].key # Null
                    => call[trail[i].by].key # call[trail[j].by].key

\* A key in the table always corresponds to a committed write, of the request
\* it names; a write that was rolled back leaves no key behind.
KeyMeansWrite ==
    \A k \in Keys :
        records[k] # Null =>
            /\ records[k].by \in Effects
            /\ call[records[k].by] = [key |-> k, request |-> records[k].request]
=============================================================================
