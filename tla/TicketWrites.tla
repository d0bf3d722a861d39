----------------------------- MODULE TicketWrites -----------------------------
(***************************************************************************)
(* The writes of platform-api's tickets module through write.Perform:      *)
(* filing a ticket, replying to one, moving one to another status.         *)
(* Source: platform-api/internal/modules/tickets/internal/                 *)
(* service/service.go, service/create.go, service/replyeffect.go,          *)
(* domain/ticket.go, repository/tickets.go.                                *)
(*                                                                         *)
(* An operation reads the ticket without a lock and decides from what it   *)
(* read; its UPDATE then waits for the row, which it holds until COMMIT.   *)
(* One ticket is modelled: two share no row.                               *)
(***************************************************************************)
EXTENDS PerformWrite

VARIABLES
    status,     \* platform_tickets.status of the ticket
    resolvedAt, \* the attempt that stamped resolved_at, or Null
    thread      \* platform_ticket_replies: the attempts that replied

ticketVars == <<status, resolvedAt, thread>>
vars == <<performVars, ticketVars>>

Statuses == {"open", "in_progress", "resolved", "closed"}

TicketRequest ==
    [verb : {"create"}]
    \cup [verb : {"status"}, to : Statuses]
    \cup [verb : {"reply"}, author : {"operator"}, to : Statuses \cup {Null}]
    \cup [verb : {"reply"}, author : {"merchant"}, to : {Null}]

Entry == [action : {"tickets.create", "tickets.reply", "tickets.status",
                    "tickets.reopen"}, to : Statuses \cup {Null}]

\* to: the status the operation sets (Null: none).  stamp: what its UPDATE
\* left in resolved_at.
Written == [entry : Entry, stamp : Attempts \cup {Null}]

ASSUME TicketAssumption ==
    /\ Requests \subseteq TicketRequest
    /\ Null \notin Statuses \cup Written

(***************************************************************************)
(* What an operation decides from the ticket it has read                   *)
(***************************************************************************)

IsTerminal(s) == s \in {"resolved", "closed"}
Reopening(from, to) == IsTerminal(from) /\ ~IsTerminal(to)

\* The status a request asks for; a merchant's reply reopens a resolved ticket.
Effect(request) ==
    CASE request.verb = "create" -> Null
      [] request.verb = "status" -> request.to
      [] request.verb = "reply" ->
            IF request.author = "merchant" /\ status = "resolved" THEN "open"
            ELSE request.to

\* A merchant may not reply to a closed ticket; nothing moves to the status it
\* is in (Transition).
Refuses(request) ==
    \/ request.verb = "reply" /\ request.author = "merchant" /\ status = "closed"
    \/ request.verb # "create" /\ Effect(request) = status
ActionNameBare(request) == request.verb

ActionName(request) ==
    CASE request.verb = "create" -> "tickets.create"
      [] request.verb = "status" ->
            IF Reopening(status, request.to) THEN "tickets.reopen" ELSE "tickets.status"
      [] request.verb = "reply" ->
            IF request.author = "merchant" /\ status = "resolved"
            THEN "tickets.reopen" ELSE "tickets.reply"

(***************************************************************************)
(* The steps of the operation                                              *)
(***************************************************************************)

\* repository.Get, and every decision that is taken from its row.
ReadTicket(a) ==
    LET request == call[a].request IN
    /\ at[a] = "work"
    /\ IF Refuses(request)
       THEN Reply(a, "failed")
       ELSE /\ work' = [work EXCEPT ![a] =
                  [entry |-> [action |-> ActionName(request), to |-> Effect(request)],
                   stamp |-> Null]]
            /\ Go(a, "write")
            /\ UNCHANGED answer
    /\ UNCHANGED <<call, records, trail, ticketVars>>

Moves(a) == work[a] # Null /\ work[a].entry.to # Null
HoldsTicketNever(a) == FALSE

\* The UPDATE of another transaction has the row until its COMMIT.
HoldsTicket(a) == at[a] \in {"record", "commit", "replay", "detached"} /\ Moves(a)
TicketFree(a) == \A b \in Attempts \ {a} : ~HoldsTicket(b)

\* CASE WHEN $2 = 'resolved' AND resolved_at IS NULL THEN now() ELSE resolved_at
Stamp(a) ==
    IF work[a].entry.to = "resolved" /\ resolvedAt = Null THEN a ELSE resolvedAt

\* InsertReply or Insert, and SetStatus, which waits for the row.
WriteTicket(a) ==
    /\ at[a] = "write"
    /\ Moves(a) => TicketFree(a)
    /\ Worked(a, [work[a] EXCEPT !.stamp = IF Moves(a) THEN Stamp(a) ELSE Null])
    /\ UNCHANGED ticketVars

\* What becomes visible with COMMIT.
LandTicket(a) ==
    /\ status' = IF Moves(a) THEN work[a].entry.to ELSE status
    /\ resolvedAt' = IF Moves(a) THEN work[a].stamp ELSE resolvedAt
    /\ thread' = IF call[a].request.verb = "reply" THEN thread \cup {a} ELSE thread

(***************************************************************************)
(* The specification                                                       *)
(***************************************************************************)

Init ==
    /\ PerformInit
    /\ status = "open"
    /\ resolvedAt = Null
    /\ thread = {}

Step(a) ==
    \/ PerformStep(a) /\ UNCHANGED ticketVars
    \/ ReadTicket(a)
    \/ WriteTicket(a)
    \/ Commit(a) /\ LandTicket(a)
    \/ DetachedLands(a) /\ LandTicket(a)

Next == \E a \in Attempts : Step(a)

\* The server goes on with every request while its client waits, and Postgres
\* ends the transaction of a lost connection.  Nobody has to give up.
Serve(a) ==
    \/ (Lookup(a) \/ Begin(a) \/ Record(a) \/ ReplayStored(a)) /\ UNCHANGED ticketVars
    \/ ReadTicket(a) \/ WriteTicket(a)
    \/ Commit(a) /\ LandTicket(a)
    \/ DetachedRollsBack(a) /\ UNCHANGED ticketVars

Spec == Init /\ [][Next]_vars /\ \A a \in Attempts : WF_vars(Serve(a))

(***************************************************************************)
(* What should hold                                                        *)
(***************************************************************************)

\* Every variable stays in its set.
TypeOK ==
    /\ PerformTypeOK
    /\ work \in [Attempts -> Written \cup {Null}]
    /\ status \in Statuses
    /\ resolvedAt \in Attempts \cup {Null}
    /\ thread \subseteq Attempts

\* resolved_at belongs to the first transition to resolved that landed, and
\* stays with it, however the transitions overlap: the UPDATE decides under its
\* row lock, not the read before it, and no write that was rolled back or lost
\* its key leaves a stamp.
Resolutions == {i \in DOMAIN trail : trail[i].entry.to = "resolved"}
StampIsFirstResolution ==
    IF Resolutions = {} THEN resolvedAt = Null
    ELSE \E i \in Resolutions :
            (\A j \in Resolutions : i <= j) /\ resolvedAt = trail[i].by

\* Every call is answered while its client waits: nobody waits for ever for a
\* key, for the row or for a connection.
EveryCallAnswered ==
    \A a \in Attempts : (call[a] # Null) ~> (answer[a] # Null)

\* Perform keeps the promise of the idempotency convention.
WriteOnceSpec == INSTANCE WriteOnce WITH effects <- Effects
KeepsThePromise == WriteOnceSpec!Spec
=============================================================================
