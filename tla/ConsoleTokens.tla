---------------------------- MODULE ConsoleTokens ----------------------------
(***************************************************************************)
(* The credentials of the console's requests: the operator's own, kept in  *)
(* the database (OperatorTokens), and the console's machine token, kept in *)
(* the memory of one process.  Source: apps/console/lib/auth/              *)
(* machine-token.ts, and the files of OperatorTokens.                      *)
(*                                                                         *)
(* The machine token is minted when the cached one is within a minute of   *)
(* its end; requests that arrive meanwhile join the mint that is in        *)
(* flight.  The credential comes from the environment of the process, so   *)
(* there is one cache key.                                                 *)
(***************************************************************************)
EXTENDS OperatorTokens

VARIABLES
    serving,    \* which credential the requests are for, "operator" or "machine":
                \* the two share nothing, so one is explored at a time (a bound)
    cached,     \* is a usable machine token cached
    inFlight,   \* the module's in-flight promise is set
    mints       \* mint requests sent to Zitadel and not settled

machineVars == <<serving, cached, inFlight, mints>>
vars == <<tokenVars, machineVars>>

ArriveMachine(r) ==
    /\ serving = "machine"
    /\ MayArrive(r)
    /\ Goto(r, [at |-> "machine"])
    /\ UNCHANGED <<store, cookie, zitadel, late, history, machineVars>>
MintsOfItsOwn == mints + 1

\* A mint in flight is joined.
MintsOnceJoined == IF inFlight THEN mints ELSE mints + 1

\* resolveMachineToken, up to its await: one turn of the event loop.
ResolveMachineToken(r) ==
    /\ Is(r, "machine")
    /\ IF cached
       THEN Answer(r, "token") /\ UNCHANGED machineVars
       ELSE /\ Goto(r, [at |-> "joined"])
            /\ mints' = MintsOnceJoined
            /\ inFlight' = TRUE
            /\ UNCHANGED <<serving, cached>>
    /\ UNCHANGED <<store, cookie, zitadel, late, history>>

\* Everyone who joined the mint gets what it came to.
AnswerJoined(source) ==
    req' = [r \in Requests |->
               IF Is(r, "joined")
               THEN [at |-> "done", source |-> source, capabilities |-> None]
               ELSE req[r]]

\* The mint succeeds: its token is cached unless it lives less than a minute.
MintSucceeds ==
    /\ mints > 0
    /\ mints' = mints - 1
    /\ inFlight' = FALSE
    /\ cached' \in BOOLEAN
    /\ AnswerJoined("token")
    /\ UNCHANGED <<store, cookie, zitadel, late, history, serving>>

\* Rejected, unreadable, or past its deadline.
MintFails ==
    /\ mints > 0
    /\ mints' = mints - 1
    /\ inFlight' = FALSE
    /\ AnswerJoined("noToken")
    /\ UNCHANGED <<store, cookie, zitadel, late, history, serving, cached>>

CachedExpires ==
    /\ cached
    /\ cached' = FALSE
    /\ UNCHANGED <<tokenVars, serving, inFlight, mints>>

Init ==
    /\ TokensInit
    /\ serving \in {"operator", "machine"}
    /\ cached = FALSE
    /\ inFlight = FALSE
    /\ mints = 0

Next ==
    \/ serving = "operator" /\ TokensNext /\ UNCHANGED machineVars
    \/ \E r \in Requests : ArriveMachine(r) \/ ResolveMachineToken(r)
    \/ MintSucceeds \/ MintFails \/ CachedExpires

\* The console goes on with every request it has begun to serve, Postgres
\* gives a row lock to its waiters in turn (a waiter that is free again and
\* again gets it), and the deadlines end the calls to Zitadel; Zitadel itself
\* may never answer.
ServeAny(r) == (Serve(r) /\ UNCHANGED machineVars) \/ ResolveMachineToken(r)

Fairness ==
    /\ \A r \in Requests : WF_vars(ServeAny(r))
    /\ \A r \in Requests : SF_vars(Lock(r) /\ UNCHANGED machineVars)
    /\ WF_vars(MintFails)

Spec == Init /\ [][Next]_vars /\ Fairness

(***************************************************************************)
(* What should hold                                                        *)
(***************************************************************************)

\* Every variable stays in its set.
TypeOK ==
    /\ row \in TokenRow \cup {None}
    /\ cookie \in [valid : BOOLEAN, roles : Roles]
    /\ {saving, deleting, deleted, lost, cached, inFlight} \subseteq BOOLEAN
    /\ zitadel \in Grant
    /\ late \subseteq RefreshTokens
    /\ req \in [Requests -> Request \cup [at : {"machine", "joined"}]]
    /\ windowRoles \in Roles
    /\ serving \in {"operator", "machine"}
    /\ mints \in 0..Cardinality(Requests)

\* However many requests find the token expiring at once, no refresh token is
\* spent twice -- which Zitadel may take for theft and end the grant -- unless
\* an earlier refresh was abandoned (its deadline, a failed COMMIT): the lock
\* is held across the refresh, and the row is read again under it.
SpentTwiceOnlyAfterLoss == zitadel.reused => lost

\* Between renewals the row keeps the one refresh token Zitadel will accept,
\* whether it rotated the last one or not, unless a refresh was abandoned.
RowKeepsCurrent ==
    row # None /\ row.refresh # None /\ RowFree /\ ~lost
        => row.refresh = zitadel.current

\* A sign-out whose DELETE took effect is final: no renewal that was under way
\* brings the row back through its upsert.
SignedOutStaysOut == deleted => row = None

\* Capabilities answered from the store are never older than the revalidation
\* window: a role taken away is refused once the window has passed, even when
\* the refreshed token's roles could not be read.
StoreAnswersAreRecent ==
    [][\A r \in Requests :
          req'[r].at = "done" /\ req[r].at # "done" /\ req'[r].source = "store"
          => req'[r].capabilities >= windowRoles]_vars

\* The console never has two mints of the machine token in flight.
OneMintInFlight == mints <= 1

\* Every request is answered, with or without a token, however Zitadel and the
\* pool behave: nobody waits for ever for the row, a connection or a mint.
EveryRequestAnswered ==
    \A r \in Requests : (req[r].at # "idle") ~> (req[r].at = "done")
=============================================================================
