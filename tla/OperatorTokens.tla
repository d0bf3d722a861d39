--------------------------- MODULE OperatorTokens ---------------------------
(***************************************************************************)
(* The Zitadel tokens the console keeps for a signed-in operator, one row  *)
(* of operator_api_tokens per session, and the requests that read, renew   *)
(* and re-check them.  Source: apps/console/lib/auth/                      *)
(* operator-token-store.ts, platform-token.ts, operator.ts, deadline.ts,   *)
(* app/auth/callback/route.ts, app/auth/logout/route.ts.                   *)
(*                                                                         *)
(* A renewal spends the refresh token, which Zitadel rotates: presenting a *)
(* spent one looks like theft.  So a renewal holds the row FOR UPDATE from *)
(* its read to its COMMIT, through the call to Zitadel, which a deadline   *)
(* bounds.  Session ids are fresh and the row is the only thing requests   *)
(* of a session share, so one session is modelled; the requests of others  *)
(* only take connections of the pool, which may always be exhausted here.  *)
(***************************************************************************)
EXTENDS Naturals, FiniteSets

CONSTANTS
    Requests,       \* slots for the requests in service, used again and again
    Connections,    \* max of the database pool
    MaxRoleChanges, \* changes of the operator's roles at Zitadel (a bound)
    MaxRefresh,     \* rotations of the refresh token (a bound)
    None

ASSUME TokensAssumption ==
    /\ IsFiniteSet(Requests)
    /\ Connections \in Nat \ {0}
    /\ MaxRoleChanges \in Nat
    /\ MaxRefresh \in Nat
    /\ None \notin Nat \cup Requests

VARIABLES
    row,            \* the session's row, or None
    cookie,         \* the roles in the session cookie, or None once cleared
    saving,         \* the callback's INSERT is still to land
    deleting,       \* the sign-out's DELETE is still to land
    zitadel,        \* the operator's roles, and the state of the grant
    late,           \* refresh tokens sent by requests that gave up on them
    req,            \* what each request is doing
    \* Histories, read by the properties only:
    lost,           \* a refresh was sent and its outcome not committed
    deleted,        \* a DELETE of the row has taken effect
    windowRoles     \* the roles when a revalidation window last passed

store == <<row, saving, deleting, deleted>>
history == <<lost, windowRoles>>
tokenVars == <<store, cookie, zitadel, late, req, history>>

Roles == 0..MaxRoleChanges          \* the roles after that many changes
RefreshTokens == 0..MaxRefresh      \* the refresh tokens, as they are issued

\* expiring: the access token is within RENEW_WITHIN_SECONDS of its end.
\* capabilities: what was last read (None: never); fresh: less than 300 s ago.
TokenRow == [expiring : BOOLEAN, refresh : RefreshTokens \cup {None},
             capabilities : Roles \cup {None}, fresh : BOOLEAN]

Grant == [roles : Roles, current : RefreshTokens, reused : BOOLEAN]

Sources == {"signInAgain", "noToken", "token", "store", "cookie"}

\* A request is idle, or of a kind and at a step:
\*   read: before its unlocked read;  connect: waiting for a connection;
\*   lock: waiting for the row;  sent: its refresh is on its way to Zitadel;
\*   reply: Zitadel has answered;  done: it has its answer.
Request ==
    [at : {"idle"}]
    \cup [at : {"read", "connect", "lock"}, kind : {"token", "capability"}]
    \cup [at : {"sent"}, kind : {"token", "capability"}, spent : RefreshTokens]
    \cup [at : {"reply"}, kind : {"token", "capability"}, spent : RefreshTokens,
          ok : BOOLEAN, next : RefreshTokens \cup {None},
          roles : Roles \cup {None}]
    \cup [at : {"done"}, source : Sources, capabilities : Roles \cup {None}]

Is(r, step) == req[r].at = step

MayArrive(r) == req[r].at \in {"idle", "done"}

Goto(r, record) == req' = [req EXCEPT ![r] = record]

Answer(r, source) ==
    Goto(r, [at |-> "done", source |-> source, capabilities |-> None])

AnswerStore(r, capabilities) ==
    Goto(r, [at |-> "done", source |-> "store", capabilities |-> capabilities])

\* What a request answers when the locked path gives it nothing: no token, or
\* the roles of the cookie (checkOperatorCapabilityLive).
AnswerNothing(r) ==
    Answer(r, IF req[r].kind = "token" THEN "noToken" ELSE "cookie")

HoldsRow(r) == req[r].at \in {"sent", "reply"}
RowFreeAlways == TRUE

RowFree == \A r \in Requests : ~HoldsRow(r)

Connected == {r \in Requests : req[r].at \in {"lock", "sent", "reply"}}

(***************************************************************************)
(* Sign-in and sign-out                                                    *)
(***************************************************************************)

\* The callback issues the cookie when its saveTokens landed, failed, or took
\* too long: in the last case the INSERT may land at any later time.
SaveLands ==
    /\ saving
    /\ \E refresh \in {zitadel.current, None}, fresh \in BOOLEAN :
          row' = [expiring |-> FALSE, refresh |-> refresh,
                  capabilities |-> cookie.roles, fresh |-> fresh]
    /\ saving' = FALSE
    /\ UNCHANGED <<cookie, deleting, deleted, zitadel, late, req, history>>

SaveLost ==
    /\ saving
    /\ saving' = FALSE
    /\ UNCHANGED <<row, cookie, deleting, deleted, zitadel, late, req, history>>

\* The cookie is cleared whether or not the DELETE is known to have landed.
SignOut ==
    /\ cookie.valid
    /\ cookie' = [cookie EXCEPT !.valid = FALSE]
    /\ deleting' = TRUE
    /\ UNCHANGED <<row, saving, deleted, zitadel, late, req, history>>

\* deleteTokens, or pruneExpired once the session has ended: both wait for a
\* request that holds the row.
DeleteLands ==
    /\ deleting
    /\ RowFree
    /\ deleted' = (deleted \/ row # None)
    /\ row' = None
    /\ deleting' = FALSE
    /\ UNCHANGED <<cookie, saving, zitadel, late, req, history>>

DeleteLost ==
    /\ deleting
    /\ deleting' = FALSE
    /\ UNCHANGED <<row, cookie, saving, deleted, zitadel, late, req, history>>

(***************************************************************************)
(* Time, and the operator's roles                                          *)
(***************************************************************************)

AccessExpires ==
    /\ row # None
    /\ RowFree
    /\ ~row.expiring
    /\ row' = [row EXCEPT !.expiring = TRUE]
    /\ UNCHANGED <<cookie, saving, deleting, deleted, zitadel, late, req, history>>

\* CAPABILITY_REVALIDATE_SECONDS pass: far longer than the deadlines of a
\* request that has begun to read.
WindowPasses ==
    /\ row # None
    /\ row.fresh
    /\ \A r \in Requests : MayArrive(r)
    /\ row' = [row EXCEPT !.fresh = FALSE]
    /\ windowRoles' = zitadel.roles
    /\ UNCHANGED <<cookie, saving, deleting, deleted, zitadel, late, req, lost>>

RolesChange ==
    /\ zitadel.roles < MaxRoleChanges
    /\ zitadel' = [zitadel EXCEPT !.roles = @ + 1]
    /\ UNCHANGED <<store, cookie, late, req, history>>

(***************************************************************************)
(* The unlocked reads                                                      *)
(***************************************************************************)

Arrive(r, kind) ==
    /\ MayArrive(r)
    /\ cookie.valid
    /\ Goto(r, [at |-> "read", kind |-> kind])
    /\ UNCHANGED <<store, cookie, zitadel, late, history>>

\* resolvePlatformApiToken
ReadToken(r) ==
    /\ Is(r, "read")
    /\ req[r].kind = "token"
    /\ CASE row = None -> Answer(r, "signInAgain")
         [] row # None /\ ~row.expiring -> Answer(r, "token")
         [] row # None /\ row.expiring /\ row.refresh = None -> Answer(r, "signInAgain")
         [] OTHER -> Goto(r, [req[r] EXCEPT !.at = "connect"])
    /\ UNCHANGED <<store, cookie, zitadel, late, history>>

IsFresh == row.capabilities # None /\ row.fresh

\* resolveLiveCapabilities
ReadCapabilities(r) ==
    /\ Is(r, "read")
    /\ req[r].kind = "capability"
    /\ CASE row = None -> Answer(r, "cookie")
         [] row # None /\ IsFresh -> AnswerStore(r, row.capabilities)
         [] OTHER -> Goto(r, [req[r] EXCEPT !.at = "connect"])
    /\ UNCHANGED <<store, cookie, zitadel, late, history>>

\* The store cannot be read, or no connection comes free in time.
StoreUnavailable(r) ==
    /\ req[r].at \in {"read", "connect"}
    /\ AnswerNothing(r)
    /\ UNCHANGED <<store, cookie, zitadel, late, history>>

(***************************************************************************)
(* renewUnderLock and revalidateUnderLock                                  *)
(***************************************************************************)

Connect(r) ==
    /\ Is(r, "connect")
    /\ Cardinality(Connected) < Connections
    /\ Goto(r, [req[r] EXCEPT !.at = "lock"])
    /\ UNCHANGED <<store, cookie, zitadel, late, history>>

\* Another request may have done the work while this one waited.
Settled(r) == IF req[r].kind = "token" THEN ~row.expiring ELSE IsFresh
RenewableAlways == TRUE

\* Did the sign-in bring a refresh token.
Renewable == row.refresh # None

\* SELECT ... FOR UPDATE, and everything the code checks again under the lock.
Lock(r) ==
    /\ Is(r, "lock")
    /\ RowFree
    /\ CASE row = None -> AnswerNothing(r)
         [] row # None /\ Settled(r) ->
               IF req[r].kind = "token" THEN Answer(r, "token")
               ELSE AnswerStore(r, row.capabilities)
         [] row # None /\ ~Settled(r) /\ ~Renewable -> AnswerNothing(r)
         [] OTHER -> Goto(r, [at |-> "sent", kind |-> req[r].kind,
                              spent |-> row.refresh])
    /\ UNCHANGED <<store, cookie, zitadel, late, history>>

\* Zitadel rotates a current token (or leaves it, by configuration).  A spent
\* one is refused, and may cost the grant.
Spend(token) ==
    IF token = zitadel.current
    THEN \E next \in {zitadel.current, zitadel.current + 1} \cap RefreshTokens :
            zitadel' = [zitadel EXCEPT !.current = next]
    ELSE zitadel' = [zitadel EXCEPT !.reused = TRUE]

\* The refresh arrives and is answered: refused, or with a new access token,
\* a new refresh token if there is one, and the roles if they can be read.
ZitadelAnswers(r) ==
    LET token == req[r].spent
        ok == token = zitadel.current /\ ~zitadel.reused
    IN
    /\ Is(r, "sent")
    /\ Spend(token)
    /\ \E roles \in {zitadel.roles, None} :
          Goto(r, [at |-> "reply", kind |-> req[r].kind, spent |-> token, ok |-> ok,
                   next |-> IF zitadel'.current = token THEN None ELSE zitadel'.current,
                   roles |-> IF req[r].kind = "token" THEN None ELSE roles])
    /\ UNCHANGED <<store, cookie, late, history>>
SavedAsChecked(reply, refresh) ==
    [expiring |-> FALSE,
     refresh |-> refresh,
     capabilities |-> IF reply.roles # None THEN reply.roles
                      ELSE IF row = None THEN None ELSE row.capabilities,
     fresh |-> TRUE]

\* INSERT ... ON CONFLICT (sid) DO UPDATE: capabilities that were not read
\* leave the stored ones, and the time they were read, alone.
Saved(reply, refresh) ==
    [expiring |-> FALSE,
     refresh |-> refresh,
     capabilities |-> IF reply.roles # None THEN reply.roles
                      ELSE IF row = None THEN None ELSE row.capabilities,
     fresh |-> reply.roles # None \/ (row # None /\ row.fresh)]
KeptAsSpent(reply) == reply.spent

\* The refresh token to keep: the new one, else the one that was spent.
Kept(reply) == IF reply.next # None THEN reply.next ELSE reply.spent

Commit(r) ==
    /\ Is(r, "reply")
    /\ req[r].ok
    /\ row' = Saved(req[r], Kept(req[r]))
    /\ CASE req[r].kind = "token" -> Answer(r, "token")
         [] req[r].kind = "capability" /\ req[r].roles # None ->
               AnswerStore(r, req[r].roles)
         [] OTHER -> AnswerNothing(r)
    /\ UNCHANGED <<saving, deleting, deleted, cookie, zitadel, late, history>>

\* Zitadel refused: null is returned, and nothing was written.
Refused(r) ==
    /\ Is(r, "reply")
    /\ ~req[r].ok
    /\ AnswerNothing(r)
    /\ UNCHANGED <<store, cookie, zitadel, late, history>>
DeadlineEndsOnceAnswered(r) == Is(r, "reply")

\* withDeadline is around the call to Zitadel only.  A statement after it that
\* fails, and a console that stops, end a request alike: while it holds the row.
DeadlineEnds(r) == HoldsRow(r)

\* withDeadline rejects, the write or the COMMIT fails, or the console stops:
\* ROLLBACK.  A refresh still on its way may arrive all the same.
GiveUp(r) ==
    /\ DeadlineEnds(r)
    /\ lost' = TRUE
    /\ late' = IF Is(r, "sent") THEN late \cup {req[r].spent} ELSE late
    /\ AnswerNothing(r)
    /\ UNCHANGED <<store, cookie, zitadel, windowRoles>>

LateArrives(token) ==
    /\ token \in late
    /\ Spend(token)
    /\ late' = late \ {token}
    /\ UNCHANGED <<store, cookie, req, history>>

(***************************************************************************)
(* The specification                                                       *)
(***************************************************************************)

TokensInit ==
    /\ row = None
    /\ cookie = [valid |-> TRUE, roles |-> 0]
    /\ saving = TRUE
    /\ deleting = FALSE
    /\ zitadel = [roles |-> 0, current |-> 0, reused |-> FALSE]
    /\ late = {}
    /\ req = [r \in Requests |-> [at |-> "idle"]]
    /\ lost = FALSE
    /\ deleted = FALSE
    /\ windowRoles = 0

\* What the console does for a request that is past its arrival.
Serve(r) ==
    \/ ReadToken(r) \/ ReadCapabilities(r) \/ StoreUnavailable(r)
    \/ Connect(r) \/ Lock(r)
    \/ Commit(r) \/ Refused(r) \/ GiveUp(r)

TokensNext ==
    \/ SaveLands \/ SaveLost
    \/ SignOut \/ DeleteLands \/ DeleteLost
    \/ AccessExpires \/ WindowPasses \/ RolesChange
    \/ \E r \in Requests :
          \/ \E kind \in {"token", "capability"} : Arrive(r, kind)
          \/ Serve(r)
          \/ ZitadelAnswers(r)
    \/ \E token \in RefreshTokens : LateArrives(token)
=============================================================================
