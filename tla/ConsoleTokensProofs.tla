------------------------- MODULE ConsoleTokensProofs -------------------------
(***************************************************************************)
(* Proofs about the credentials of the console's requests, for any number  *)
(* of requests at a time, any pool and any bounds.                         *)
(*                                                                         *)
(* The argument is that the row lock has one holder (OneHolder): it spends *)
(* the refresh token of a row nobody else can change, so, until a refresh  *)
(* is abandoned, what it spends is the current one and what it commits is  *)
(* what Zitadel issued (CurrentKept).  The same exclusion keeps what was   *)
(* read of the roles within the revalidation window (ReadRecently).        *)
(***************************************************************************)
EXTENDS ConsoleTokens, FiniteSetTheorems, TLAPS

Stage == Request \cup [at : {"machine", "joined"}]

\* The lock has one holder, and a row under it: no INSERT is still to land once
\* there is or was a row, so none lands under the holder or after the DELETE.
OneHolder ==
    /\ \A r, q \in Requests : HoldsRow(r) /\ HoldsRow(q) => r = q
    /\ \A r \in Requests : HoldsRow(r) => row # None
    /\ row # None => ~saving
    /\ deleted => row = None /\ ~saving

\* Until a refresh is abandoned, whoever has a refresh token has the current one.
CurrentKept ==
    ~lost =>
       /\ late = {}
       /\ ~zitadel.reused
       /\ RowFree /\ row # None /\ row.refresh # None => row.refresh = zitadel.current
       /\ \A r \in Requests :
             /\ Is(r, "sent") => req[r].spent = zitadel.current
             /\ Is(r, "reply") => req[r].ok /\ Kept(req[r]) = zitadel.current

\* Roles that may be answered from the store are those of the window or later.
ReadRecently ==
    /\ windowRoles <= zitadel.roles
    /\ saving => windowRoles <= cookie.roles
    /\ row # None /\ IsFresh => windowRoles <= row.capabilities
    /\ \A r \in Requests :
          Is(r, "reply") /\ req[r].roles # None => windowRoles <= req[r].roles

\* The in-flight promise stands for the one mint.
MintJoined == mints \in {0, 1} /\ (inFlight <=> mints = 1)

Inv == TypeOK /\ OneHolder /\ CurrentKept /\ ReadRecently /\ MintJoined

(***************************************************************************)
(* Requests                                                                *)
(***************************************************************************)

LEMMA GotoChanges ==
    ASSUME TypeOK, NEW r \in Requests, NEW record \in Stage, Goto(r, record)
    PROVE  /\ req' \in [Requests -> Stage]
           /\ req'[r] = record
           /\ \A q \in Requests \ {r} : req'[q] = req[q]
BY DEF TypeOK, Goto, Stage

LEMMA AnswerRecord ==
    ASSUME NEW source \in Sources, NEW capabilities \in Roles \cup {None}
    PROVE  [at |-> "done", source |-> source, capabilities |-> capabilities] \in Stage
BY DEF Stage, Request

\* What a stage tells of the fields of its record.
LEMMA StageFields ==
    ASSUME NEW s \in Stage
    PROVE  /\ s.at \in {"read", "connect", "lock"} => s.kind \in {"token", "capability"}
           /\ s.at = "sent" => s.spent \in RefreshTokens /\ s.kind \in {"token", "capability"}
           /\ s.at = "reply" =>
                 /\ s.spent \in RefreshTokens /\ s.ok \in BOOLEAN
                 /\ s.kind \in {"token", "capability"}
                 /\ s.next \in RefreshTokens \cup {None}
                 /\ s.roles \in Roles \cup {None}
BY DEF Stage, Request

LEMMA NoneIsNoNumber == None \notin Roles /\ None \notin RefreshTokens
BY TokensAssumption DEF Roles, RefreshTokens

LEMMA InitInv == Init => Inv
<1> SUFFICES ASSUME Init PROVE Inv
  OBVIOUS
<1> USE TokensAssumption DEF Init, TokensInit
<1>1. TypeOK
  <2>1. req \in [Requests -> Stage]
    BY DEF Stage, Request
  <2>2. Cardinality(Requests) \in Nat
    BY FS_CardinalityType
  <2>3. zitadel \in Grant /\ cookie \in [valid : BOOLEAN, roles : Roles] /\ windowRoles \in Roles
    BY DEF Grant, Roles, RefreshTokens
  <2>4. {saving, deleting, deleted, lost, cached, inFlight} \subseteq BOOLEAN
    OBVIOUS
  <2>5. row \in TokenRow \cup {None} /\ late \subseteq RefreshTokens
    OBVIOUS
  <2>6. serving \in {"operator", "machine"} /\ mints \in 0..Cardinality(Requests)
    BY <2>2
  <2> QED
    BY <2>1, <2>3, <2>4, <2>5, <2>6, Zenon DEF TypeOK, Stage
<1>2. OneHolder /\ CurrentKept /\ MintJoined
  BY DEF OneHolder, CurrentKept, MintJoined, HoldsRow, Is
<1>3. ReadRecently
  BY DEF ReadRecently, Is
<1> QED
  BY <1>1, <1>2, <1>3 DEF Inv

\* A request that holds nothing moves, and nothing else changes.
LEMMA QuietStep ==
    ASSUME Inv, NEW r \in Requests, NEW record \in Stage, Goto(r, record),
           ~HoldsRow(r), record.at \notin {"sent", "reply"},
           UNCHANGED <<store, cookie, zitadel, late, history, machineVars>>
    PROVE  Inv'
<1> USE DEF store, history, machineVars
<1>1. /\ req' \in [Requests -> Stage]
      /\ req'[r] = record
      /\ \A q \in Requests \ {r} : req'[q] = req[q]
  BY GotoChanges DEF Inv
<1>2. TypeOK'
  BY <1>1 DEF Inv, TypeOK, Stage
<1>3. \A q \in Requests : (HoldsRow(q)' <=> HoldsRow(q)) /\ (HoldsRow(q) => req'[q] = req[q])
  BY <1>1 DEF HoldsRow
<1>4. OneHolder'
  BY <1>3 DEF Inv, OneHolder
<1>5. CurrentKept'
  BY <1>3 DEF Inv, CurrentKept, RowFree, HoldsRow, Is, Kept
<1>6. ReadRecently'
  BY <1>3 DEF Inv, ReadRecently, HoldsRow, Is, IsFresh
<1>7. MintJoined'
  BY DEF Inv, MintJoined
<1> QED
  BY <1>2, <1>4, <1>5, <1>6, <1>7 DEF Inv

LEMMA AnswerNothingStep ==
    ASSUME NEW r \in Requests, AnswerNothing(r)
    PROVE  \E record \in Stage : record.at = "done" /\ record.source # "store" /\ Goto(r, record)
<1> DEFINE source == IF req[r].kind = "token" THEN "noToken" ELSE "cookie"
<1> DEFINE record == [at |-> "done", source |-> source, capabilities |-> None]
<1>1. record \in Stage
  BY AnswerRecord DEF Sources
<1>2. Goto(r, record)
  BY DEF AnswerNothing, Answer
<1> QED
  BY <1>1, <1>2

(***************************************************************************)
(* Sign-in, sign-out, time and roles                                       *)
(***************************************************************************)

LEMMA SaveLandsInv ==
    ASSUME Inv, SaveLands, UNCHANGED machineVars
    PROVE  Inv'
<1> USE NoneIsNoNumber DEF Inv, SaveLands, history, machineVars
<1>1. PICK refresh \in {zitadel.current, None}, fresh \in BOOLEAN :
         row' = [expiring |-> FALSE, refresh |-> refresh,
                 capabilities |-> cookie.roles, fresh |-> fresh]
  OBVIOUS
<1>2. row = None /\ RowFree /\ ~deleted
  BY DEF OneHolder, RowFree
<1>3. zitadel.current \in RefreshTokens /\ cookie.roles \in Roles
  BY DEF TypeOK, Grant
<1>4. TypeOK'
  <2>1. row' \in TokenRow
    BY <1>1, <1>3 DEF TokenRow
  <2> QED
    BY <2>1 DEF TypeOK
<1>5. OneHolder'
  BY <1>2 DEF OneHolder, RowFree, HoldsRow
<1>6. CurrentKept'
  BY <1>1, <1>2 DEF CurrentKept, RowFree, HoldsRow, Is, Kept
<1>7. ReadRecently'
  BY <1>1, <1>3 DEF ReadRecently, Is, IsFresh
<1>8. MintJoined'
  BY DEF MintJoined
<1> QED
  BY <1>4, <1>5, <1>6, <1>7, <1>8

\* The INSERT is lost, the operator signs out, or the DELETE is lost.
LEMMA NothingLandsInv ==
    ASSUME Inv, SaveLost \/ SignOut \/ DeleteLost, UNCHANGED machineVars
    PROVE  Inv'
<1> USE DEF Inv, SaveLost, SignOut, DeleteLost, history, machineVars
<1>1. TypeOK'
  BY DEF TypeOK
<1>2. OneHolder'
  BY DEF OneHolder, HoldsRow
<1>3. CurrentKept'
  BY DEF CurrentKept, RowFree, HoldsRow, Is, Kept
<1>4. ReadRecently'
  BY DEF ReadRecently, Is, IsFresh, TypeOK
<1>5. MintJoined'
  BY DEF MintJoined
<1> QED
  BY <1>1, <1>2, <1>3, <1>4, <1>5

LEMMA DeleteLandsInv ==
    ASSUME Inv, DeleteLands, UNCHANGED machineVars
    PROVE  Inv'
<1> USE DEF Inv, DeleteLands, history, machineVars
<1>1. TypeOK'
  BY DEF TypeOK
<1>2. OneHolder'
  BY DEF OneHolder, RowFree, HoldsRow
<1>3. CurrentKept'
  BY DEF CurrentKept, RowFree, HoldsRow, Is, Kept
<1>4. ReadRecently'
  BY DEF ReadRecently, Is, IsFresh
<1>5. MintJoined'
  BY DEF MintJoined
<1> QED
  BY <1>1, <1>2, <1>3, <1>4, <1>5

\* The access token or the revalidation window comes to its end.
LEMMA TimeInv ==
    ASSUME Inv, AccessExpires \/ WindowPasses, UNCHANGED machineVars
    PROVE  Inv'
<1> USE DEF Inv, AccessExpires, WindowPasses, history, machineVars
<1>1. RowFree
  BY DEF RowFree, HoldsRow, MayArrive
<1>2. row \in TokenRow /\ row' \in TokenRow
  BY DEF TypeOK, TokenRow
<1>3. TypeOK'
  BY <1>2 DEF TypeOK, Grant
<1>4. OneHolder'
  BY <1>1 DEF OneHolder, RowFree, HoldsRow
<1>5. row'.refresh = row.refresh /\ row'.capabilities = row.capabilities
  BY <1>2 DEF TokenRow
<1>6. CurrentKept'
  BY <1>1, <1>5 DEF CurrentKept, RowFree, HoldsRow, Is, Kept
<1>7. ReadRecently'
  <2>1. CASE AccessExpires
    BY <2>1, <1>2 DEF ReadRecently, Is, IsFresh, TokenRow
  <2>2. CASE WindowPasses
    <3>1. ~row'.fresh
      BY <2>2, <1>2 DEF TokenRow
    <3>2. windowRoles' = zitadel.roles /\ zitadel.roles \in Nat
      BY <2>2 DEF TypeOK, Grant, Roles
    <3>3. \A r \in Requests : ~Is(r, "reply")
      BY <1>1 DEF RowFree, HoldsRow, Is
    <3> QED
      BY <2>2, <3>1, <3>2, <3>3, <1>2 DEF ReadRecently, Is, IsFresh, OneHolder
  <2> QED
    BY <2>1, <2>2
<1>8. MintJoined'
  BY DEF MintJoined
<1> QED
  BY <1>3, <1>4, <1>6, <1>7, <1>8

LEMMA RolesChangeInv ==
    ASSUME Inv, RolesChange, UNCHANGED machineVars
    PROVE  Inv'
<1> USE DEF Inv, RolesChange, store, history, machineVars
<1>1. zitadel' \in Grant /\ zitadel'.roles = zitadel.roles + 1 /\ zitadel.roles \in Nat
      /\ zitadel'.current = zitadel.current /\ zitadel'.reused = zitadel.reused
  BY TokensAssumption DEF TypeOK, Grant, Roles
<1>2. TypeOK'
  BY <1>1 DEF TypeOK
<1>3. OneHolder'
  BY DEF OneHolder, HoldsRow
<1>4. CurrentKept'
  BY <1>1 DEF CurrentKept, RowFree, HoldsRow, Is, Kept
<1>5. ReadRecently'
  BY <1>1 DEF ReadRecently, Is, IsFresh, TypeOK, Roles
<1>6. MintJoined'
  BY DEF MintJoined
<1> QED
  BY <1>2, <1>3, <1>4, <1>5, <1>6

(***************************************************************************)
(* The requests of the operator                                            *)
(***************************************************************************)

LEMMA UnlockedInv ==
    ASSUME Inv, NEW r \in Requests, UNCHANGED machineVars,
           \/ \E kind \in {"token", "capability"} : Arrive(r, kind)
           \/ ReadToken(r) \/ ReadCapabilities(r) \/ StoreUnavailable(r) \/ Connect(r)
    PROVE  Inv'
<1>1. req[r] \in Stage /\ ~HoldsRow(r)
  BY DEF Inv, TypeOK, Stage, HoldsRow, MayArrive, Is, Arrive, ReadToken, ReadCapabilities,
         StoreUnavailable, Connect
<1>2. UNCHANGED <<store, cookie, zitadel, late, history>>
  BY DEF Arrive, ReadToken, ReadCapabilities, StoreUnavailable, Connect
<1>3. \E record \in Stage : record.at \notin {"sent", "reply"} /\ Goto(r, record)
  <2>1. CASE \E kind \in {"token", "capability"} : Arrive(r, kind)
    BY <2>1 DEF Arrive, Stage, Request
  <2>2. CASE req[r].at = "read" /\ Goto(r, [req[r] EXCEPT !.at = "connect"])
    BY <2>2, <1>1 DEF Stage, Request
  <2>3. CASE Connect(r)
    BY <2>3, <1>1 DEF Connect, Is, Stage, Request
  <2>4. CASE StoreUnavailable(r)
    BY <2>4, AnswerNothingStep DEF StoreUnavailable
  <2>5. CASE \E source \in Sources : Answer(r, source)
    BY <2>5, AnswerRecord DEF Answer
  <2>6. CASE row # None /\ AnswerStore(r, row.capabilities)
    BY <2>6, AnswerRecord DEF AnswerStore, Inv, TypeOK, TokenRow, Sources
  <2>7. CASE ReadToken(r)
    BY <2>7, <2>2, <2>5 DEF ReadToken, Is, Sources
  <2>8. CASE ReadCapabilities(r)
    BY <2>8, <2>2, <2>5, <2>6 DEF ReadCapabilities, Is, Sources
  <2> QED
    BY <2>1, <2>3, <2>4, <2>7, <2>8
<1> QED
  BY <1>1, <1>2, <1>3, QuietStep

LEMMA LockInv ==
    ASSUME Inv, NEW r \in Requests, Lock(r), UNCHANGED machineVars
    PROVE  Inv'
<1>1. req[r] \in Stage /\ ~HoldsRow(r) /\ req[r].kind \in {"token", "capability"}
  BY StageFields DEF Inv, TypeOK, Stage, HoldsRow, Is, Lock
<1>2. UNCHANGED <<store, cookie, zitadel, late, history>>
  BY DEF Lock
<1>3. CASE \E record \in Stage : record.at = "done" /\ Goto(r, record)
  BY <1>1, <1>2, <1>3, QuietStep
<1>4. CASE AnswerNothing(r)
  BY <1>3, <1>4, AnswerNothingStep
<1>5. CASE row # None /\ (Answer(r, "token") \/ AnswerStore(r, row.capabilities))
  BY <1>3, <1>5, AnswerRecord DEF Answer, AnswerStore, Inv, TypeOK, TokenRow, Sources
<1>6. CASE /\ row # None /\ Renewable
           /\ Goto(r, [at |-> "sent", kind |-> req[r].kind, spent |-> row.refresh])
  <2> DEFINE record == [at |-> "sent", kind |-> req[r].kind, spent |-> row.refresh]
  <2> USE DEF store, history, machineVars
  <2>1. row.refresh \in RefreshTokens
    BY <1>6 DEF Inv, TypeOK, TokenRow, Renewable
  <2>2. record \in Stage
    BY <1>1, <2>1 DEF Stage, Request
  <2>3. /\ req' \in [Requests -> Stage]
        /\ req'[r] = record
        /\ \A q \in Requests \ {r} : req'[q] = req[q]
    BY <1>6, <2>2, GotoChanges DEF Inv
  <2>4. RowFree
    BY DEF Lock
  <2>5. \A q \in Requests : HoldsRow(q)' <=> q = r
    BY <2>3, <2>4 DEF RowFree, HoldsRow
  <2>6. TypeOK'
    BY <1>2, <2>3 DEF Inv, TypeOK, Stage
  <2>7. OneHolder'
    BY <1>2, <1>6, <2>5 DEF Inv, OneHolder
  <2>8. CurrentKept'
    <3>1. ~lost => row.refresh = zitadel.current
      BY <1>6, <2>1, <2>4, NoneIsNoNumber DEF Inv, CurrentKept
    <3>2. \A q \in Requests \ {r} : ~Is(q, "sent")' /\ ~Is(q, "reply")'
      BY <2>5 DEF HoldsRow, Is
    <3>3. Is(r, "sent")' /\ ~Is(r, "reply")' /\ req'[r].spent = row.refresh
      BY <2>3 DEF Is
    <3>4. ~RowFree'
      BY <2>5 DEF RowFree
    <3> QED
      BY <1>2, <3>1, <3>2, <3>3, <3>4 DEF Inv, CurrentKept
  <2>9. ReadRecently'
    BY <1>2, <2>3 DEF Inv, ReadRecently, Is, IsFresh
  <2>10. MintJoined'
    BY DEF Inv, MintJoined
  <2> QED
    BY <2>6, <2>7, <2>8, <2>9, <2>10 DEF Inv
<1> QED
  BY <1>4, <1>5, <1>6 DEF Lock, Settled

\* The holder of the row moves; the others hold nothing and stay where they are.
LEMMA HolderMoves ==
    ASSUME Inv, NEW r \in Requests, HoldsRow(r), NEW record \in Stage, Goto(r, record)
    PROVE  /\ req' \in [Requests -> Stage]
           /\ req'[r] = record
           /\ \A q \in Requests \ {r} : req'[q] = req[q] /\ ~HoldsRow(q) /\ ~HoldsRow(q)'
           /\ row # None /\ ~saving /\ ~deleted
<1>1. /\ req' \in [Requests -> Stage]
      /\ req'[r] = record
      /\ \A q \in Requests \ {r} : req'[q] = req[q]
  BY GotoChanges DEF Inv
<1>2. \A q \in Requests \ {r} : ~HoldsRow(q)
  BY DEF Inv, OneHolder
<1> QED
  BY <1>1, <1>2 DEF Inv, OneHolder, HoldsRow

\* A token that is current when it is spent is the only one spent: the grant
\* stays, and either no token was issued or the issued one is now current.
LEMMA SpendType ==
    ASSUME zitadel \in Grant, NEW token \in RefreshTokens, Spend(token)
    PROVE  /\ zitadel' \in Grant
           /\ zitadel'.roles = zitadel.roles
           /\ token = zitadel.current => zitadel'.reused = zitadel.reused
BY DEF Spend, Grant

LEMMA ZitadelAnswersInv ==
    ASSUME Inv, NEW r \in Requests, ZitadelAnswers(r), UNCHANGED machineVars
    PROVE  Inv'
<1> DEFINE token == req[r].spent
           ok == token = zitadel.current /\ ~zitadel.reused
           next == IF zitadel'.current = token THEN None ELSE zitadel'.current
<1> USE DEF store, history, machineVars
<1>1. HoldsRow(r) /\ token \in RefreshTokens /\ req[r].kind \in {"token", "capability"}
  BY StageFields DEF ZitadelAnswers, Is, HoldsRow, Inv, TypeOK, Stage
<1>2. PICK roles \in {zitadel.roles, None} :
         Goto(r, [at |-> "reply", kind |-> req[r].kind, spent |-> token, ok |-> ok, next |-> next,
                  roles |-> IF req[r].kind = "token" THEN None ELSE roles])
  BY DEF ZitadelAnswers
<1> DEFINE read == IF req[r].kind = "token" THEN None ELSE roles
           record == [at |-> "reply", kind |-> req[r].kind, spent |-> token, ok |-> ok,
                      next |-> next, roles |-> read]
<1>3. zitadel \in Grant /\ Spend(token) /\ UNCHANGED <<store, cookie, late, history>>
  BY DEF Inv, TypeOK, ZitadelAnswers
<1>4. /\ zitadel' \in Grant /\ zitadel'.roles = zitadel.roles
      /\ token = zitadel.current => zitadel'.reused = zitadel.reused
  BY <1>1, <1>3, SpendType
<1>5. record \in Stage
  <2>1. ok \in BOOLEAN /\ next \in RefreshTokens \cup {None} /\ read \in Roles \cup {None}
    BY <1>3, <1>4 DEF Grant
  <2> HIDE DEF ok, next, read, token
  <2> QED
    BY <1>1, <2>1 DEF Stage, Request, token
<1>6. /\ req' \in [Requests -> Stage]
      /\ req'[r] = record
      /\ \A q \in Requests \ {r} : req'[q] = req[q] /\ ~HoldsRow(q) /\ ~HoldsRow(q)'
      /\ row # None
  BY <1>1, <1>2, <1>5, HolderMoves
<1>7. TypeOK'
  BY <1>3, <1>4, <1>6 DEF Inv, TypeOK, Stage
<1>8. OneHolder'
  BY <1>1, <1>3, <1>6 DEF Inv, OneHolder
<1>9. CurrentKept'
  <2>1. ~lost => ok /\ token = zitadel.current /\ ~zitadel.reused
    BY <1>1 DEF Inv, CurrentKept, ZitadelAnswers, Is
  <2>2. Kept(record) = IF next # None THEN next ELSE token
    BY DEF Kept
  <2>3. Kept(record) = zitadel'.current
    BY <2>2, <1>4, NoneIsNoNumber DEF Grant
  <2>4. HoldsRow(r)' /\ ~Is(r, "sent")'
    BY <1>6 DEF HoldsRow, Is
  <2>5. \A q \in Requests \ {r} : ~Is(q, "sent")' /\ ~Is(q, "reply")'
    BY <1>6 DEF HoldsRow, Is
  <2>6. req'[r].ok = ok /\ Kept(req'[r]) = zitadel'.current
    BY <1>6, <2>3
  <2> HIDE DEF ok, token, record
  <2> QED
    BY <2>1, <2>4, <2>5, <2>6, <1>3, <1>4 DEF Inv, CurrentKept, RowFree
<1>10. ReadRecently'
  <2>1. \A q \in Requests \ {r} : ~Is(q, "reply")'
    BY <1>6 DEF HoldsRow, Is
  <2>2. req'[r].roles # None => req'[r].roles = zitadel.roles
    BY <1>6
  <2> QED
    BY <1>3, <1>4, <2>1, <2>2 DEF Inv, ReadRecently, IsFresh
<1>11. MintJoined'
  BY DEF Inv, MintJoined
<1> QED
  BY <1>7, <1>8, <1>9, <1>10, <1>11 DEF Inv

LEMMA CommitInv ==
    ASSUME Inv, NEW r \in Requests, Commit(r), UNCHANGED machineVars
    PROVE  Inv'
<1> USE DEF history, machineVars
<1>1. /\ HoldsRow(r)
      /\ req[r].spent \in RefreshTokens
      /\ req[r].kind \in {"token", "capability"}
      /\ req[r].next \in RefreshTokens \cup {None}
      /\ req[r].roles \in Roles \cup {None}
  BY StageFields DEF Commit, Is, HoldsRow, Inv, TypeOK, Stage
<1>2. \E record \in Stage : record.at = "done" /\ Goto(r, record)
  <2>1. CASE Answer(r, "token")
    BY <2>1, AnswerRecord DEF Answer, Sources
  <2>2. CASE req[r].roles # None /\ AnswerStore(r, req[r].roles)
    BY <2>2, <1>1, AnswerRecord DEF AnswerStore, Sources
  <2>3. CASE AnswerNothing(r)
    BY <2>3, AnswerNothingStep
  <2> QED
    BY <2>1, <2>2, <2>3 DEF Commit
<1>3. /\ req' \in [Requests -> Stage]
      /\ req'[r].at = "done"
      /\ \A q \in Requests \ {r} : req'[q] = req[q] /\ ~HoldsRow(q) /\ ~HoldsRow(q)'
      /\ row # None /\ ~saving /\ ~deleted
  BY <1>1, <1>2, HolderMoves
<1>4. UNCHANGED <<saving, deleting, deleted, cookie, zitadel, late, lost, windowRoles>>
      /\ row' = Saved(req[r], Kept(req[r]))
  BY DEF Commit
<1>5. row \in TokenRow /\ Kept(req[r]) \in RefreshTokens
  BY <1>1, <1>3 DEF Inv, TypeOK, Kept
<1>6. row' \in TokenRow
  BY <1>1, <1>3, <1>4, <1>5 DEF Saved, TokenRow
<1>7. \A q \in Requests : ~HoldsRow(q)' /\ ~Is(q, "sent")' /\ ~Is(q, "reply")'
  BY <1>3 DEF HoldsRow, Is
<1>8. TypeOK'
  BY <1>3, <1>4, <1>6 DEF Inv, TypeOK, Stage
<1>9. OneHolder'
  BY <1>3, <1>4, <1>7 DEF Inv, OneHolder
<1>10. CurrentKept'
  <2>1. ~lost => Kept(req[r]) = zitadel.current
    BY DEF Inv, CurrentKept, Commit
  <2>2. row'.refresh = Kept(req[r])
    BY <1>4 DEF Saved
  <2> QED
    BY <1>4, <1>7, <2>1, <2>2 DEF Inv, CurrentKept
<1>11. ReadRecently'
  <2>1. row'.capabilities # None /\ row'.fresh => windowRoles <= row'.capabilities
    <3>1. CASE req[r].roles # None
      BY <1>4, <3>1 DEF Saved, Inv, ReadRecently, Commit
    <3>2. CASE req[r].roles = None
      BY <1>3, <1>4, <3>2 DEF Saved, Inv, ReadRecently, IsFresh
    <3> QED
      BY <3>1, <3>2
  <2> QED
    BY <1>3, <1>4, <1>7, <2>1 DEF Inv, ReadRecently, IsFresh
<1>12. MintJoined'
  BY DEF Inv, MintJoined
<1> QED
  BY <1>8, <1>9, <1>10, <1>11, <1>12 DEF Inv

\* Zitadel refused, or the request gives up: nothing is written.
LEMMA RollbackInv ==
    ASSUME Inv, NEW r \in Requests, Refused(r) \/ GiveUp(r), UNCHANGED machineVars
    PROVE  Inv'
<1> USE DEF store, history, machineVars
<1>1. HoldsRow(r) /\ AnswerNothing(r)
  BY DEF Refused, GiveUp, DeadlineEnds, Is, HoldsRow
<1>2. \E record \in Stage : record.at = "done" /\ Goto(r, record)
  BY <1>1, AnswerNothingStep
<1>3. /\ req' \in [Requests -> Stage]
      /\ req'[r].at = "done"
      /\ \A q \in Requests \ {r} : req'[q] = req[q] /\ ~HoldsRow(q) /\ ~HoldsRow(q)'
  BY <1>1, <1>2, HolderMoves
<1>4. UNCHANGED <<store, cookie, zitadel, windowRoles>>
  BY DEF Refused, GiveUp
<1>5. \A q \in Requests : ~HoldsRow(q)' /\ ~Is(q, "reply")'
  BY <1>3 DEF HoldsRow, Is
<1>6. late' \subseteq RefreshTokens /\ lost' \in BOOLEAN
  <2>1. Is(r, "sent") => req[r].spent \in RefreshTokens
    BY StageFields DEF Is, Inv, TypeOK, Stage
  <2> QED
    BY <2>1 DEF Refused, GiveUp, Inv, TypeOK
<1>7. TypeOK'
  BY <1>3, <1>4, <1>6 DEF Inv, TypeOK, Stage
<1>8. OneHolder'
  BY <1>4, <1>5 DEF Inv, OneHolder
<1>9. lost'
  BY DEF Refused, GiveUp, Inv, CurrentKept
<1>10. CurrentKept'
  BY <1>9 DEF CurrentKept
<1>11. ReadRecently'
  BY <1>4, <1>5 DEF Inv, ReadRecently, IsFresh
<1>12. MintJoined'
  BY DEF Inv, MintJoined
<1> QED
  BY <1>7, <1>8, <1>10, <1>11, <1>12 DEF Inv

LEMMA LateArrivesInv ==
    ASSUME Inv, NEW token \in RefreshTokens, LateArrives(token), UNCHANGED machineVars
    PROVE  Inv'
<1> USE DEF store, history, machineVars
<1>1. UNCHANGED <<store, cookie, req, history>> /\ late' = late \ {token} /\ lost
  BY DEF LateArrives, Inv, CurrentKept
<1>2. zitadel' \in Grant /\ zitadel'.roles = zitadel.roles
  BY SpendType DEF LateArrives, Inv, TypeOK
<1>3. TypeOK'
  BY <1>1, <1>2 DEF Inv, TypeOK
<1>4. OneHolder'
  BY <1>1 DEF Inv, OneHolder, HoldsRow
<1>5. CurrentKept'
  BY <1>1 DEF CurrentKept
<1>6. ReadRecently'
  BY <1>1, <1>2 DEF Inv, ReadRecently, Is, IsFresh
<1>7. MintJoined'
  BY DEF Inv, MintJoined
<1> QED
  BY <1>3, <1>4, <1>5, <1>6, <1>7 DEF Inv

(***************************************************************************)
(* The machine token                                                       *)
(***************************************************************************)

LEMMA ArriveMachineInv ==
    ASSUME Inv, NEW r \in Requests, ArriveMachine(r)
    PROVE  Inv'
<1>1. [at |-> "machine"] \in Stage /\ ~HoldsRow(r)
  BY DEF Stage, ArriveMachine, MayArrive, HoldsRow
<1> QED
  BY <1>1, QuietStep DEF ArriveMachine

\* The steps of the machine token leave the operator's state alone; of the
\* requests they move none that holds the row.
LEMMA MachineStep ==
    ASSUME Inv, UNCHANGED <<store, cookie, zitadel, late, history, serving>>,
           req' \in [Requests -> Stage],
           \A q \in Requests : req'[q] = req[q] \/ (~HoldsRow(q) /\ ~HoldsRow(q)'),
           cached' \in BOOLEAN, inFlight' \in BOOLEAN,
           MintJoined', mints' = 1 => Requests # {}
    PROVE  Inv'
<1> USE DEF store, history
<1>1. mints' \in 0..Cardinality(Requests)
  <2>1. Cardinality(Requests) \in Nat /\ (Requests # {} => Cardinality(Requests) # 0)
    BY FS_CardinalityType, FS_EmptySet, TokensAssumption
  <2> QED
    BY <2>1 DEF MintJoined
<1>2. TypeOK'
  BY <1>1 DEF Inv, TypeOK, Stage
<1>3. \A q \in Requests : (HoldsRow(q)' <=> HoldsRow(q)) /\ (HoldsRow(q) => req'[q] = req[q])
  BY DEF HoldsRow
<1>4. OneHolder'
  BY <1>3 DEF Inv, OneHolder
<1>5. CurrentKept'
  BY <1>3 DEF Inv, CurrentKept, RowFree, HoldsRow, Is, Kept
<1>6. ReadRecently'
  BY <1>3 DEF Inv, ReadRecently, HoldsRow, Is, IsFresh
<1> QED
  BY <1>2, <1>4, <1>5, <1>6 DEF Inv

LEMMA ResolveMachineTokenInv ==
    ASSUME Inv, NEW r \in Requests, ResolveMachineToken(r)
    PROVE  Inv'
<1>1. ~HoldsRow(r) /\ Is(r, "machine")
  BY DEF ResolveMachineToken, Is, HoldsRow
<1>2. CASE cached
  <2>1. \E record \in Stage : record.at = "done" /\ Goto(r, record)
    BY <1>2, AnswerRecord DEF ResolveMachineToken, Answer, Sources
  <2> QED
    BY <1>1, <1>2, <2>1, QuietStep DEF ResolveMachineToken
<1>3. CASE ~cached
  <2>1. [at |-> "joined"] \in Stage /\ Goto(r, [at |-> "joined"])
    BY <1>3 DEF ResolveMachineToken, Stage
  <2>2. /\ req' \in [Requests -> Stage]
        /\ req'[r].at = "joined"
        /\ \A q \in Requests \ {r} : req'[q] = req[q]
    BY <2>1, GotoChanges DEF Inv
  <2>3. \A q \in Requests : req'[q] = req[q] \/ (~HoldsRow(q) /\ ~HoldsRow(q)')
    BY <1>1, <2>2 DEF HoldsRow
  <2>4. MintJoined' /\ inFlight' \in BOOLEAN
    BY <1>3 DEF Inv, MintJoined, ResolveMachineToken, MintsOnceJoined
  <2>5. UNCHANGED <<store, cookie, zitadel, late, history, serving>> 
    BY <1>3 DEF ResolveMachineToken
  <2>6. cached' \in BOOLEAN
    BY <1>3 DEF ResolveMachineToken, Inv, TypeOK
  <2> QED
    BY <2>2, <2>3, <2>4, <2>5, <2>6, MachineStep
<1> QED
  BY <1>2, <1>3

\* The mint settles: nobody is left with a promise.
LEMMA MintSettlesInv ==
    ASSUME Inv, MintSucceeds \/ MintFails
    PROVE  Inv'
<1>1. PICK source \in {"token", "noToken"} : AnswerJoined(source)
  BY DEF MintSucceeds, MintFails
<1>2. req' \in [Requests -> Stage]
  <2>1. req \in [Requests -> Stage]
    BY DEF Inv, TypeOK, Stage
  <2>2. [at |-> "done", source |-> source, capabilities |-> None] \in Stage
    BY AnswerRecord DEF Sources
  <2> QED
    BY <1>1, <2>1, <2>2 DEF AnswerJoined
<1>3. \A q \in Requests : req'[q] = req[q] \/ (~HoldsRow(q) /\ ~HoldsRow(q)')
  BY <1>1 DEF AnswerJoined, Is, HoldsRow
<1>4. mints' = 0 /\ MintJoined'
  BY DEF Inv, MintJoined, MintSucceeds, MintFails
<1>5. inFlight' \in BOOLEAN /\ cached' \in BOOLEAN
  BY DEF Inv, TypeOK, MintSucceeds, MintFails
<1>6. UNCHANGED <<store, cookie, zitadel, late, history, serving>>
  BY DEF MintSucceeds, MintFails
<1> QED
  BY <1>2, <1>3, <1>4, <1>5, <1>6, MachineStep

LEMMA CachedExpiresInv ==
    ASSUME Inv, CachedExpires
    PROVE  Inv'
<1>1. UNCHANGED <<store, cookie, zitadel, late, history, req, serving, inFlight, mints>>
  BY DEF CachedExpires, tokenVars
<1>2. inFlight' \in BOOLEAN /\ cached' \in BOOLEAN
  BY <1>1 DEF CachedExpires, Inv, TypeOK
<1>3. MintJoined' /\ req' \in [Requests -> Stage]
  BY <1>1 DEF Inv, MintJoined, TypeOK, Stage
<1>4. mints' = 1 => Requests # {}
  BY <1>1, FS_EmptySet, TokensAssumption DEF Inv, TypeOK
<1> QED
  BY <1>1, <1>2, <1>3, <1>4, MachineStep

LEMMA StutterInv ==
    ASSUME Inv, UNCHANGED vars
    PROVE  Inv'
<1>1. UNCHANGED <<store, cookie, zitadel, late, history, req, machineVars>>
  BY DEF vars, tokenVars
<1>2. /\ MintJoined' /\ inFlight' \in BOOLEAN /\ cached' \in BOOLEAN
      /\ req' \in [Requests -> Stage] /\ UNCHANGED serving
  BY <1>1 DEF machineVars, Inv, MintJoined, TypeOK, Stage
<1>3. mints' = 1 => Requests # {}
  BY <1>1, FS_EmptySet, TokensAssumption DEF Inv, TypeOK, machineVars
<1> QED
  BY <1>1, <1>2, <1>3, MachineStep

LEMMA NextInv == Inv /\ [Next]_vars => Inv'
<1> SUFFICES ASSUME Inv, [Next]_vars PROVE Inv'
  OBVIOUS
<1>1. CASE TokensNext /\ UNCHANGED machineVars
  <2>1. ASSUME NEW r \in Requests, Serve(r) \/ ZitadelAnswers(r)
                 \/ \E kind \in {"token", "capability"} : Arrive(r, kind)
        PROVE  Inv'
    BY <1>1, <2>1, UnlockedInv, LockInv, CommitInv, RollbackInv, ZitadelAnswersInv DEF Serve
  <2>2. ASSUME SaveLands \/ SaveLost \/ SignOut \/ DeleteLands \/ DeleteLost
        PROVE  Inv'
    BY <1>1, <2>2, SaveLandsInv, NothingLandsInv, DeleteLandsInv
  <2>3. ASSUME AccessExpires \/ WindowPasses \/ RolesChange
        PROVE  Inv'
    BY <1>1, <2>3, TimeInv, RolesChangeInv
  <2>4. ASSUME NEW token \in RefreshTokens, LateArrives(token)
        PROVE  Inv'
    BY <1>1, <2>4, LateArrivesInv
  <2> QED
    BY <1>1, <2>1, <2>2, <2>3, <2>4 DEF TokensNext
<1>2. CASE \E r \in Requests : ArriveMachine(r) \/ ResolveMachineToken(r)
  BY <1>2, ArriveMachineInv, ResolveMachineTokenInv
<1>3. CASE MintSucceeds \/ MintFails \/ CachedExpires
  BY <1>3, MintSettlesInv, CachedExpiresInv
<1>4. CASE UNCHANGED vars
  BY <1>4, StutterInv
<1> QED
  BY <1>1, <1>2, <1>3, <1>4 DEF Next

LEMMA SpecInv == Spec => []Inv
BY InitInv, NextInv, PTL DEF Spec

(***************************************************************************)
(* The theorems                                                            *)
(***************************************************************************)

\* Every variable of the tokens, and the stage of every request, stay in their
\* sets, and there is never a mint without a request to have begun it.
THEOREM TypeCorrect == Spec => []TypeOK
<1>1. Inv => TypeOK
  BY DEF Inv
<1> QED
  BY <1>1, SpecInv, PTL

\* operator-token-store.ts: with any number of requests renewing at once, no
\* refresh token is presented to Zitadel twice unless a refresh was abandoned
\* before its outcome was committed.
THEOREM NoTokenSpentTwice == Spec => []SpentTwiceOnlyAfterLoss
<1>1. Inv => SpentTwiceOnlyAfterLoss
  BY DEF Inv, CurrentKept, SpentTwiceOnlyAfterLoss, TypeOK, Grant
<1> QED
  BY <1>1, SpecInv, PTL

\* What a renewal commits is the token Zitadel will accept next.
THEOREM RowIsCurrent == Spec => []RowKeepsCurrent
<1>1. Inv => RowKeepsCurrent
  BY DEF Inv, CurrentKept, RowKeepsCurrent
<1> QED
  BY <1>1, SpecInv, PTL

\* deleteTokens is final: no upsert of a renewal, and no INSERT of the sign-in
\* that was still under way, brings the session back.
THEOREM SignOutIsFinal == Spec => []SignedOutStaysOut
<1>1. Inv => SignedOutStaysOut
  BY DEF Inv, OneHolder, SignedOutStaysOut
<1> QED
  BY <1>1, SpecInv, PTL

\* machine-token.ts: requests that find no usable token share one mint.
THEOREM MintsAreShared == Spec => []OneMintInFlight
<1>1. Inv => OneMintInFlight
  BY DEF Inv, MintJoined, OneMintInFlight
<1> QED
  BY <1>1, SpecInv, PTL

\* What an answer from the store says of the roles: the reader of the row found
\* them fresh, or the committer was told them by Zitadel.
LEMMA AnswersAreRecent ==
    ASSUME Inv, [Next]_vars, NEW r \in Requests,
           req'[r].at = "done", req[r].at # "done", req'[r].source = "store"
    PROVE  req'[r].capabilities >= windowRoles
<1> DEFINE Recent(c) == c \in Nat /\ windowRoles <= c
<1> DEFINE Unstored(q) == \E record \in Stage :
              (record.at # "done" \/ record.source # "store") /\ Goto(q, record)
<1> DEFINE Stored(q) == \E c \in Roles : Recent(c) /\ AnswerStore(q, c)
<1>0. windowRoles \in Nat /\ zitadel.roles \in Nat
  BY DEF Inv, TypeOK, Grant, Roles
<1>1. ASSUME NEW q \in Requests, Unstored(q)
      PROVE  FALSE
  BY <1>1, GotoChanges DEF Inv
<1>2. ASSUME NEW q \in Requests, Stored(q)
      PROVE  req'[r].capabilities >= windowRoles
  <2>1. PICK c \in Roles : Recent(c) /\ AnswerStore(q, c)
    BY <1>2
  <2> DEFINE record == [at |-> "done", source |-> "store", capabilities |-> c]
  <2>2. record \in Stage
    BY AnswerRecord DEF Sources
  <2>3. q = r /\ req'[r] = record
    BY <2>1, <2>2, GotoChanges DEF Inv, AnswerStore
  <2> QED
    BY <2>1, <2>3, <1>0
<1>3. ASSUME NEW q \in Requests, AnswerNothing(q)
      PROVE  FALSE
  BY <1>1, <1>3, AnswerNothingStep
<1>4. ASSUME NEW q \in Requests, NEW source \in Sources \ {"store"}, Answer(q, source)
      PROVE  FALSE
  <2>1. Unstored(q)
    BY <1>4, AnswerRecord DEF Answer
  <2> QED
    BY <1>1, <2>1
<1>5. row # None /\ IsFresh => row.capabilities \in Roles /\ Recent(row.capabilities)
  BY DEF Inv, ReadRecently, IsFresh, TypeOK, TokenRow, Roles
<1>6. ASSUME NEW q \in Requests, NEW kind \in {"token", "capability"}, Arrive(q, kind)
      PROVE  FALSE
  <2>1. [at |-> "read", kind |-> kind] \in Stage
    BY DEF Stage, Request
  <2> QED
    BY <1>1, <1>6, <2>1 DEF Arrive
<1>7. ASSUME NEW q \in Requests, Serve(q)
      PROVE  req'[r].capabilities >= windowRoles
  <2>0. req[q] \in Stage
    BY DEF Inv, TypeOK, Stage
  <2>1. CASE Goto(q, [req[q] EXCEPT !.at = "connect"]) /\ req[q].at = "read"
    <3> DEFINE record == [req[q] EXCEPT !.at = "connect"]
    <3>1. record \in Stage /\ record.at = "connect"
      BY <2>0, <2>1 DEF Stage, Request
    <3> QED
      BY <1>1, <2>1, <3>1
  <2>2. CASE ReadToken(q)
    BY <2>1, <2>2, <1>4 DEF ReadToken, Is, Sources
  <2>3. CASE ReadCapabilities(q)
    BY <2>1, <2>3, <1>2, <1>4, <1>5 DEF ReadCapabilities, Is, Sources
  <2>4. CASE StoreUnavailable(q) \/ Refused(q) \/ GiveUp(q)
    BY <2>4, <1>3 DEF StoreUnavailable, Refused, GiveUp
  <2>5. CASE Connect(q)
    <3> DEFINE record == [req[q] EXCEPT !.at = "lock"]
    <3>1. record \in Stage /\ record.at = "lock"
      BY <2>0, <2>5 DEF Connect, Is, Stage, Request
    <3> QED
      BY <1>1, <2>5, <3>1 DEF Connect
  <2>6. CASE Lock(q)
    <3>1. CASE AnswerNothing(q) \/ Answer(q, "token")
      BY <3>1, <1>3, <1>4 DEF Sources
    <3>2. CASE row # None /\ IsFresh /\ AnswerStore(q, row.capabilities)
      BY <3>2, <1>2, <1>5
    <3>3. CASE /\ row # None /\ Renewable
               /\ Goto(q, [at |-> "sent", kind |-> req[q].kind, spent |-> row.refresh])
      <4>1. row.refresh \in RefreshTokens /\ req[q].kind \in {"token", "capability"}
        BY <2>0, <2>6, <3>3, StageFields DEF Inv, TypeOK, TokenRow, Renewable, Lock, Is
      <4>2. [at |-> "sent", kind |-> req[q].kind, spent |-> row.refresh] \in Stage
        BY <4>1 DEF Stage, Request
      <4> QED
        BY <1>1, <3>3, <4>2
    <3> QED
      BY <2>6, <3>1, <3>2, <3>3 DEF Lock, Settled
  <2>7. CASE Commit(q)
    <3>1. CASE AnswerNothing(q) \/ Answer(q, "token")
      BY <3>1, <1>3, <1>4 DEF Sources
    <3>2. CASE req[q].roles # None /\ AnswerStore(q, req[q].roles)
      <4>1. req[q].roles \in Roles /\ Recent(req[q].roles)
        BY <2>0, <2>7, <3>2, StageFields DEF Commit, Is, Inv, ReadRecently, Roles
      <4> QED
        BY <1>2, <3>2, <4>1
    <3> QED
      BY <2>7, <3>1, <3>2 DEF Commit
  <2> QED
    BY <1>7, <2>2, <2>3, <2>4, <2>5, <2>6, <2>7 DEF Serve
<1>8. ASSUME NEW q \in Requests, ZitadelAnswers(q)
      PROVE  FALSE
  <2>1. req' = [req EXCEPT ![q] = req'[q]] /\ req'[q].at = "reply"
    BY <1>8 DEF ZitadelAnswers, Goto, Inv, TypeOK
  <2> QED
    BY <2>1 DEF Inv, TypeOK
<1>9. ASSUME UNCHANGED req
      PROVE  FALSE
  BY <1>9
<1>10. ASSUME TokensNext
       PROVE  req'[r].capabilities >= windowRoles
  <2>1. CASE \E q \in Requests :
                (\E kind \in {"token", "capability"} : Arrive(q, kind))
                \/ Serve(q) \/ ZitadelAnswers(q)
    BY <2>1, <1>6, <1>7, <1>8
  <2>2. CASE \/ SaveLands \/ SaveLost \/ SignOut \/ DeleteLands \/ DeleteLost
             \/ AccessExpires \/ WindowPasses \/ RolesChange
             \/ \E token \in RefreshTokens : LateArrives(token)
    BY <2>2, <1>9 DEF SaveLands, SaveLost, SignOut, DeleteLands, DeleteLost,
         AccessExpires, WindowPasses, RolesChange, LateArrives
  <2> QED
    BY <1>10, <2>1, <2>2 DEF TokensNext
<1>11. ASSUME NEW q \in Requests, ArriveMachine(q) \/ ResolveMachineToken(q)
       PROVE  FALSE
  <2>1. [at |-> "machine"] \in Stage /\ [at |-> "joined"] \in Stage
    BY DEF Stage
  <2> QED
    BY <1>1, <1>4, <1>11, <2>1 DEF ArriveMachine, ResolveMachineToken, Sources
<1>12. ASSUME MintSucceeds \/ MintFails
       PROVE  FALSE
  BY <1>12 DEF MintSucceeds, MintFails, AnswerJoined
<1>13. ASSUME CachedExpires \/ UNCHANGED vars
       PROVE  FALSE
  BY <1>9, <1>13 DEF CachedExpires, vars, tokenVars
<1> QED
  BY <1>10, <1>11, <1>12, <1>13 DEF Next

\* resolveLiveCapabilities: no answer from the store is older than the window.
THEOREM AnswersWithinTheWindow == Spec => StoreAnswersAreRecent
<1>1. Inv /\ [Next]_vars =>
         [\A r \in Requests :
             req'[r].at = "done" /\ req[r].at # "done" /\ req'[r].source = "store"
             => req'[r].capabilities >= windowRoles]_vars
  BY AnswersAreRecent
<1> QED
  BY <1>1, SpecInv, PTL DEF Spec, StoreAnswersAreRecent
=============================================================================
