------------------------------ MODULE CrmProofs ------------------------------
(***************************************************************************)
(* Proofs about the CRM, for any operators, people, deals, files and desks, *)
(* and about the pages of a list, for any rows, limit and writes.          *)
(*                                                                         *)
(* The argument is about what a transaction may rely on.  A row read FOR   *)
(* UPDATE has one holder and stays as it was read until the holder ends    *)
(* (TxOK, OneHolder), so what is computed from the read may be written.    *)
(* An import checks every row against a register that only grows, under a  *)
(* key that no transaction sees change.                                    *)
(*                                                                         *)
(* The pages come last: see there.                                         *)
(***************************************************************************)
EXTENDS Crm, KeysetPaging, FiniteSetTheorems, SequenceTheorems, TLAPS

DealOps == {"advanceStage", "setNextAction", "void", "restore"}
ContactOps == {"updateContact", "setPrimaryContact"}

\* What an operator's transaction carries.
Tx ==
    {Idle}
    \cup [op : {"create"}, org : Organisations \cup {Null}, keys : SUBSET Keys]
    \cup [op : {"updateContact"}, contact : Contacts, keys : SUBSET Keys]
    \cup [op : {"setPrimaryContact"}, contact : Contacts, demote : (SUBSET Contacts) \cup {Null}]
    \cup [op : {"erase"}, contact : Contacts, old : SUBSET Keys]
    \cup [op : {"import"}, rows : Seq(SUBSET Keys), created : Seq(SUBSET Keys),
          settled : BOOLEAN, checked : BOOLEAN, seen : SUBSET Keys]
    \cup [op : {"advanceStage"}, deal : Deals, read : Deal, to : Stages,
          product : Products \cup {Null}]
    \cup [op : {"setNextAction"}, deal : Deals, read : Deal, at : {"none", "planned"}]
    \cup [op : {"void", "restore"}, deal : Deals, read : Deal]
    \cup [op : {"logActivity"}, org : Organisations, deal : Deals \cup {Null},
          kind : {"outbound", "inbound"}]
    \cup [op : {"dm"}, org : Organisations, contact : Contacts, edited : BOOLEAN,
          found : BOOLEAN]
    \cup [op : {"link"}, org : Organisations, product : Products, fill : Deals \cup {Null}]

\* An import has settled on a key that lets it recognise everybody forgotten
\* before it began, and what it has taken from the file names none of them.
ImportOK(t) ==
    /\ t.seen \subseteq register
    /\ t.checked => t.settled /\ t.rows # <<>> /\ ~Matches(Head(t.rows), t.seen)
    /\ t.settled /\ ~hashKey => t.seen = {}
    /\ \A i \in DOMAIN t.created : ~Matches(t.created[i], t.seen)

\* What a transaction has read still holds.
TxOK(t) ==
    /\ t \in Tx
    /\ t.op \in ContactOps => contacts[t.contact] # Null
    /\ t.op \in DealOps => Live(t.deal) /\ deals[t.deal] = t.read
    /\ t.op = "advanceStage" /\ RequiresProduct(t.to) => t.product # Null
    /\ t.op = "import" => ImportOK(t)

TxInv == tx \in [Operators -> Tx] /\ \A o \in Operators : TxOK(tx[o])

\* What an erasure read, it registered with what it destroyed.
Registered == KnownForgotten \subseteq register

\* A row lock has one holder.
OneHolder ==
    /\ \A o, p \in Operators, c \in Contacts : HoldsContact(o, c) /\ HoldsContact(p, c) => o = p
    /\ \A o, p \in Operators, d \in Deals : HoldsDeal(o, d) /\ HoldsDeal(p, d) => o = p

DealsTyped ==
    /\ deals \in [Deals -> Deal \cup {Null}]
    /\ conversion \in [Organisations -> Products \cup {Null}]
    /\ stageLog \in [Deals -> Seq(Stages \X Stages)]
    /\ checkRaised \in BOOLEAN

\* The history of a deal's stage; a deal that is not there has none.
Chained(log, stage) ==
    log # <<>> =>
        /\ \A i \in 1..Len(log) - 1 : log[i + 1][1] = log[i][2]
        /\ log[Len(log)][2] = stage

LogInv ==
    /\ \A d \in Deals : Live(d) => Chained(stageLog[d], deals[d].stage)
    /\ \A d \in Deals : ~Live(d) => stageLog[d] = <<>>

Inv ==
    /\ ContactsTypeOK /\ DealsTyped /\ TxInv /\ OneHolder /\ Registered
    /\ ResidualSurfaced /\ LogInv /\ NoRawCheckViolation

(***************************************************************************)
(* Transactions                                                            *)
(***************************************************************************)

LEMMA NullIsNoRow == Null \notin Contact /\ Null \notin Deal
BY ContactsAssumption, DealsAssumption

\* The fields of a transaction by its operation.
LEMMA TxFields ==
    ASSUME NEW t \in Tx
    PROVE  /\ t.op \in ContactOps => t.contact \in Contacts
           /\ t.op \in DealOps => t.deal \in Deals /\ t.read \in Deal
           /\ t.op = "create" => t.org \in Organisations \cup {Null} /\ t.keys \subseteq Keys
           /\ t.op = "updateContact" => t.keys \subseteq Keys
           /\ t.op = "setPrimaryContact" => t.demote \in (SUBSET Contacts) \cup {Null}
           /\ t.op = "erase" => t.contact \in Contacts /\ t.old \subseteq Keys
           /\ t.op = "import" =>
                 /\ t.rows \in Seq(SUBSET Keys) /\ t.created \in Seq(SUBSET Keys)
                 /\ t.settled \in BOOLEAN /\ t.checked \in BOOLEAN /\ t.seen \subseteq Keys
           /\ t.op = "advanceStage" => t.to \in Stages /\ t.product \in Products \cup {Null}
           /\ t.op = "setNextAction" => t.at \in {"none", "planned"}
           /\ t.op = "logActivity" =>
                 /\ t.org \in Organisations /\ t.deal \in Deals \cup {Null}
                 /\ t.kind \in {"outbound", "inbound"}
           /\ t.op = "dm" => /\ t.org \in Organisations /\ t.contact \in Contacts
                             /\ t.edited \in BOOLEAN /\ t.found \in BOOLEAN
           /\ t.op = "link" => /\ t.org \in Organisations /\ t.product \in Products
                               /\ t.fill \in Deals \cup {Null}
BY DEF Tx, Idle, ContactOps, DealOps

LEMMA InitInv == Init => Inv
<1> SUFFICES ASSUME Init PROVE Inv
  OBVIOUS
<1> USE ContactsAssumption, DealsAssumption DEF Init, ContactsInit
<1>1. contacts \in [Contacts -> Contact \cup {Null}] /\ deals \in [Deals -> Deal \cup {Null}]
  OBVIOUS
<1>2. ContactsTypeOK
  BY <1>1 DEF ContactsTypeOK, Used, Contact
<1>3. DealsTyped
  <2>1. checkRaised = FALSE
    OBVIOUS
  <2>2. stageLog \in [Deals -> Seq(Stages \X Stages)]
    OBVIOUS
  <2>3. conversion \in [Organisations -> Products \cup {Null}]
    OBVIOUS
  <2> QED
    BY <1>1, <2>1, <2>2, <2>3 DEF DealsTyped
<1>4. TxInv
  BY DEF TxInv, TxOK, Tx, Idle, ContactOps, DealOps
<1>5. OneHolder
  BY DEF OneHolder, HoldsContact, HoldsDeal, Idle
<1>6. ResidualSurfaced /\ LogInv /\ NoRawCheckViolation /\ Registered
  BY DEF ResidualSurfaced, LogInv, Chained, NoRawCheckViolation, Registered, KnownForgotten
<1> QED
  BY <1>2, <1>3, <1>4, <1>5, <1>6 DEF Inv

\* A transaction begins, reads on or rolls back, and no table changes.
LEMMA TxStep ==
    ASSUME Inv, NEW o \in Operators, NEW record, TxOK(record),
           tx' = [tx EXCEPT ![o] = record], begun' \in 0..MaxTx, UNCHANGED desk,
           record.op \in ContactOps => ContactFree(o, record.contact),
           record.op \in DealOps => DealFree(o, record.deal),
           UNCHANGED <<organisations, contacts, suppressions, register, forgotten, hashKey,
                       outreach, dealVars>>
    PROVE  Inv'
<1> USE DEF Inv, dealVars
<1>1. tx' \in [Operators -> Tx] /\ tx'[o] = record /\ \A p \in Operators \ {o} : tx'[p] = tx[p]
  BY DEF TxInv, TxOK
<1>2. TxInv'
  BY <1>1 DEF TxInv, TxOK, ImportOK, Live, Matches
<1>3. OneHolder'
  <2>1. ASSUME NEW p \in Operators, NEW c \in Contacts, p # o, HoldsContact(p, c)', HoldsContact(o, c)'
        PROVE  FALSE
    BY <1>1, <2>1 DEF HoldsContact, ContactFree, ContactOps
  <2>2. ASSUME NEW p \in Operators, NEW d \in Deals, p # o, HoldsDeal(p, d)', HoldsDeal(o, d)'
        PROVE  FALSE
    BY <1>1, <2>2 DEF HoldsDeal, DealFree, DealOps
  <2>3. ASSUME NEW p \in Operators \ {o}
        PROVE  /\ \A c \in Contacts : HoldsContact(p, c)' <=> HoldsContact(p, c)
               /\ \A d \in Deals : HoldsDeal(p, d)' <=> HoldsDeal(p, d)
    BY <1>1, <2>3 DEF HoldsContact, HoldsDeal
  <2>4. ASSUME NEW p \in Operators, NEW q \in Operators, NEW c \in Contacts,
               HoldsContact(p, c)', HoldsContact(q, c)'
        PROVE  p = q
    BY <2>1, <2>3, <2>4 DEF OneHolder
  <2>5. ASSUME NEW p \in Operators, NEW q \in Operators, NEW d \in Deals,
               HoldsDeal(p, d)', HoldsDeal(q, d)'
        PROVE  p = q
    BY <2>2, <2>3, <2>5 DEF OneHolder
  <2> QED
    BY <2>4, <2>5 DEF OneHolder
<1>4. ContactsTypeOK'
  BY DEF ContactsTypeOK
<1>5. DealsTyped' /\ ResidualSurfaced' /\ LogInv' /\ NoRawCheckViolation' /\ Registered'
  BY DEF DealsTyped, ResidualSurfaced, LogInv, Live, NoRawCheckViolation, Registered,
         KnownForgotten
<1> QED
  BY <1>2, <1>3, <1>4, <1>5

\* Nothing is held by the operator whose transaction ends.
LEMMA EndHolds ==
    ASSUME Inv, NEW o \in Operators, tx' = [tx EXCEPT ![o] = Idle]
    PROVE  /\ tx' \in [Operators -> Tx] /\ tx'[o] = Idle
           /\ \A p \in Operators \ {o} : tx'[p] = tx[p]
           /\ OneHolder'
<1>1. Idle \in Tx
  BY DEF Tx
<1>2. tx' \in [Operators -> Tx] /\ tx'[o] = Idle /\ \A p \in Operators \ {o} : tx'[p] = tx[p]
  BY <1>1 DEF Inv, TxInv
<1>3. \A p \in Operators :
         /\ \A c \in Contacts : HoldsContact(p, c)' => HoldsContact(p, c)
         /\ \A d \in Deals : HoldsDeal(p, d)' => HoldsDeal(p, d)
  BY <1>2 DEF HoldsContact, HoldsDeal, Idle
<1> QED
  BY <1>2, <1>3 DEF Inv, OneHolder

\* Deals are created beside those there are.
DealsGrow ==
    /\ deals' \in [Deals -> Deal \cup {Null}]
    /\ \A d \in Deals : Live(d) => deals'[d] = deals[d]
    /\ UNCHANGED <<stageLog, conversion, checkRaised>>

LEMMA DealsGrowInv ==
    ASSUME Inv, DealsGrow
    PROVE  DealsTyped' /\ LogInv' /\ NoRawCheckViolation'
<1> USE DEF Inv, DealsGrow
<1>1. DealsTyped' /\ NoRawCheckViolation'
  BY DEF DealsTyped, NoRawCheckViolation
<1>2. LogInv'
  BY DEF LogInv, Live, Chained
<1> QED
  BY <1>1, <1>2

\* A transaction about people ends: nobody disappears or becomes known again.
LEMMA PeopleWrite ==
    ASSUME Inv, NEW o \in Operators, tx' = [tx EXCEPT ![o] = Idle],
           begun' \in 0..MaxTx, UNCHANGED desk,
           organisations' \subseteq Organisations,
           contacts' \in [Contacts -> Contact \cup {Null}],
           \A c \in Used : contacts'[c] # Null /\ contacts'[c].erased = contacts[c].erased,
           \A c \in Contacts \ Used : contacts'[c] = Null \/ ~contacts'[c].erased,
           suppressions' \subseteq Keys,
           UNCHANGED <<register, forgotten, hashKey, outreach>>, DealsGrow
    PROVE  Inv'
<1> USE DEF Inv
<1>1. /\ tx' \in [Operators -> Tx] /\ tx'[o] = Idle
      /\ \A p \in Operators \ {o} : tx'[p] = tx[p]
      /\ OneHolder'
  BY EndHolds
<1>2. TxInv'
  <2>1. TxOK(tx[o])'
    BY <1>1 DEF TxOK, Tx, Idle, ContactOps, DealOps
  <2>2. ASSUME NEW p \in Operators \ {o}
        PROVE  TxOK(tx[p])'
    <3>1. TxOK(tx[p]) /\ tx'[p] = tx[p] /\ tx[p] \in Tx
      BY <1>1 DEF TxInv
    <3>2. tx[p].op \in ContactOps => contacts'[tx[p].contact] # Null
      BY <3>1, TxFields DEF TxOK, Used
    <3>3. tx[p].op \in DealOps => deals'[tx[p].deal] # Null /\ deals'[tx[p].deal] = tx[p].read
      BY <3>1, TxFields DEF TxOK, Live, DealsGrow
    <3> QED
      BY <3>1, <3>2, <3>3 DEF TxOK, Live, ImportOK
  <2> QED
    BY <1>1, <2>1, <2>2 DEF TxInv
<1>3. ContactsTypeOK'
  BY DEF ContactsTypeOK
<1>4. ResidualSurfaced' /\ Registered'
  BY DEF ResidualSurfaced, ContactsTypeOK, Dm, Used, Registered, KnownForgotten
<1> QED
  BY <1>1, <1>2, <1>3, <1>4, DealsGrowInv

\* What an erasure does to the rows it finds.
LEMMA EraseFacts ==
    ASSUME Inv, NEW o \in Operators, EraseWrite(o)
    PROVE  LET c == tx[o].contact IN
           /\ c \in Contacts
           /\ contacts' \in [Contacts -> Contact \cup {Null}]
           /\ contacts'[c] # Null
           /\ \A b \in Contacts \ {c} : contacts'[b] = contacts[b]
           /\ register \subseteq register' /\ register' \subseteq Keys
           /\ forgotten' \subseteq Forgotten /\ Registered'
<1> DEFINE c == tx[o].contact
           old == tx[o].old
           row == [contacts[c] EXCEPT !.keys = {}, !.erased = TRUE]
<1>1. c \in Contacts /\ old \subseteq Keys /\ contacts[c] \in Contact
  BY TxFields DEF EraseWrite, Inv, TxInv, ContactsTypeOK
<1>2. row \in Contact
  BY <1>1 DEF Contact
<1>3. row # Null
  BY <1>2, NullIsNoRow
<1>4. contacts' = [contacts EXCEPT ![c] = row]
  BY <1>1 DEF EraseWrite, Contact
<1>5. contacts[c].keys \subseteq Keys
  BY <1>1 DEF Contact
<1>6. /\ register' = register \cup old
      /\ forgotten' = forgotten \cup
            {[key |-> key, read |-> key \in old] : key \in contacts[c].keys}
  BY DEF EraseWrite
<1> HIDE DEF row, c, old
<1>7. ASSUME NEW f \in forgotten'
      PROVE  \/ f \in forgotten
             \/ \E key \in contacts[c].keys : f = [key |-> key, read |-> key \in old]
  BY <1>6
<1>8. ASSUME NEW key \in Keys
      PROVE  LET f == [key |-> key, read |-> key \in old]
             IN  f \in Forgotten /\ (f.read => f.key \in old)
  <2>1. (key \in old) \in BOOLEAN
    OBVIOUS
  <2> QED
    BY <2>1 DEF Forgotten
<1>11. forgotten' \subseteq Forgotten
  BY <1>5, <1>7, <1>8 DEF Inv, ContactsTypeOK
<1>12. Registered'
  <2> SUFFICES ASSUME NEW f \in forgotten', f.read PROVE f.key \in register'
    BY DEF Registered, KnownForgotten
  <2>1. CASE f \in forgotten
    BY <1>6, <2>1 DEF Inv, Registered, KnownForgotten
  <2>2. CASE f \notin forgotten
    BY <1>5, <1>6, <1>7, <1>8, <2>2
  <2> QED
    BY <2>1, <2>2
<1>9. /\ contacts' \in [Contacts -> Contact \cup {Null}]
      /\ contacts'[c] # Null
      /\ \A b \in Contacts \ {c} : contacts'[b] = contacts[b]
  BY <1>1, <1>2, <1>3, <1>4 DEF Inv, ContactsTypeOK
<1>10. register \subseteq register' /\ register' \subseteq Keys
  BY <1>1, <1>6 DEF Inv, ContactsTypeOK
<1> QED
  BY <1>1, <1>9, <1>10, <1>11, <1>12 DEF c

LEMMA EraseInv ==
    ASSUME Inv, NEW o \in Operators, EraseWrite(o), DealsGrow
    PROVE  Inv'
<1> USE DEF Inv
<1> DEFINE c == tx[o].contact
<1>1. /\ c \in Contacts
      /\ contacts' \in [Contacts -> Contact \cup {Null}]
      /\ contacts'[c] # Null
      /\ \A b \in Contacts \ {c} : contacts'[b] = contacts[b]
      /\ register \subseteq register' /\ register' \subseteq Keys
      /\ forgotten' \subseteq Forgotten /\ Registered'
  BY EraseFacts
<1>2. UNCHANGED <<desk, organisations, suppressions, hashKey, begun>>
      /\ tx' = [tx EXCEPT ![o] = Idle]
      /\ begun' \in 0..MaxTx /\ outreach' = SweepOutreach(c)
  BY DEF EraseWrite, End, Continue, ContactsTypeOK
<1> HIDE DEF c
<1>3. outreach' \subseteq Dm
  BY <1>2 DEF SweepOutreach, ContactsTypeOK, Dm
<1>4. ContactsTypeOK'
  BY <1>1, <1>2, <1>3 DEF ContactsTypeOK
<1>5. /\ tx' \in [Operators -> Tx] /\ tx'[o] = Idle
      /\ \A p \in Operators \ {o} : tx'[p] = tx[p]
      /\ OneHolder'
  BY <1>2, EndHolds
<1>6. TxInv'
  <2>1. TxOK(tx[o])'
    BY <1>5 DEF TxOK, Tx, Idle, ContactOps, DealOps
  <2>2. ASSUME NEW p \in Operators \ {o} PROVE TxOK(tx[p])'
    <3>1. TxOK(tx[p]) /\ tx[p] \in Tx /\ tx'[p] = tx[p]
      BY <1>5 DEF TxInv
    <3>2. tx[p].op \in ContactOps => contacts'[tx[p].contact] # Null
      BY <1>1, <3>1, TxFields DEF TxOK
    <3>3. tx[p].op \in DealOps => deals'[tx[p].deal] # Null /\ deals'[tx[p].deal] = tx[p].read
      BY <3>1, TxFields DEF TxOK, Live, DealsGrow
    <3> QED
      BY <1>1, <1>2, <3>1, <3>2, <3>3 DEF TxOK, Live, ImportOK
  <2> QED
    BY <1>5, <2>1, <2>2 DEF TxInv
<1>7. ResidualSurfaced'
  <2> SUFFICES ASSUME NEW dm \in outreach', dm.edited, contacts'[dm.contact] # Null,
                      contacts'[dm.contact].erased
               PROVE  dm.pendingReview \/ dm.late
    BY DEF ResidualSurfaced
  <2>1. PICK old \in outreach :
           dm = IF NeedsReview(old, c) THEN [old EXCEPT !.pendingReview = TRUE] ELSE old
    BY <1>2 DEF SweepOutreach
  <2>2. old \in Dm
    BY DEF ContactsTypeOK
  <2>3. CASE NeedsReview(old, c)
    BY <2>1, <2>2, <2>3 DEF Dm
  <2>4. CASE ~NeedsReview(old, c)
    <3>1. dm = old /\ dm.contact \in Contacts \ {c}
      BY <2>1, <2>2, <2>4 DEF NeedsReview, Dm
    <3> QED
      BY <1>1, <3>1 DEF ResidualSurfaced
  <2> QED
    BY <2>3, <2>4
<1> QED
  BY <1>1, <1>4, <1>5, <1>6, <1>7, DealsGrowInv

LEMMA RedeployInv ==
    ASSUME Inv, NEW o \in Operators, Redeploy(o), DealsGrow
    PROVE  Inv'
<1> USE DEF Inv
<1>1. /\ UNCHANGED <<tx, desk, organisations, contacts, suppressions, register, forgotten,
                     outreach>>
      /\ begun' \in 0..MaxTx /\ hashKey' \in BOOLEAN
      /\ \A p \in Operators : tx[p] = Idle
  BY ContactsAssumption DEF Redeploy, AtOnce, MayBegin, ContactsTypeOK
<1>2. ContactsTypeOK'
  BY <1>1 DEF ContactsTypeOK
<1>3. TxInv'
  BY <1>1 DEF TxInv, TxOK, Idle, ContactOps, DealOps
<1>4. OneHolder' /\ ResidualSurfaced' /\ Registered'
  BY <1>1 DEF OneHolder, HoldsContact, HoldsDeal, ResidualSurfaced, Registered, KnownForgotten
<1> QED
  BY <1>2, <1>3, <1>4, DealsGrowInv

(***************************************************************************)
(* The transactions about people                                           *)
(***************************************************************************)

LEMMA SuppressInv ==
    ASSUME Inv, NEW o \in Operators, NEW key \in Keys, DealsGrow,
           AddSuppression(o, key) \/ RemoveSuppression(o, key)
    PROVE  Inv'
<1>1. /\ tx' = [tx EXCEPT ![o] = Idle]
      /\ begun' \in 0..MaxTx /\ UNCHANGED desk
      /\ UNCHANGED <<organisations, contacts, register, forgotten, hashKey, outreach>>
  BY ContactsAssumption DEF AddSuppression, RemoveSuppression, AtOnce, MayBegin, Inv, TxInv,
                            ContactsTypeOK
<1>2. suppressions' \subseteq Keys
  BY DEF AddSuppression, RemoveSuppression, Inv, ContactsTypeOK
<1>3. contacts' \in [Contacts -> Contact \cup {Null}] /\ organisations' \subseteq Organisations
  BY <1>1 DEF Inv, ContactsTypeOK
<1>4. /\ \A c \in Used : contacts'[c] # Null /\ contacts'[c].erased = contacts[c].erased
      /\ \A c \in Contacts \ Used : contacts'[c] = Null
  BY <1>1 DEF Used
<1> QED
  BY <1>1, <1>2, <1>3, <1>4, PeopleWrite

LEMMA NewRowIsContact ==
    ASSUME NEW org \in Organisations, NEW keys \in SUBSET Keys, NEW primary \in BOOLEAN,
           NEW source \in {"manual", "import"}
    PROVE  /\ NewRow(org, keys, primary, source) \in Contact
           /\ NewRow(org, keys, primary, source) # Null
           /\ ~NewRow(org, keys, primary, source).erased
<1>1. /\ NewRow(org, keys, primary, source) \in Contact
      /\ ~NewRow(org, keys, primary, source).erased
  BY DEF NewRow, Contact
<1> QED
  BY <1>1, NullIsNoRow

LEMMA CreateWriteInv ==
    ASSUME Inv, NEW o \in Operators, CreateWrite(o), DealsGrow
    PROVE  Inv'
<1>1. tx[o] \in Tx /\ tx[o].op = "create" /\ tx[o].keys \subseteq Keys
      /\ tx[o].org \in Organisations \cup {Null}
  BY TxFields DEF CreateWrite, Inv, TxInv
<1>2. PICK org \in Organisations, c \in Contacts \ Used :
         /\ contacts' = [contacts EXCEPT ![c] = NewRow(org, tx[o].keys, tx[o].org = Null, "manual")]
         /\ organisations' = organisations \cup {org}
  BY <1>1 DEF CreateWrite, NewIds, Inv, ContactsTypeOK
<1> DEFINE row == NewRow(org, tx[o].keys, tx[o].org = Null, "manual")
<1>3. row \in Contact /\ row # Null /\ ~row.erased
  BY <1>1, NewRowIsContact
<1>4. /\ contacts' \in [Contacts -> Contact \cup {Null}]
      /\ contacts'[c] = row /\ \A b \in Contacts \ {c} : contacts'[b] = contacts[b]
  BY <1>2, <1>3 DEF Inv, ContactsTypeOK
<1> HIDE DEF row
<1>5. /\ \A b \in Used : contacts'[b] # Null /\ contacts'[b].erased = contacts[b].erased
      /\ \A b \in Contacts \ Used : contacts'[b] = Null \/ ~contacts'[b].erased
  BY <1>3, <1>4 DEF Used
<1>6. /\ tx' = [tx EXCEPT ![o] = Idle]
      /\ begun' \in 0..MaxTx /\ UNCHANGED desk
      /\ UNCHANGED <<register, forgotten, hashKey, outreach>> /\ suppressions' \subseteq Keys
  BY DEF CreateWrite, End, Continue, Inv, ContactsTypeOK
<1>7. organisations' \subseteq Organisations
  BY <1>2 DEF Inv, ContactsTypeOK
<1> QED
  BY <1>4, <1>5, <1>6, <1>7, PeopleWrite

LEMMA UpdateContactInv ==
    ASSUME Inv, NEW o \in Operators, UpdateContactWrite(o), DealsGrow
    PROVE  Inv'
<1> DEFINE c == tx[o].contact
           row == [contacts[c] EXCEPT !.keys = tx[o].keys]
<1>1. c \in Contacts /\ contacts[c] \in Contact /\ tx[o].keys \subseteq Keys
  BY TxFields DEF UpdateContactWrite, Inv, TxInv, TxOK, ContactOps, ContactsTypeOK
<1>2. row \in Contact /\ row.erased = contacts[c].erased
  BY <1>1 DEF Contact
<1>3. row # Null
  BY <1>2, NullIsNoRow
<1>4. contacts' = [contacts EXCEPT ![c] = row]
  BY <1>1 DEF UpdateContactWrite, Contact
<1> HIDE DEF row, c
<1>5. /\ contacts' \in [Contacts -> Contact \cup {Null}]
      /\ contacts'[c] = row /\ \A b \in Contacts \ {c} : contacts'[b] = contacts[b]
  BY <1>1, <1>2, <1>4 DEF Inv, ContactsTypeOK
<1>6. /\ \A b \in Used : contacts'[b] # Null /\ contacts'[b].erased = contacts[b].erased
      /\ \A b \in Contacts \ Used : contacts'[b] = Null \/ ~contacts'[b].erased
  BY <1>1, <1>2, <1>3, <1>5, NullIsNoRow DEF Used
<1>7. /\ tx' = [tx EXCEPT ![o] = Idle]
      /\ begun' \in 0..MaxTx /\ UNCHANGED desk
      /\ UNCHANGED <<register, forgotten, hashKey, outreach>> /\ suppressions' \subseteq Keys
      /\ organisations' \subseteq Organisations
  BY DEF UpdateContactWrite, End, Continue, Inv, ContactsTypeOK
<1> QED
  BY <1>5, <1>6, <1>7, PeopleWrite

LEMMA SetPrimaryInv ==
    ASSUME Inv, NEW o \in Operators, SetPrimaryWrite(o), DealsGrow
    PROVE  Inv'
<1> DEFINE set(b, value) == [contacts[b] EXCEPT !.primary = value]
<1>1. tx[o].contact \in Contacts /\ contacts[tx[o].contact] # Null
  BY TxFields DEF SetPrimaryWrite, Inv, TxInv, TxOK, ContactOps
<1>2. ASSUME NEW b \in Used, NEW value \in BOOLEAN
      PROVE  set(b, value) \in Contact /\ set(b, value).erased = contacts[b].erased
             /\ set(b, value) # Null
  <2>1. contacts[b] \in Contact
    BY DEF Used, Inv, ContactsTypeOK
  <2>2. set(b, value) \in Contact /\ set(b, value).erased = contacts[b].erased
    BY <2>1 DEF Contact
  <2> QED
    BY <2>2, NullIsNoRow
<1>3. ASSUME NEW b \in Contacts
      PROVE  \/ contacts'[b] = contacts[b]
             \/ b \in Used /\ (contacts'[b] = set(b, TRUE) \/ contacts'[b] = set(b, FALSE))
  BY <1>1 DEF SetPrimaryWrite, Used
<1> HIDE DEF set
<1>4. \A b \in Contacts : contacts'[b] \in Contact \cup {Null}
  BY <1>2, <1>3 DEF Inv, ContactsTypeOK
<1>5. contacts' \in [Contacts -> Contact \cup {Null}]
  BY <1>4 DEF SetPrimaryWrite
<1>6. /\ \A b \in Used : contacts'[b] # Null /\ contacts'[b].erased = contacts[b].erased
      /\ \A b \in Contacts \ Used : contacts'[b] = Null \/ ~contacts'[b].erased
  BY <1>2, <1>3 DEF Used
<1>7. /\ tx' = [tx EXCEPT ![o] = Idle]
      /\ begun' \in 0..MaxTx /\ UNCHANGED desk
      /\ UNCHANGED <<register, forgotten, hashKey, outreach>> /\ suppressions' \subseteq Keys
      /\ organisations' \subseteq Organisations
  BY DEF SetPrimaryWrite, End, Continue, Inv, ContactsTypeOK
<1> QED
  BY <1>5, <1>6, <1>7, PeopleWrite

LEMMA ImportCommitInv ==
    ASSUME Inv, NEW o \in Operators, ImportCommit(o), DealsGrow
    PROVE  Inv'
<1> DEFINE created == tx[o].created
<1>1. created \in Seq(SUBSET Keys)
  BY TxFields DEF ImportCommit, ImportDone, Inv, TxInv
<1>2. \A i \in DOMAIN created : created[i] \in SUBSET Keys
  BY <1>1
<1>3. PICK ids \in [DOMAIN created -> NewIds],
           orgs \in [DOMAIN created -> Organisations \ organisations] :
         /\ contacts' = [c \in Contacts |->
               IF \E i \in DOMAIN created : ids[i] = c
               THEN LET i == CHOOSE i \in DOMAIN created : ids[i] = c
                    IN NewRow(orgs[i], created[i], TRUE, "import")
               ELSE contacts[c]]
         /\ organisations' = organisations \cup {orgs[i] : i \in DOMAIN created}
  BY DEF ImportCommit
<1>11. NewIds \subseteq Contacts \ Used
  BY DEF NewIds
<1> HIDE DEF created
<1>4. ASSUME NEW c \in Contacts
      PROVE  \/ contacts'[c] = contacts[c]
             \/ /\ c \notin Used
                /\ \E i \in DOMAIN created :
                      contacts'[c] = NewRow(orgs[i], created[i], TRUE, "import")
  <2>1. CASE \E i \in DOMAIN created : ids[i] = c
    <3> DEFINE i == CHOOSE i \in DOMAIN created : ids[i] = c
    <3>1. i \in DOMAIN created /\ ids[i] = c
      BY <2>1
    <3>3. c \notin Used
      BY <1>11, <3>1
    <3>2. contacts'[c] = NewRow(orgs[i], created[i], TRUE, "import")
      BY <1>3, <2>1
    <3> QED
      BY <3>1, <3>2, <3>3
  <2>2. CASE ~\E i \in DOMAIN created : ids[i] = c
    BY <1>3, <2>2
  <2> QED
    BY <2>1, <2>2
<1>5. \A i \in DOMAIN created :
         LET row == NewRow(orgs[i], created[i], TRUE, "import")
         IN  row \in Contact /\ row # Null /\ ~row.erased
  BY <1>2, <1>3, NewRowIsContact
<1>6. \A c \in Contacts : contacts'[c] \in Contact \cup {Null}
  BY <1>4, <1>5 DEF Inv, ContactsTypeOK
<1>7. contacts' \in [Contacts -> Contact \cup {Null}]
  BY <1>3, <1>6
<1>8. /\ \A c \in Used : contacts'[c] # Null /\ contacts'[c].erased = contacts[c].erased
      /\ \A c \in Contacts \ Used : contacts'[c] = Null \/ ~contacts'[c].erased
  BY <1>4, <1>5 DEF Used
<1>9. /\ tx' = [tx EXCEPT ![o] = Idle]
      /\ begun' \in 0..MaxTx /\ UNCHANGED desk
      /\ UNCHANGED <<register, forgotten, hashKey, outreach>> /\ suppressions' \subseteq Keys
  BY DEF ImportCommit, End, Continue, Inv, ContactsTypeOK
<1>10. organisations' \subseteq Organisations
  BY <1>3 DEF Inv, ContactsTypeOK
<1> QED
  BY <1>7, <1>8, <1>9, <1>10, PeopleWrite

\* A transaction that rolls back leaves nothing.
LEMMA RollbackInv ==
    ASSUME Inv, NEW o \in Operators, RollbackAll(o)
    PROVE  Inv'
<1>1. TxOK(Idle) /\ Idle.op = "none"
  BY DEF TxOK, Tx, Idle, ContactOps, DealOps
<1>2. /\ tx' = [tx EXCEPT ![o] = Idle] /\ begun' \in 0..MaxTx /\ UNCHANGED desk
      /\ UNCHANGED <<organisations, contacts, suppressions, register, forgotten, hashKey,
                     outreach, dealVars>>
  BY DEF RollbackAll, Rollback, End, Continue, Inv, ContactsTypeOK
<1> QED
  BY <1>1, <1>2, TxStep DEF ContactOps, DealOps

\* Beginning with a record, and going on with one.
LEMMA BeginInv ==
    ASSUME Inv, NEW o \in Operators, NEW op, MayBegin(o, op), NEW record, Begin(o, record),
           TxOK(record),
           record.op \in ContactOps => ContactFree(o, record.contact),
           record.op \in DealOps => DealFree(o, record.deal),
           UNCHANGED <<organisations, contacts, suppressions, register, forgotten, hashKey,
                       outreach, dealVars>>
    PROVE  Inv'
<1>1. tx' = [tx EXCEPT ![o] = record] /\ begun' \in 0..MaxTx /\ UNCHANGED desk
  BY ContactsAssumption DEF Begin, MayBegin, Inv, ContactsTypeOK
<1> QED
  BY <1>1, TxStep

LEMMA ContinueInv ==
    ASSUME Inv, NEW o \in Operators, NEW record, Continue(o, record), TxOK(record),
           record.op \in ContactOps => HoldsContact(o, record.contact),
           record.op \notin DealOps,
           UNCHANGED <<organisations, contacts, suppressions, register, forgotten, hashKey,
                       outreach, dealVars>>
    PROVE  Inv'
<1>1. tx' = [tx EXCEPT ![o] = record] /\ begun' \in 0..MaxTx /\ UNCHANGED desk
  BY DEF Continue, Inv, ContactsTypeOK
<1>2. record.op \in ContactOps => ContactFree(o, record.contact)
  BY TxFields DEF ContactFree, Inv, OneHolder, TxOK, ContactOps
<1> QED
  BY <1>1, <1>2, TxStep

LEMMA ContactReadsInv ==
    ASSUME Inv, NEW o \in Operators, UNCHANGED dealVars,
           \/ \E org \in Organisations \cup {Null}, key \in Keys : CreateCheck(o, org, {key})
           \/ CreateRefused(o)
           \/ \E c \in Contacts : EraseRead(o, c)
           \/ EraseFindsNothing(o)
           \/ \E c \in Contacts, keys \in SUBSET Keys : UpdateContactLock(o, c, keys)
           \/ UpdateContactDuplicate(o)
           \/ \E c \in Contacts : SetPrimaryLock(o, c)
           \/ SetPrimaryChoose(o)
    PROVE  Inv'
<1>1. CASE CreateRefused(o) \/ UpdateContactDuplicate(o) \/ EraseFindsNothing(o)
  BY <1>1, RollbackInv DEF CreateRefused, UpdateContactDuplicate, EraseFindsNothing, RollbackAll
<1>2. ASSUME NEW org \in Organisations \cup {Null}, NEW key \in Keys, CreateCheck(o, org, {key})
      PROVE  Inv'
  <2> DEFINE record == [op |-> "create", org |-> org, keys |-> {key}]
  <2>1. TxOK(record) /\ record.op \notin ContactOps \cup DealOps
    BY DEF TxOK, Tx, ContactOps, DealOps
  <2> QED
    BY <1>2, <2>1, BeginInv DEF CreateCheck
<1>3. ASSUME NEW c \in Contacts, NEW keys \in SUBSET Keys, UpdateContactLock(o, c, keys)
      PROVE  Inv'
  <2> DEFINE record == [op |-> "updateContact", contact |-> c, keys |-> keys]
  <2>1. record \in Tx
    BY DEF Tx
  <2>2. TxOK(record) /\ record.op \notin DealOps /\ ContactFree(o, record.contact)
    BY <1>3, <2>1 DEF TxOK, ContactOps, DealOps, UpdateContactLock
  <2> QED
    BY <1>3, <2>2, BeginInv DEF UpdateContactLock
<1>4. ASSUME NEW c \in Contacts, SetPrimaryLock(o, c)
      PROVE  Inv'
  <2> DEFINE record == [op |-> "setPrimaryContact", contact |-> c, demote |-> Null]
  <2>0. record \in [op : {"setPrimaryContact"}, contact : Contacts,
                    demote : (SUBSET Contacts) \cup {Null}]
    OBVIOUS
  <2>1. record \in Tx
    BY <2>0 DEF Tx
  <2>2. TxOK(record) /\ record.op \notin DealOps /\ ContactFree(o, record.contact)
    BY <1>4, <2>1 DEF TxOK, ContactOps, DealOps, SetPrimaryLock
  <2> QED
    BY <1>4, <2>2, BeginInv DEF SetPrimaryLock
<1>5. CASE SetPrimaryChoose(o)
  <2> DEFINE chosen == {c \in ContactsOf(contacts[tx[o].contact].org) : contacts[c].primary}
             record == [tx[o] EXCEPT !.demote = chosen]
  <2>1. /\ tx[o] \in Tx /\ tx[o].op = "setPrimaryContact" /\ TxOK(tx[o])
        /\ Continue(o, record)
        /\ UNCHANGED <<organisations, contacts, suppressions, register, forgotten, hashKey, outreach>>
    BY <1>5 DEF SetPrimaryChoose, Inv, TxInv
  <2>2. chosen \in SUBSET Contacts
    BY DEF ContactsOf, Used
  <2> HIDE DEF chosen
  <2>3. /\ record \in [op : {"setPrimaryContact"}, contact : Contacts,
                       demote : (SUBSET Contacts) \cup {Null}]
        /\ record.contact = tx[o].contact
    BY <2>1, <2>2 DEF Tx, Idle
  <2>4. record \in Tx /\ record.op = "setPrimaryContact"
    BY <2>3 DEF Tx
  <2> HIDE DEF record
  <2>5. TxOK(record) /\ HoldsContact(o, record.contact) /\ record.op \notin DealOps
    BY <2>1, <2>3, <2>4 DEF TxOK, ContactOps, DealOps, HoldsContact
  <2> QED
    BY <2>1, <2>4, <2>5, ContinueInv
<1>6. ASSUME NEW c \in Contacts, EraseRead(o, c)
      PROVE  Inv'
  <2> DEFINE record == [op |-> "erase", contact |-> c, old |-> contacts[c].keys]
  <2>1. contacts[c] \in Contact
    BY <1>6 DEF EraseRead, Inv, ContactsTypeOK
  <2>2. contacts[c].keys \in SUBSET Keys
    BY <2>1 DEF Contact
  <2>3. TxOK(record) /\ record.op \notin ContactOps \cup DealOps
    BY <2>2 DEF TxOK, Tx, ContactOps, DealOps
  <2> QED
    BY <1>6, <2>3, BeginInv DEF EraseRead
<1> QED
  BY <1>1, <1>2, <1>3, <1>4, <1>5, <1>6

(***************************************************************************)
(* Imports                                                                 *)
(***************************************************************************)

LEMMA ImportBeginInv ==
    ASSUME Inv, NEW o \in Operators, NEW file \in Files, ImportBegin(o, file), UNCHANGED dealVars
    PROVE  Inv'
<1> DEFINE record == [op |-> "import", rows |-> file, created |-> <<>>,
                      settled |-> FALSE, checked |-> FALSE, seen |-> KnownForgotten]
<1>1. /\ file \in Seq(SUBSET Keys) /\ <<>> \in Seq(SUBSET Keys)
      /\ KnownForgotten \subseteq register /\ register \subseteq Keys
  BY ContactsAssumption DEF Inv, ContactsTypeOK, Registered
<1>2. record \in Tx
  BY <1>1 DEF Tx
<1>3. ImportOK(record)
  BY <1>1 DEF ImportOK
<1>4. TxOK(record) /\ record.op \notin ContactOps \cup DealOps
  BY <1>2, <1>3 DEF TxOK, ContactOps, DealOps
<1> QED
  BY <1>4, BeginInv DEF ImportBegin

\* An import goes on: its record stays one of an import that is all right.
LEMMA ImportGoesOn ==
    ASSUME Inv, NEW o \in Operators, NEW record, Continue(o, record), UNCHANGED dealVars,
           record \in [op : {"import"}, rows : Seq(SUBSET Keys), created : Seq(SUBSET Keys),
                       settled : BOOLEAN, checked : BOOLEAN, seen : SUBSET Keys],
           ImportOK(record),
           UNCHANGED <<organisations, contacts, suppressions, register, forgotten, hashKey, outreach>>
    PROVE  Inv'
<1>1. TxOK(record) /\ record.op \notin ContactOps /\ record.op \notin DealOps
  BY DEF TxOK, Tx, ContactOps, DealOps
<1>2. UNCHANGED <<organisations, contacts, suppressions, register, forgotten, hashKey, outreach, dealVars>>
  OBVIOUS
<1> QED
  BY <1>1, <1>2, ContinueInv

LEMMA ImportCheckErasedInv ==
    ASSUME Inv, NEW o \in Operators, ImportCheckErased(o), UNCHANGED dealVars
    PROVE  Inv'
<1> DEFINE t == tx[o]
           checked == [t EXCEPT !.checked = TRUE, !.settled = TRUE]
<1>1. /\ t.op = "import" /\ t.rows # <<>> /\ ~t.checked /\ ~CheckUnavailable(o)
      /\ Continue(o, IF IsErased(Row(o)) THEN NextRow(o) ELSE checked)
      /\ UNCHANGED <<organisations, contacts, suppressions, register, forgotten, hashKey, outreach>>
  BY DEF ImportCheckErased
<1>2. /\ t \in [op : {"import"}, rows : Seq(SUBSET Keys), created : Seq(SUBSET Keys),
               settled : BOOLEAN, checked : BOOLEAN, seen : SUBSET Keys]
      /\ ImportOK(t)
  BY <1>1 DEF Inv, TxInv, TxOK, Tx, Idle
<1>3. Tail(t.rows) \in Seq(SUBSET Keys)
  BY <1>1, <1>2
<1>4. ~hashKey => t.seen = {}
  BY <1>1, <1>2 DEF CheckUnavailable, ImportOK
<1> HIDE DEF t
<1>5. CASE IsErased(Row(o))
  <2> DEFINE record == [t EXCEPT !.rows = Tail(t.rows), !.checked = FALSE, !.settled = TRUE]
  <2>1. record \in [op : {"import"}, rows : Seq(SUBSET Keys), created : Seq(SUBSET Keys),
                    settled : BOOLEAN, checked : BOOLEAN, seen : SUBSET Keys]
    BY <1>2, <1>3
  <2>2. ImportOK(record)
    BY <1>2, <1>4 DEF ImportOK
  <2>3. Continue(o, record)
    BY <1>1, <1>5 DEF NextRow, t
  <2> QED
    BY <1>1, <2>1, <2>2, <2>3, ImportGoesOn
<1>6. CASE ~IsErased(Row(o))
  <2>1. checked \in [op : {"import"}, rows : Seq(SUBSET Keys), created : Seq(SUBSET Keys),
                     settled : BOOLEAN, checked : BOOLEAN, seen : SUBSET Keys]
    BY <1>2
  <2>2. ~Matches(Head(t.rows), t.seen)
    BY <1>2, <1>4, <1>6 DEF IsErased, Row, Matches, ImportOK, t
  <2>3. ImportOK(checked)
    BY <1>1, <1>2, <1>4, <2>2 DEF ImportOK, t
  <2> QED
    BY <1>1, <1>6, <2>1, <2>3, ImportGoesOn
<1> QED
  BY <1>5, <1>6

LEMMA ImportMatchInv ==
    ASSUME Inv, NEW o \in Operators, ImportMatchOrCreate(o), UNCHANGED dealVars
    PROVE  Inv'
<1> DEFINE t == tx[o]
           next == [t EXCEPT !.rows = Tail(t.rows), !.checked = FALSE, !.settled = TRUE]
           made == Append(t.created, Head(t.rows))
           more == [next EXCEPT !.created = made]
<1>1. /\ t.op = "import" /\ t.rows # <<>> /\ t.checked
      /\ Continue(o, next) \/ Continue(o, more)
      /\ UNCHANGED <<organisations, contacts, suppressions, register, forgotten, hashKey, outreach>>
  <2>1. [NextRow(o) EXCEPT !.created = Append(@, Row(o))] = more
    BY DEF ImportMatchOrCreate, NextRow, Row, Inv, TxInv, Tx, Idle
  <2> QED
    BY <2>1 DEF ImportMatchOrCreate, NextRow
<1>2. /\ t \in [op : {"import"}, rows : Seq(SUBSET Keys), created : Seq(SUBSET Keys),
               settled : BOOLEAN, checked : BOOLEAN, seen : SUBSET Keys]
      /\ ImportOK(t)
  BY <1>1 DEF Inv, TxInv, TxOK, Tx, Idle
<1> HIDE DEF t
<1>3. Tail(t.rows) \in Seq(SUBSET Keys) /\ Head(t.rows) \in SUBSET Keys
  BY <1>1, <1>2
<1>4. next \in [op : {"import"}, rows : Seq(SUBSET Keys), created : Seq(SUBSET Keys),
                settled : BOOLEAN, checked : BOOLEAN, seen : SUBSET Keys]
      /\ ImportOK(next)
  BY <1>1, <1>2, <1>3 DEF ImportOK
<1>5. made \in Seq(SUBSET Keys) /\ \A i \in DOMAIN made : ~Matches(made[i], t.seen)
  BY <1>1, <1>2, <1>3 DEF ImportOK
<1> HIDE DEF made
<1>6. more \in [op : {"import"}, rows : Seq(SUBSET Keys), created : Seq(SUBSET Keys),
                settled : BOOLEAN, checked : BOOLEAN, seen : SUBSET Keys]
      /\ ImportOK(more)
  BY <1>1, <1>2, <1>3, <1>5 DEF ImportOK
<1> QED
  BY <1>1, <1>4, <1>6, ImportGoesOn

(***************************************************************************)
(* The reads of the transactions about deals                               *)
(***************************************************************************)

LEMMA LockDealInv ==
    ASSUME Inv, NEW o \in Operators, NEW d \in Deals, NEW record, LockDeal(o, d, record),
           record \in Tx, record.op \in DealOps, record.deal = d, record.read = deals[d],
           record.op = "advanceStage" /\ RequiresProduct(record.to) => record.product # Null
    PROVE  Inv'
<1>1. TxOK(record)
  BY DEF TxOK, LockDeal, ContactOps, DealOps
<1>2. record.op \notin ContactOps
  BY DEF ContactOps, DealOps
<1>3. /\ MayBegin(o, record.op) /\ Begin(o, record) /\ DealFree(o, record.deal)
      /\ UNCHANGED <<organisations, contacts, suppressions, register, forgotten, hashKey,
                     outreach, dealVars>>
  BY DEF LockDeal
<1> QED
  BY <1>1, <1>2, <1>3, BeginInv

LEMMA LocksInv ==
    ASSUME Inv, NEW o \in Operators, NEW d \in Deals,
           \/ \E to \in Stages, product \in Products \cup {Null} :
                 AdvanceStageLock(o, d, to, product)
           \/ \E at \in {"none", "planned"} : SetNextActionLock(o, d, at)
           \/ VoidLock(o, d)
           \/ RestoreLock(o, d)
    PROVE  Inv'
<1>1. Live(d) => deals[d] \in Deal
  BY DEF Live, Inv, DealsTyped
<1>2. ASSUME NEW to \in Stages, NEW product \in Products \cup {Null},
             AdvanceStageLock(o, d, to, product)
      PROVE  Inv'
  <2> DEFINE record == [op |-> "advanceStage", deal |-> d, read |-> deals[d], to |-> to,
                        product |-> product]
  <2>1. LockDeal(o, d, record) /\ deals[d] \in Deal /\ (RequiresProduct(to) => product # Null)
    BY <1>1, <1>2 DEF AdvanceStageLock, LockDeal
  <2>2. record \in Tx
    BY <2>1 DEF Tx
  <2> QED
    BY <2>1, <2>2, LockDealInv DEF DealOps
<1>3. ASSUME NEW at \in {"none", "planned"}, SetNextActionLock(o, d, at)
      PROVE  Inv'
  <2> DEFINE record == [op |-> "setNextAction", deal |-> d, read |-> deals[d], at |-> at]
  <2>1. LockDeal(o, d, record) /\ deals[d] \in Deal
    BY <1>1, <1>3 DEF SetNextActionLock, LockDeal
  <2>2. record \in Tx
    BY <2>1 DEF Tx
  <2> QED
    BY <2>1, <2>2, LockDealInv DEF DealOps
<1>4. CASE VoidLock(o, d)
  <2> DEFINE record == [op |-> "void", deal |-> d, read |-> deals[d]]
  <2>1. LockDeal(o, d, record) /\ deals[d] \in Deal
    BY <1>1, <1>4 DEF VoidLock, LockDeal
  <2>2. record \in Tx
    BY <2>1 DEF Tx
  <2> QED
    BY <2>1, <2>2, LockDealInv DEF DealOps
<1>5. CASE RestoreLock(o, d)
  <2> DEFINE record == [op |-> "restore", deal |-> d, read |-> deals[d]]
  <2>1. LockDeal(o, d, record) /\ deals[d] \in Deal
    BY <1>1, <1>5 DEF RestoreLock, LockDeal
  <2>2. record \in Tx
    BY <2>1 DEF Tx
  <2> QED
    BY <2>1, <2>2, LockDealInv DEF DealOps
<1> QED
  BY <1>2, <1>3, <1>4, <1>5

\* The reads that take no row lock, and the refusals.
LEMMA DealReadsInv ==
    ASSUME Inv, NEW o \in Operators,
           \/ DealRefused(o)
           \/ \E org \in Organisations, deal \in Deals \cup {Null},
                 kind \in {"outbound", "inbound"} : LogCheck(o, org, deal, kind)
           \/ LogRefused(o)
           \/ \E org \in Organisations, c \in Contacts, edited \in BOOLEAN :
                 DmCheckSuppression(o, org, c, edited)
           \/ DmCheckContact(o)
           \/ DmRefused(o)
           \/ \E org \in Organisations, product \in Products : LinkOrganisation(o, org, product)
    PROVE  Inv'
<1>1. CASE DealRefused(o) \/ LogRefused(o) \/ DmRefused(o)
  BY <1>1, RollbackInv DEF DealRefused, LogRefused, DmRefused
<1>2. ASSUME NEW org \in Organisations, NEW deal \in Deals \cup {Null},
             NEW kind \in {"outbound", "inbound"}, LogCheck(o, org, deal, kind)
      PROVE  Inv'
  <2> DEFINE record == [op |-> "logActivity", org |-> org, deal |-> deal, kind |-> kind]
  <2>1. record \in Tx
    BY DEF Tx
  <2>2. TxOK(record) /\ record.op \notin ContactOps /\ record.op \notin DealOps
    BY <2>1 DEF TxOK, ContactOps, DealOps
  <2> QED
    BY <1>2, <2>2, BeginInv DEF LogCheck
<1>3. ASSUME NEW org \in Organisations, NEW c \in Contacts, NEW edited \in BOOLEAN,
             DmCheckSuppression(o, org, c, edited)
      PROVE  Inv'
  <2> DEFINE record == [op |-> "dm", org |-> org, contact |-> c, edited |-> edited,
                        found |-> FALSE]
  <2>1. record \in Tx
    BY DEF Tx
  <2>2. TxOK(record) /\ record.op \notin ContactOps /\ record.op \notin DealOps
    BY <2>1 DEF TxOK, ContactOps, DealOps
  <2> QED
    BY <1>3, <2>2, BeginInv DEF DmCheckSuppression
<1>4. CASE DmCheckContact(o)
  <2> DEFINE record == [tx[o] EXCEPT !.found = TRUE]
  <2>1. tx[o] \in [op : {"dm"}, org : Organisations, contact : Contacts, edited : BOOLEAN,
                   found : BOOLEAN]
    BY <1>4 DEF DmCheckContact, Inv, TxInv, Tx, Idle
  <2>2. record \in [op : {"dm"}, org : Organisations, contact : Contacts, edited : BOOLEAN,
                    found : BOOLEAN]
    BY <2>1
  <2>3. TxOK(record) /\ record.op \notin ContactOps /\ record.op \notin DealOps
    BY <2>2 DEF TxOK, Tx, ContactOps, DealOps
  <2> HIDE DEF record
  <2>4. Continue(o, record)
        /\ UNCHANGED <<organisations, contacts, suppressions, register, forgotten, hashKey,
                       outreach, dealVars>>
    BY <1>4 DEF DmCheckContact, record
  <2> QED
    BY <2>3, <2>4, ContinueInv
<1>5. ASSUME NEW org \in Organisations, NEW product \in Products,
             LinkOrganisation(o, org, product)
      PROVE  Inv'
  <2>1. PICK target \in Deals \cup {Null} :
           Begin(o, [op |-> "link", org |-> org, product |-> product, fill |-> target])
    BY <1>5 DEF LinkOrganisation, WonDeals, DealsOf
  <2> DEFINE record == [op |-> "link", org |-> org, product |-> product, fill |-> target]
  <2>2. record \in Tx
    BY DEF Tx
  <2>3. TxOK(record) /\ record.op \notin ContactOps /\ record.op \notin DealOps
    BY <2>2 DEF TxOK, ContactOps, DealOps
  <2> HIDE DEF record
  <2>4. Begin(o, record) /\ MayBegin(o, "link")
        /\ UNCHANGED <<organisations, contacts, suppressions, register, forgotten, hashKey,
                       outreach, dealVars>>
    BY <1>5, <2>1 DEF LinkOrganisation, record
  <2> QED
    BY <2>3, <2>4, BeginInv
<1> QED
  BY <1>1, <1>2, <1>3, <1>4, <1>5

(***************************************************************************)
(* The writes of the transactions about deals                              *)
(***************************************************************************)

\* Transactions end or go on as they were, and no row is written under the
\* feet of one that goes on holding it.
LEMMA DealWrite ==
    ASSUME Inv, tx' \in [Operators -> Tx], begun' \in 0..MaxTx, UNCHANGED desk,
           \A p \in Operators : tx'[p] = tx[p] \/ tx'[p] = Idle,
           \A p \in Operators, d \in Deals :
              tx'[p] = tx[p] /\ HoldsDeal(p, d) => deals'[d] = deals[d],
           UNCHANGED <<organisations, contacts, suppressions, register, forgotten, hashKey, checkRaised>>,
           outreach' \subseteq Dm, ResidualSurfaced', DealsTyped', LogInv'
    PROVE  Inv'
<1> USE DEF Inv
<1>1. TxInv'
  <2> SUFFICES ASSUME NEW p \in Operators PROVE TxOK(tx[p])'
    BY DEF TxInv
  <2>1. CASE tx'[p] = Idle
    BY <2>1 DEF TxOK, Tx, Idle, ContactOps, DealOps
  <2>2. CASE tx'[p] = tx[p]
    <3>1. TxOK(tx[p]) /\ tx[p] \in Tx
      BY DEF TxInv
    <3>2. tx[p].op \in DealOps => HoldsDeal(p, tx[p].deal) /\ tx[p].deal \in Deals
      BY <3>1, TxFields DEF HoldsDeal, DealOps
    <3>3. tx[p].op \in DealOps => deals'[tx[p].deal] = deals[tx[p].deal]
      BY <2>2, <3>2
    <3> QED
      BY <2>2, <3>1, <3>3 DEF TxOK, Live, ImportOK
  <2> QED
    BY <2>1, <2>2
<1>2. \A p \in Operators :
         /\ \A c \in Contacts : HoldsContact(p, c)' => HoldsContact(p, c)
         /\ \A d \in Deals : HoldsDeal(p, d)' => HoldsDeal(p, d)
  BY DEF HoldsContact, HoldsDeal, Idle
<1>3. OneHolder'
  BY <1>2 DEF OneHolder
<1>4. ContactsTypeOK' /\ NoRawCheckViolation' /\ Registered'
  BY DEF ContactsTypeOK, NoRawCheckViolation, Registered, KnownForgotten
<1> QED
  BY <1>1, <1>3, <1>4

\* A stage change continues the history of the stage it was read at.
LEMMA StageChangeChains ==
    ASSUME NEW log \in Seq(Stages \X Stages), NEW from \in Stages, NEW to \in Stages,
           Chained(log, from)
    PROVE  /\ log \o StageChange(from, to) \in Seq(Stages \X Stages)
           /\ Chained(log \o StageChange(from, to), to)
<1>1. CASE from = to
  <2>1. log \o StageChange(from, to) = log
    BY <1>1, ConcatEmptySeq DEF StageChange
  <2> QED
    BY <1>1, <2>1
<1>2. CASE from # to
  <2> DEFINE step == <<from, to>>
             more == Append(log, step)
  <2>1. step \in Stages \X Stages /\ step[1] = from /\ step[2] = to
    OBVIOUS
  <2> HIDE DEF step
  <2>2. log \o StageChange(from, to) = more
    <3>1. StageChange(from, to) = <<step>>
      BY <1>2 DEF StageChange, step
    <3> QED
      BY <2>1, <3>1
  <2>3. more \in Seq(Stages \X Stages) /\ Len(more) = Len(log) + 1
        /\ more[Len(log) + 1] = step /\ \A i \in 1..Len(log) : more[i] = log[i]
    BY <2>1
  <2>4. Len(log) \in Nat
    OBVIOUS
  <2> HIDE DEF more
  <2>5. ASSUME NEW i \in 1..Len(more) - 1
        PROVE  more[i + 1][1] = more[i][2]
    <3>1. CASE i = Len(log)
      <4>1. log # <<>> /\ more[i] = log[i] /\ more[i + 1] = step
        BY <2>3, <2>4, <2>5, <3>1
      <4> QED
        BY <2>1, <3>1, <4>1 DEF Chained
    <3>2. CASE i # Len(log)
      <4>1. i \in 1..Len(log) - 1 /\ log # <<>> /\ more[i] = log[i] /\ more[i + 1] = log[i + 1]
        BY <2>3, <2>4, <2>5, <3>2
      <4> QED
        BY <4>1 DEF Chained
    <3> QED
      BY <3>1, <3>2
  <2>6. more[Len(more)][2] = to
    BY <2>1, <2>3
  <2> QED
    BY <2>2, <2>3, <2>5, <2>6 DEF Chained
<1> QED
  BY <1>1, <1>2

LEMMA UpdateDealInv ==
    ASSUME Inv, NEW o \in Operators, NEW d \in Deals, HoldsDeal(o, d), Live(d),
           NEW row \in Deal, CheckHolds(row), NEW log, UpdateDeal(o, d, row, log),
           stageLog[d] \o log \in Seq(Stages \X Stages),
           Chained(stageLog[d] \o log, row.stage)
    PROVE  Inv'
<1> USE DEF Inv
<1>1. /\ deals' = [deals EXCEPT ![d] = row]
      /\ stageLog' = [stageLog EXCEPT ![d] = stageLog[d] \o log]
      /\ tx' = [tx EXCEPT ![o] = Idle] /\ begun' \in 0..MaxTx /\ UNCHANGED desk
      /\ UNCHANGED <<organisations, contacts, suppressions, register, forgotten, hashKey,
                     outreach, conversion, checkRaised>>
  BY DEF UpdateDeal, End, Continue, ContactsTypeOK
<1>2. tx' \in [Operators -> Tx] /\ \A p \in Operators : tx'[p] = tx[p] \/ tx'[p] = Idle
  BY <1>1, EndHolds
<1>3. DealsTyped'
  BY <1>1 DEF DealsTyped
<1>4. LogInv'
  BY <1>1, NullIsNoRow DEF LogInv, Live, DealsTyped
<1>5. \A p \in Operators, e \in Deals :
         tx'[p] = tx[p] /\ HoldsDeal(p, e) => deals'[e] = deals[e]
  <2> SUFFICES ASSUME NEW p \in Operators, NEW e \in Deals, tx'[p] = tx[p], HoldsDeal(p, e)
               PROVE  deals'[e] = deals[e]
    OBVIOUS
  <2>1. tx'[o] = Idle /\ tx[o].op # "none"
    BY EndHolds, <1>1 DEF HoldsDeal
  <2>2. p # o
    BY <2>1 DEF Idle
  <2>3. e # d
    BY <2>2 DEF OneHolder
  <2> QED
    BY <1>1, <2>3 DEF DealsTyped
<1>6. outreach' \subseteq Dm /\ ResidualSurfaced'
  BY <1>1 DEF ContactsTypeOK, ResidualSurfaced
<1> QED
  BY <1>1, <1>2, <1>3, <1>4, <1>5, <1>6, DealWrite

\* The four operations on one deal write the row they hold.
LEMMA DealWritesInv ==
    ASSUME Inv, NEW o \in Operators,
           AdvanceStageWrite(o) \/ SetNextActionWrite(o) \/ VoidWrite(o) \/ RestoreWrite(o)
    PROVE  Inv'
<1> USE DEF Inv
<1> DEFINE d == tx[o].deal
           read == tx[o].read
<1>1. /\ tx[o] \in Tx /\ TxOK(tx[o]) /\ tx[o].op \in DealOps
      /\ d \in Deals /\ read \in Deal /\ Live(d) /\ deals[d] = read /\ HoldsDeal(o, d)
  <2>1. tx[o] \in Tx /\ TxOK(tx[o]) /\ tx[o].op \in DealOps
    BY DEF TxInv, DealOps, AdvanceStageWrite, SetNextActionWrite, VoidWrite, RestoreWrite
  <2> QED
    BY <2>1, TxFields DEF TxOK, HoldsDeal, DealOps
<1>2. stageLog[d] \in Seq(Stages \X Stages) /\ Chained(stageLog[d], read.stage)
  BY <1>1 DEF DealsTyped, LogInv
<1>3. stageLog[d] \o <<>> = stageLog[d]
  BY <1>2, ConcatEmptySeq
<1>4. CASE AdvanceStageWrite(o)
  <2> DEFINE to == tx[o].to
             row == Advanced(read, to, tx[o].product)
             log == StageChange(read.stage, to)
  <2>1. /\ to \in Stages /\ tx[o].product \in Products \cup {Null}
        /\ RequiresProduct(to) => tx[o].product # Null
    BY <1>1, <1>4, TxFields DEF AdvanceStageWrite, TxOK
  <2>2. row \in Deal /\ CheckHolds(row) /\ row.stage = to
    BY <1>1, <2>1 DEF Advanced, Deal, CheckHolds
  <2>3. stageLog[d] \o log \in Seq(Stages \X Stages) /\ Chained(stageLog[d] \o log, row.stage)
    BY <1>1, <1>2, <2>1, <2>2, StageChangeChains DEF Deal
  <2>4. UpdateDeal(o, d, row, log)
    BY <1>4 DEF AdvanceStageWrite
  <2> HIDE DEF d, row, log
  <2> QED
    BY <1>1, <2>2, <2>3, <2>4, UpdateDealInv
<1>5. CASE SetNextActionWrite(o)
  <2> DEFINE row == [read EXCEPT !.next = tx[o].at]
  <2>1. row \in Deal /\ CheckHolds(row) /\ row.stage = read.stage
    BY <1>1, <1>5, TxFields DEF SetNextActionWrite, Deal, CheckHolds
  <2>2. UpdateDeal(o, d, row, <<>>)
    BY <1>5 DEF SetNextActionWrite
  <2> HIDE DEF d, row
  <2> QED
    BY <1>1, <1>2, <1>3, <2>1, <2>2, UpdateDealInv
<1>6. CASE VoidWrite(o)
  <2> DEFINE row == [read EXCEPT !.voided = TRUE]
  <2>1. row \in Deal /\ CheckHolds(row) /\ row.stage = read.stage
    BY <1>1, <1>6 DEF VoidWrite, Deal, CheckHolds
  <2>2. UpdateDeal(o, d, row, <<>>)
    BY <1>6 DEF VoidWrite
  <2> HIDE DEF d, row
  <2> QED
    BY <1>1, <1>2, <1>3, <2>1, <2>2, UpdateDealInv
<1>7. CASE RestoreWrite(o)
  <2> DEFINE row == [read EXCEPT !.voided = FALSE]
  <2>1. row \in Deal /\ CheckHolds(row) /\ row.stage = read.stage
    BY <1>1, <1>7 DEF RestoreWrite, Deal, CheckHolds
  <2>2. UpdateDeal(o, d, row, <<>>)
    BY <1>7 DEF RestoreWrite
  <2> HIDE DEF d, row
  <2> QED
    BY <1>1, <1>2, <1>3, <2>1, <2>2, UpdateDealInv
<1> QED
  BY <1>4, <1>5, <1>6, <1>7

\* What a touched clock becomes.
LEMMA ClocksFacts ==
    ASSUME Inv, NEW org, NEW deal, NEW kind \in {"outbound", "inbound"}
    PROVE  /\ ~ClocksRefused(org, deal)
           /\ ClocksMoved(org, deal, kind) \in [Deals -> Deal \cup {Null}]
           /\ \A d \in Deals :
                 /\ d \in Touched(org, deal) =>
                       /\ Live(d) /\ ClockEligible(deals[d])
                       /\ ClocksMoved(org, deal, kind)[d] \in Deal
                       /\ ClocksMoved(org, deal, kind)[d].stage = deals[d].stage
                 /\ d \notin Touched(org, deal) =>
                       ClocksMoved(org, deal, kind)[d] = deals[d]
<1> USE DEF Inv
<1>1. \A d \in Touched(org, deal) :
         d \in Deals /\ Live(d) /\ deals[d] \in Deal /\ ClockEligible(deals[d])
  BY DEF Touched, DealsOf, Live, DealsTyped
<1>2. ~ClocksRefused(org, deal)
  BY <1>1 DEF ClocksRefused, ClockEligible, CheckHolds
<1>3. ASSUME NEW d \in Touched(org, deal)
      PROVE  /\ ClocksMoved(org, deal, kind)[d] \in Deal
             /\ ClocksMoved(org, deal, kind)[d].stage = deals[d].stage
  <2> DEFINE next == NextAction(kind, deals[d].next)
  <2>1. next \in {"none", "due", "default", "planned"}
    BY <1>1, <1>3 DEF NextAction, Deal
  <2>2. ClocksMoved(org, deal, kind)[d] = [deals[d] EXCEPT !.next = next]
    BY <1>1, <1>3 DEF ClocksMoved, Deal
  <2> HIDE DEF next
  <2> QED
    BY <1>1, <1>3, <2>1, <2>2 DEF Deal
<1>4. \A d \in Deals : d \notin Touched(org, deal) => ClocksMoved(org, deal, kind)[d] = deals[d]
  BY DEF ClocksMoved
<1>5. ClocksMoved(org, deal, kind) \in [Deals -> Deal \cup {Null}]
  <2>1. \A d \in Deals : ClocksMoved(org, deal, kind)[d] \in Deal \cup {Null}
    BY <1>3, <1>4 DEF DealsTyped
  <2> QED
    BY <2>1 DEF ClocksMoved
<1> QED
  BY <1>1, <1>2, <1>3, <1>4, <1>5

\* Ending a transaction, and writing only rows that no other one holds.
LEMMA FreeRowsWritten ==
    ASSUME Inv, NEW o \in Operators, End(o), tx[o].op \notin DealOps,
           \A d \in Deals : DealFree(o, d) \/ deals'[d] = deals[d]
    PROVE  /\ tx' \in [Operators -> Tx] /\ begun' \in 0..MaxTx /\ UNCHANGED desk
           /\ \A p \in Operators : tx'[p] = tx[p] \/ tx'[p] = Idle
           /\ \A p \in Operators, d \in Deals :
                 tx'[p] = tx[p] /\ HoldsDeal(p, d) => deals'[d] = deals[d]
<1>1. tx' = [tx EXCEPT ![o] = Idle] /\ begun' \in 0..MaxTx /\ UNCHANGED desk
  BY DEF End, Continue, Inv, ContactsTypeOK
<1>2. \A d \in Deals : ~HoldsDeal(o, d)
  BY DEF HoldsDeal, DealOps
<1> QED
  BY <1>1, <1>2, EndHolds DEF DealFree

LEMMA LogWriteInv ==
    ASSUME Inv, NEW o \in Operators, LogWrite(o)
    PROVE  Inv'
<1> USE DEF Inv
<1> DEFINE org == tx[o].org
           deal == tx[o].deal
           kind == tx[o].kind
<1>1. tx[o] \in Tx /\ tx[o].op = "logActivity" /\ kind \in {"outbound", "inbound"}
  BY TxFields DEF LogWrite, TxInv
<1> HIDE DEF org, deal, kind
<1>2. /\ ClocksFree(o, org, deal) /\ End(o)
      /\ deals' = ClocksMoved(org, deal, kind)
      /\ UNCHANGED <<organisations, contacts, suppressions, register, forgotten, hashKey,
                     outreach, stageLog, conversion, checkRaised>>
  BY <1>1, ClocksFacts DEF LogWrite, org, deal, kind
<1>3. deals' \in [Deals -> Deal \cup {Null}]
      /\ \A d \in Deals : /\ d \in Touched(org, deal) =>
                                Live(d) /\ deals'[d] \in Deal /\ deals'[d].stage = deals[d].stage
                          /\ d \notin Touched(org, deal) => deals'[d] = deals[d]
  BY <1>1, <1>2, ClocksFacts
<1>4. \A d \in Deals : DealFree(o, d) \/ deals'[d] = deals[d]
  BY <1>2, <1>3 DEF ClocksFree
<1>5. DealsTyped'
  BY <1>2, <1>3 DEF DealsTyped
<1>6. LogInv'
  BY <1>2, <1>3, NullIsNoRow DEF LogInv, Live
<1>7. outreach' \subseteq Dm /\ ResidualSurfaced'
  BY <1>2 DEF ContactsTypeOK, ResidualSurfaced
<1> QED
  BY <1>1, <1>2, <1>4, <1>5, <1>6, <1>7, FreeRowsWritten, DealWrite DEF DealOps

LEMMA DmWriteInv ==
    ASSUME Inv, NEW o \in Operators, DmWrite(o)
    PROVE  Inv'
<1> USE DEF Inv
<1> DEFINE org == tx[o].org
           c == tx[o].contact
           dm == [contact |-> c, edited |-> tx[o].edited, pendingReview |-> FALSE,
                  late |-> contacts[c].erased, suppressed |-> Suppressed(org)]
           moved == ClocksMoved(org, Null, "outbound")
           advancing == {d \in Touched(org, Null) : deals[d].stage = "new"}
<1>1. /\ tx[o] \in Tx /\ tx[o].op = "dm" /\ c \in Contacts /\ tx[o].edited \in BOOLEAN
      /\ contacts[c] \in Contact
  BY TxFields DEF DmWrite, TxInv, Used, ContactsTypeOK
<1>2. dm \in Dm /\ dm.contact = c /\ dm.late = contacts[c].erased
  BY <1>1 DEF Dm, Contact, Suppressed, Matches
<1>3. /\ moved \in [Deals -> Deal \cup {Null}]
      /\ ~ClocksRefused(org, Null)
      /\ \A d \in Deals :
            /\ d \in Touched(org, Null) =>
                  Live(d) /\ moved[d] \in Deal /\ moved[d].stage = deals[d].stage
            /\ d \notin Touched(org, Null) => moved[d] = deals[d]
  BY ClocksFacts
<1>4. /\ ClocksFree(o, org, Null) /\ End(o)
      /\ outreach' = outreach \cup {dm}
      /\ deals' = [d \in Deals |-> IF d \in advancing
                                   THEN [moved[d] EXCEPT !.stage = "contacted"] ELSE moved[d]]
      /\ stageLog' = [d \in Deals |->
            IF d \in advancing THEN stageLog[d] \o StageChange("new", "contacted")
            ELSE stageLog[d]]
      /\ UNCHANGED <<organisations, contacts, suppressions, register, forgotten, hashKey,
                     conversion, checkRaised>>
  BY <1>3 DEF DmWrite
<1> HIDE DEF org, dm, moved
<1>5. ASSUME NEW d \in Deals
      PROVE  /\ d \in advancing => /\ Live(d) /\ deals[d].stage = "new"
                                   /\ deals'[d] \in Deal /\ deals'[d].stage = "contacted"
             /\ d \notin advancing => /\ deals'[d] \in Deal \cup {Null}
                                      /\ Live(d) => /\ deals'[d] # Null
                                                    /\ deals'[d].stage = deals[d].stage
                                      /\ ~Live(d) => deals'[d] = Null
             /\ d \notin Touched(org, Null) => deals'[d] = deals[d]
  BY <1>3, <1>4, NullIsNoRow DEF Deal, Stages, Live
<1>6. ASSUME NEW d \in advancing
      PROVE  /\ stageLog[d] \o StageChange("new", "contacted") \in Seq(Stages \X Stages)
             /\ Chained(stageLog[d] \o StageChange("new", "contacted"), "contacted")
  <2>1. d \in Deals
    BY <1>6 DEF Touched, DealsOf
  <2>2. "new" \in Stages /\ "contacted" \in Stages
    BY DEF Stages
  <2>3. stageLog[d] \in Seq(Stages \X Stages) /\ Chained(stageLog[d], "new")
    BY <1>5, <1>6, <2>1 DEF DealsTyped, LogInv
  <2> QED
    BY <2>2, <2>3, StageChangeChains
<1> HIDE DEF advancing
<1>7. DealsTyped'
  BY <1>4, <1>5, <1>6 DEF DealsTyped
<1>8. LogInv'
  <2>1. ASSUME NEW d \in Deals, deals'[d] # Null
        PROVE  Chained(stageLog'[d], deals'[d].stage)
    BY <1>4, <1>5, <1>6, <2>1 DEF LogInv, Live
  <2>2. ASSUME NEW d \in Deals, deals'[d] = Null
        PROVE  stageLog'[d] = <<>>
    BY <1>4, <1>5, <2>2, NullIsNoRow DEF LogInv, Live
  <2> QED
    BY <2>1, <2>2 DEF LogInv, Live
<1>9. \A d \in Deals : DealFree(o, d) \/ deals'[d] = deals[d]
  BY <1>4, <1>5 DEF ClocksFree
<1>10. outreach' \subseteq Dm /\ ResidualSurfaced'
  BY <1>2, <1>4 DEF ContactsTypeOK, ResidualSurfaced
<1> QED
  BY <1>1, <1>4, <1>7, <1>8, <1>9, <1>10, FreeRowsWritten, DealWrite DEF DealOps

LEMMA LinkCommitInv ==
    ASSUME Inv, NEW o \in Operators, LinkCommit(o)
    PROVE  Inv'
<1> USE DEF Inv
<1> DEFINE fill == tx[o].fill
           row == [deals[fill] EXCEPT !.product = tx[o].product]
<1>1. /\ tx[o] \in Tx /\ tx[o].op = "link" /\ fill \in Deals \cup {Null}
      /\ tx[o].org \in Organisations /\ tx[o].product \in Products
  BY TxFields DEF LinkCommit, TxInv
<1>2. /\ fill # Null => DealFree(o, fill)
      /\ deals' = IF fill # Null /\ Live(fill) THEN [deals EXCEPT ![fill] = row] ELSE deals
      /\ conversion' = [conversion EXCEPT ![tx[o].org] = tx[o].product]
      /\ End(o)
      /\ UNCHANGED <<organisations, contacts, suppressions, register, forgotten, hashKey,
                     outreach, stageLog, checkRaised>>
  BY DEF LinkCommit
<1>3. fill # Null /\ Live(fill) => fill \in Deals /\ row \in Deal /\ row.stage = deals[fill].stage
  BY <1>1 DEF DealsTyped, Live, Deal
<1> HIDE DEF fill, row
<1>4. DealsTyped'
  BY <1>1, <1>2, <1>3 DEF DealsTyped
<1>5. LogInv'
  BY <1>2, <1>3, NullIsNoRow DEF LogInv, Live, DealsTyped
<1>6. \A d \in Deals : DealFree(o, d) \/ deals'[d] = deals[d]
  BY <1>2, <1>3 DEF DealsTyped
<1>7. outreach' \subseteq Dm /\ ResidualSurfaced'
  BY <1>2 DEF ContactsTypeOK, ResidualSurfaced
<1> QED
  BY <1>1, <1>2, <1>4, <1>5, <1>6, <1>7, FreeRowsWritten, DealWrite DEF DealOps

(***************************************************************************)
(* Creation, deletion, time                                                *)
(***************************************************************************)

LEMMA CreateOpportunityInv ==
    ASSUME Inv, NEW o \in Operators, NEW org \in Organisations, NEW product \in Products \cup {Null},
           CreateOpportunity(o, org, product)
    PROVE  Inv'
<1> USE DEF Inv
<1> DEFINE row == [NewDeal(org) EXCEPT !.product = product]
<1>1. row \in Deal
  BY DEF NewDeal, Deal, Stages
<1>2. PICK d \in Deals : ~Live(d) /\ deals' = [deals EXCEPT ![d] = row]
  BY DEF CreateOpportunity
<1> HIDE DEF row
<1>3. DealsGrow
  BY <1>1, <1>2 DEF DealsGrow, CreateOpportunity, DealsTyped, Live
<1>4. /\ tx' = [tx EXCEPT ![o] = Idle] /\ begun' \in 0..MaxTx /\ UNCHANGED desk
      /\ UNCHANGED <<organisations, contacts, suppressions, register, forgotten, hashKey, outreach>>
  BY ContactsAssumption DEF CreateOpportunity, AtOnce, MayBegin, TxInv, ContactsTypeOK
<1>5. /\ organisations' \subseteq Organisations /\ suppressions' \subseteq Keys
      /\ contacts' \in [Contacts -> Contact \cup {Null}]
      /\ \A c \in Used : contacts'[c] # Null /\ contacts'[c].erased = contacts[c].erased
      /\ \A c \in Contacts \ Used : contacts'[c] = Null \/ ~contacts'[c].erased
  BY <1>4 DEF ContactsTypeOK, Used
<1> QED
  BY <1>3, <1>4, <1>5, PeopleWrite

\* What a deletion takes with it is held by nobody.
LEMMA DeleteOrganisationInv ==
    ASSUME Inv, NEW o \in Operators, NEW org \in Organisations, DeleteOrganisation(o, org)
    PROVE  Inv'
<1> USE DEF Inv
<1>1. /\ UNCHANGED <<tx, desk, suppressions, register, forgotten, hashKey, checkRaised>>
      /\ begun' \in 0..MaxTx /\ tx[o] = Idle
      /\ organisations' \subseteq Organisations
  BY ContactsAssumption DEF DeleteOrganisation, AtOnce, MayBegin, ContactsTypeOK
<1>2. /\ contacts' \in [Contacts -> Contact \cup {Null}]
      /\ \A c \in Contacts : IF c \in ContactsOf(org)
                             THEN contacts'[c] = Null ELSE contacts'[c] = contacts[c]
  BY DEF DeleteOrganisation, ContactsTypeOK
<1>3. /\ deals' \in [Deals -> Deal \cup {Null}]
      /\ \A d \in Deals : IF d \in DealsOf(org) THEN deals'[d] = Null /\ stageLog'[d] = <<>>
                          ELSE deals'[d] = deals[d] /\ stageLog'[d] = stageLog[d]
  BY DEF DeleteOrganisation, DealsTyped
<1>4. ASSUME NEW p \in Operators
      PROVE  TxOK(tx[p])'
  <2>1. TxOK(tx[p]) /\ tx[p] \in Tx
    BY DEF TxInv
  <2>2. CASE p = o
    BY <1>1, <2>2 DEF TxOK, Tx, Idle, ContactOps, DealOps
  <2>3. CASE p # o
    <3>1. tx[p].op \in ContactOps => tx[p].contact \in Contacts /\ tx[p].contact \notin ContactsOf(org)
      BY <2>1, <2>3, TxFields DEF DeleteOrganisation, ContactFree, HoldsContact, ContactOps
    <3>2. tx[p].op \in DealOps => tx[p].deal \in Deals /\ tx[p].deal \notin DealsOf(org)
      BY <2>1, <2>3, TxFields DEF DeleteOrganisation, DealFree, HoldsDeal, DealOps
    <3>3. tx[p].op \in ContactOps => contacts'[tx[p].contact] # Null
      BY <1>2, <2>1, <3>1 DEF TxOK
    <3>4. tx[p].op \in DealOps => deals'[tx[p].deal] # Null /\ deals'[tx[p].deal] = tx[p].read
      BY <1>3, <2>1, <3>2 DEF TxOK, Live
    <3> QED
      BY <1>1, <2>1, <3>3, <3>4 DEF TxOK, Live, ImportOK
  <2> QED
    BY <2>2, <2>3
<1>5. TxInv' /\ OneHolder'
  BY <1>1, <1>4 DEF TxInv, OneHolder, HoldsContact, HoldsDeal
<1>6. ContactsTypeOK'
  BY <1>1, <1>2 DEF ContactsTypeOK, DeleteOrganisation
<1>7. conversion' \in [Organisations -> Products \cup {Null}]
  BY DEF DeleteOrganisation, DealsTyped
<1>8. stageLog' \in [Deals -> Seq(Stages \X Stages)]
  BY DEF DeleteOrganisation, DealsTyped
<1>9. DealsTyped' /\ NoRawCheckViolation'
  BY <1>1, <1>3, <1>7, <1>8 DEF DealsTyped, NoRawCheckViolation
<1>10. LogInv'
  <2>1. \A d \in Deals : deals'[d] # Null => stageLog'[d] = stageLog[d] /\ deals'[d] = deals[d]
    BY <1>3
  <2>2. \A d \in Deals : deals'[d] = Null => stageLog'[d] = <<>>
    BY <1>3 DEF LogInv, Live
  <2> QED
    BY <2>1, <2>2 DEF LogInv, Live, Chained
<1>11. ResidualSurfaced' /\ Registered'
  BY <1>1, <1>2 DEF ResidualSurfaced, DeleteOrganisation, ContactsTypeOK, Dm, Registered,
                    KnownForgotten
<1> QED
  BY <1>5, <1>6, <1>9, <1>10, <1>11

LEMMA DateComesInv ==
    ASSUME Inv, NEW d \in Deals, DateComes(d)
    PROVE  Inv'
<1> USE DEF Inv
<1> DEFINE row == [deals[d] EXCEPT !.next = "due"]
<1>1. row \in Deal /\ row.stage = deals[d].stage /\ Live(d)
  BY DEF DateComes, DealsTyped, Live, Deal
<1>2. /\ deals' = [deals EXCEPT ![d] = row] /\ DealFree(Null, d)
      /\ UNCHANGED <<contactVars, stageLog, conversion, checkRaised>>
  BY DEF DateComes
<1> HIDE DEF row
<1>3. \A p \in Operators, e \in Deals : HoldsDeal(p, e) => deals'[e] = deals[e]
  BY <1>2, ContactsAssumption DEF DealFree, DealsTyped
<1>4. DealsTyped' /\ LogInv'
  BY <1>1, <1>2, NullIsNoRow DEF DealsTyped, LogInv, Live
<1>5. /\ UNCHANGED <<organisations, contacts, suppressions, register, forgotten, hashKey, tx, desk, begun,
                     outreach, checkRaised>>
      /\ tx' \in [Operators -> Tx] /\ begun' \in 0..MaxTx
      /\ outreach' \subseteq Dm /\ ResidualSurfaced'
  BY <1>2 DEF contactVars, ContactsTypeOK, TxInv, ResidualSurfaced
<1> QED
  BY <1>3, <1>4, <1>5, DealWrite

(***************************************************************************)
(* The steps about people, with the deals of the organisations they make   *)
(***************************************************************************)

\* Every step about people leaves organisations in their set.
LEMMA OrganisationsTyped ==
    ASSUME Inv, NEW o \in Operators, ContactStep(o)
    PROVE  organisations' \subseteq Organisations
<1> USE DEF Inv, ContactsTypeOK
<1>1. CASE CreateWrite(o)
  BY <1>1 DEF CreateWrite
<1>2. CASE ImportCommit(o)
  BY <1>2 DEF ImportCommit
<1>3. CASE UNCHANGED organisations
  BY <1>3
<1> QED
  BY <1>1, <1>2, <1>3 DEF ContactStep, AddSuppression, RemoveSuppression, EraseRead,
     EraseWrite, EraseFindsNothing, SetPrimaryLock, Redeploy, CreateCheck, CreateRefused, UpdateContactLock,
     UpdateContactWrite, UpdateContactDuplicate, SetPrimaryChoose, SetPrimaryWrite,
     ImportBegin, ImportRefused, ImportCheckErased, ImportMatchOrCreate, ImportDuplicate,
     Rollback

LEMMA NewDealsGrow ==
    ASSUME Inv, NEW orgs \in SUBSET Organisations, DealsOfNewOrganisations(orgs),
           UNCHANGED <<stageLog, conversion, checkRaised>>
    PROVE  DealsGrow
<1> USE DEF Inv
<1>1. PICK ids \in [orgs -> {d \in Deals : ~Live(d)}] :
         deals' = [d \in Deals |->
              IF \E org \in orgs : ids[org] = d
              THEN NewDeal(CHOOSE org \in orgs : ids[org] = d)
              ELSE deals[d]]
  BY DEF DealsOfNewOrganisations
<1>2. \A org \in orgs : NewDeal(org) \in Deal
  BY DEF NewDeal, Deal, Stages
<1>3. ASSUME NEW d \in Deals
      PROVE  deals'[d] \in Deal \cup {Null} /\ (Live(d) => deals'[d] = deals[d])
  <2>1. CASE \E org \in orgs : ids[org] = d
    <3>1. (CHOOSE org \in orgs : ids[org] = d) \in orgs
      BY <2>1
    <3> QED
      BY <1>1, <1>2, <2>1, <3>1
  <2>2. CASE ~\E org \in orgs : ids[org] = d
    BY <1>1, <2>2 DEF DealsTyped
  <2> QED
    BY <2>1, <2>2
<1>4. deals' \in [Deals -> Deal \cup {Null}]
  BY <1>1, <1>3
<1> QED
  BY <1>3, <1>4 DEF DealsGrow

\* The deals stay as they are unless organisations are made.
LEMMA PeopleStepDeals ==
    ASSUME Inv, NEW o \in Operators, PeopleStep(o)
    PROVE  DealsGrow /\ (organisations' = organisations => UNCHANGED dealVars)
<1>1. organisations' \subseteq Organisations
  BY OrganisationsTyped DEF PeopleStep
<1> DEFINE orgs == organisations' \ organisations
<1>2. CASE orgs # {} /\ DealsOfNewOrganisations(orgs)
  <2>1. orgs \in SUBSET Organisations
    BY <1>1
  <2>2. DealsGrow
    BY <1>2, <2>1, NewDealsGrow DEF PeopleStep
  <2> QED
    BY <1>2, <2>2
<1>3. CASE deals' = deals
  BY <1>3 DEF PeopleStep, DealsGrow, dealVars, Inv, DealsTyped
<1> QED
  BY <1>2, <1>3 DEF PeopleStep

LEMMA PeopleStepInv ==
    ASSUME Inv, NEW o \in Operators, PeopleStep(o)
    PROVE  Inv'
<1>1. DealsGrow /\ (organisations' = organisations => UNCHANGED dealVars)
  BY PeopleStepDeals
<1>2. ASSUME NEW key \in Keys, AddSuppression(o, key) \/ RemoveSuppression(o, key)
      PROVE  Inv'
  BY <1>1, <1>2, SuppressInv
<1>3. CASE EraseWrite(o)
  BY <1>1, <1>3, EraseInv
<1>4. CASE Redeploy(o)
  BY <1>1, <1>4, RedeployInv
<1>5. CASE CreateWrite(o)
  BY <1>1, <1>5, CreateWriteInv
<1>6. CASE UpdateContactWrite(o)
  BY <1>1, <1>6, UpdateContactInv
<1>7. CASE SetPrimaryWrite(o)
  BY <1>1, <1>7, SetPrimaryInv
<1>8. CASE ImportCommit(o)
  BY <1>1, <1>8, ImportCommitInv
<1>9. CASE \/ \E org \in Organisations \cup {Null}, key \in Keys : CreateCheck(o, org, {key})
           \/ CreateRefused(o)
           \/ \E c \in Contacts : EraseRead(o, c)
           \/ EraseFindsNothing(o)
           \/ \E c \in Contacts, keys \in SUBSET Keys : UpdateContactLock(o, c, keys)
           \/ UpdateContactDuplicate(o)
           \/ \E c \in Contacts : SetPrimaryLock(o, c)
           \/ SetPrimaryChoose(o)
  <2>1. UNCHANGED organisations
    BY <1>9 DEF CreateCheck, CreateRefused, EraseRead, EraseFindsNothing,
                UpdateContactLock, UpdateContactDuplicate, SetPrimaryLock, SetPrimaryChoose, Rollback
  <2> QED
    BY <1>1, <1>9, <2>1, ContactReadsInv
<1>10. CASE \E file \in Files : ImportBegin(o, file)
  <2>1. UNCHANGED organisations
    BY <1>10 DEF ImportBegin
  <2> QED
    BY <1>1, <1>10, <2>1, ImportBeginInv
<1>11. CASE ImportCheckErased(o)
  <2>1. UNCHANGED organisations
    BY <1>11 DEF ImportCheckErased
  <2> QED
    BY <1>1, <1>11, <2>1, ImportCheckErasedInv
<1>12. CASE ImportMatchOrCreate(o)
  <2>1. UNCHANGED organisations
    BY <1>12 DEF ImportMatchOrCreate
  <2> QED
    BY <1>1, <1>12, <2>1, ImportMatchInv
<1>13. CASE ImportRefused(o) \/ ImportDuplicate(o)
  BY <1>1, <1>13, RollbackInv DEF ImportRefused, ImportDuplicate, RollbackAll, Rollback
<1> QED
  BY <1>2, <1>3, <1>4, <1>5, <1>6, <1>7, <1>8, <1>9, <1>10, <1>11, <1>12, <1>13
     DEF PeopleStep, ContactStep

(***************************************************************************)
(* The theorems                                                            *)
(***************************************************************************)

LEMMA DealStepInv ==
    ASSUME Inv, NEW o \in Operators, DealStep(o)
    PROVE  Inv'
<1>1. CASE \E d \in Deals : \/ \E to \in Stages, product \in Products \cup {Null} :
                                  AdvanceStageLock(o, d, to, product)
                            \/ \E at \in {"none", "planned"} : SetNextActionLock(o, d, at)
                            \/ VoidLock(o, d)
                            \/ RestoreLock(o, d)
  BY <1>1, LocksInv
<1>2. CASE AdvanceStageWrite(o) \/ SetNextActionWrite(o) \/ VoidWrite(o) \/ RestoreWrite(o)
  BY <1>2, DealWritesInv
<1>3. CASE \/ DealRefused(o)
           \/ \E org \in Organisations, deal \in Deals \cup {Null},
                 kind \in {"outbound", "inbound"} : LogCheck(o, org, deal, kind)
           \/ LogRefused(o)
           \/ \E org \in Organisations, c \in Contacts, edited \in BOOLEAN :
                 DmCheckSuppression(o, org, c, edited)
           \/ DmCheckContact(o)
           \/ DmRefused(o)
           \/ \E org \in Organisations, product \in Products : LinkOrganisation(o, org, product)
  BY <1>3, DealReadsInv
<1>4. CASE LogWrite(o)
  BY <1>4, LogWriteInv
<1>5. CASE DmWrite(o)
  BY <1>5, DmWriteInv
<1>6. CASE LinkCommit(o)
  BY <1>6, LinkCommitInv
<1>7. ASSUME NEW org \in Organisations, NEW product \in Products \cup {Null},
             CreateOpportunity(o, org, product)
      PROVE  Inv'
  BY <1>7, CreateOpportunityInv
<1>8. ASSUME NEW org \in Organisations, DeleteOrganisation(o, org)
      PROVE  Inv'
  BY <1>8, DeleteOrganisationInv
<1> QED
  BY <1>1, <1>2, <1>3, <1>4, <1>5, <1>6, <1>7, <1>8 DEF DealStep

LEMMA NextInv == Inv /\ [Next]_vars => Inv'
<1> SUFFICES ASSUME Inv, [Next]_vars PROVE Inv'
  OBVIOUS
<1>1. ASSUME NEW o \in Operators, PeopleStep(o)
      PROVE  Inv'
  BY <1>1, PeopleStepInv
<1>2. ASSUME NEW o \in Operators, DealStep(o)
      PROVE  Inv'
  BY <1>2, DealStepInv
<1>3. ASSUME NEW d \in Deals, DateComes(d)
      PROVE  Inv'
  BY <1>3, DateComesInv
<1>4. CASE UNCHANGED vars
  <2>1. UNCHANGED <<organisations, contacts, suppressions, register, forgotten, hashKey, tx, desk, begun,
                    outreach, checkRaised, deals, stageLog, conversion>>
    BY <1>4 DEF vars, contactVars, dealVars
  <2>2. /\ tx' \in [Operators -> Tx] /\ begun' \in 0..MaxTx
        /\ outreach' \subseteq Dm /\ ResidualSurfaced' /\ DealsTyped' /\ LogInv'
    BY <2>1 DEF Inv, ContactsTypeOK, TxInv, ResidualSurfaced, DealsTyped, LogInv, Live
  <2> QED
    BY <2>1, <2>2, DealWrite
<1> QED
  BY <1>1, <1>2, <1>3, <1>4 DEF Next

LEMMA SpecInv == Spec => []Inv
BY InitInv, NextInv, PTL DEF Spec

\* Every variable stays in its set, the outreach log and the rows that
\* erasures, imports and deletions rewrite included.
THEOREM TypeCorrect == Spec => []TypeOK
<1>1. Inv => TypeOK
  BY DEF Inv, TypeOK, DealsTyped
<1> QED
  BY <1>1, SpecInv, PTL

\* commitImport names nobody who was forgotten before it began: every row it
\* takes was matched against a register that holds them, under a hash key
\* that was there when the first row was checked.
THEOREM ImportsSpare == Spec => []ImportSparesTheForgotten
<1>1. Inv => ImportSparesTheForgotten
  <2> SUFFICES ASSUME Inv, NEW o \in Operators, tx[o].op = "import"
               PROVE  ~Matches(CreatedKeys(o), tx[o].seen)
    BY DEF ImportSparesTheForgotten
  <2>1. \A i \in DOMAIN tx[o].created : ~Matches(tx[o].created[i], tx[o].seen)
    BY DEF Inv, TxInv, TxOK, ImportOK
  <2> QED
    BY <2>1 DEF Matches, CreatedKeys
<1> QED
  BY <1>1, SpecInv, PTL

\* eraseContact leaves no edited text to an erased person off the list of
\* residuals, but for a DM whose checks the erasure overtook.
THEOREM ResidualsReachAHuman == Spec => []ResidualSurfaced
BY SpecInv, PTL DEF Inv

\* The stage_change rows of a deal are the history of its stage, whichever of
\* advanceStage and recordTemplatedDm wrote them.
THEOREM StageHistory == Spec => []StageLogChains
<1>1. Inv => StageLogChains
  BY DEF Inv, LogInv, Chained, StageLogChains
<1> QED
  BY <1>1, SpecInv, PTL

\* No operation meets the CHECK of migrated deals as a raw 23514: the row
\* each UPDATE would write satisfies it, by what was read under the lock.
THEOREM ChecksAreMetFirst == Spec => []NoRawCheckViolation
BY SpecInv, PTL DEF Inv

\* What a voided deal keeps in a step.
Rests(d) ==
    deals'[d].stage = deals[d].stage /\ deals'[d].next \in {deals[d].next, "due"}

LEMMA VoidedRest ==
    ASSUME Inv, [Next]_vars, NEW d \in Deals, Live(d), deals[d].voided,
           deals'[d] # Null, deals'[d].voided
    PROVE  Rests(d)
<1> USE DEF Inv
<1>1. deals[d] \in Deal
  BY DEF Live, DealsTyped
<1>2. CASE deals'[d] = deals[d]
  BY <1>2 DEF Rests
<1>3. ASSUME NEW o \in Operators, NEW e \in Deals, NEW row, NEW log, UpdateDeal(o, e, row, log),
             e = d => row.stage = deals[d].stage /\ row.next = deals[d].next
      PROVE  Rests(d)
  BY <1>3 DEF UpdateDeal, Rests, DealsTyped
<1>4. ASSUME NEW o \in Operators, tx[o].op \in DealOps
      PROVE  tx[o].deal \in Deals /\ deals[tx[o].deal] = tx[o].read
  BY <1>4, TxFields DEF TxInv, TxOK
<1>5. ASSUME NEW o \in Operators, PeopleStep(o)
      PROVE  Rests(d)
  BY <1>2, <1>5, PeopleStepDeals DEF DealsGrow
<1>6. ASSUME NEW o \in Operators, DealStep(o)
      PROVE  Rests(d)
  <2>1. CASE AdvanceStageWrite(o)
    <3>1. tx[o].op \in DealOps /\ ~tx[o].read.voided
      BY <2>1 DEF AdvanceStageWrite, DealOps
    <3>2. tx[o].deal # d
      BY <1>4, <3>1
    <3> QED
      BY <1>3, <1>4, <2>1, <3>1, <3>2 DEF AdvanceStageWrite
  <2>2. CASE SetNextActionWrite(o)
    <3>1. tx[o].op \in DealOps /\ ~tx[o].read.voided
      BY <2>2 DEF SetNextActionWrite, DealOps
    <3>2. tx[o].deal # d
      BY <1>4, <3>1
    <3> QED
      BY <1>3, <1>4, <2>2, <3>1, <3>2 DEF SetNextActionWrite
  <2>3. CASE VoidWrite(o)
    <3>1. tx[o].op \in DealOps /\ ~tx[o].read.voided
      BY <2>3 DEF VoidWrite, DealOps
    <3>2. tx[o].deal # d
      BY <1>4, <3>1
    <3> QED
      BY <1>3, <1>4, <2>3, <3>1, <3>2 DEF VoidWrite
  <2>4. CASE RestoreWrite(o)
    <3>1. tx[o].op \in DealOps
      BY <2>4 DEF RestoreWrite, DealOps
    <3>2. tx[o].deal = d => [tx[o].read EXCEPT !.voided = FALSE].stage = deals[d].stage
                            /\ [tx[o].read EXCEPT !.voided = FALSE].next = deals[d].next
      BY <1>1, <1>4, <3>1 DEF Deal
    <3> QED
      BY <1>3, <1>4, <2>4, <3>1, <3>2 DEF RestoreWrite
  <2>5. CASE LogWrite(o)
    <3>1. tx[o].kind \in {"outbound", "inbound"}
      BY <2>5, TxFields DEF LogWrite, TxInv
    <3>2. d \notin Touched(tx[o].org, tx[o].deal)
      BY DEF Touched, ClockEligible
    <3>3. deals' = ClocksMoved(tx[o].org, tx[o].deal, tx[o].kind)
      BY <2>5, <3>1, ClocksFacts DEF LogWrite
    <3> QED
      BY <1>2, <3>1, <3>2, <3>3, ClocksFacts
  <2>6. CASE DmWrite(o)
    <3>1. d \notin Touched(tx[o].org, Null)
      BY DEF Touched, ClockEligible
    <3>2. deals'[d] = ClocksMoved(tx[o].org, Null, "outbound")[d]
      BY <2>6, <3>1, ClocksFacts DEF DmWrite
    <3> QED
      BY <1>2, <3>1, <3>2, ClocksFacts
  <2>7. CASE LinkCommit(o)
    <3>1. \/ deals' = deals
          \/ deals' = [deals EXCEPT ![tx[o].fill].product = tx[o].product]
      BY <2>7 DEF LinkCommit
    <3>2. deals'[d] = deals[d] \/ deals'[d] = [deals[d] EXCEPT !.product = tx[o].product]
      BY <3>1 DEF DealsTyped
    <3> QED
      BY <1>1, <3>2 DEF Rests, Deal
  <2>8. ASSUME NEW org \in Organisations, NEW product \in Products \cup {Null},
               CreateOpportunity(o, org, product)
        PROVE  Rests(d)
    BY <1>2, <2>8 DEF CreateOpportunity, DealsTyped
  <2>9. ASSUME NEW org \in Organisations, DeleteOrganisation(o, org)
        PROVE  Rests(d)
    BY <1>2, <2>9 DEF DeleteOrganisation
  <2>10. CASE deals' = deals
    BY <1>2, <2>10
  <2>11. CASE \E e \in Deals : \/ \E to \in Stages, product \in Products \cup {Null} :
                                     AdvanceStageLock(o, e, to, product)
                               \/ \E at \in {"none", "planned"} : SetNextActionLock(o, e, at)
                               \/ VoidLock(o, e)
                               \/ RestoreLock(o, e)
    <3>1. deals' = deals
      BY <2>11 DEF AdvanceStageLock, SetNextActionLock, VoidLock, RestoreLock, LockDeal, dealVars
    <3> QED
      BY <2>10, <3>1
  <2>12. CASE \/ DealRefused(o)
              \/ \E org \in Organisations, deal \in Deals \cup {Null},
                    kind \in {"outbound", "inbound"} : LogCheck(o, org, deal, kind)
              \/ LogRefused(o)
              \/ \E org \in Organisations, c \in Contacts, edited \in BOOLEAN :
                    DmCheckSuppression(o, org, c, edited)
              \/ DmCheckContact(o)
              \/ DmRefused(o)
              \/ \E org \in Organisations, product \in Products :
                    LinkOrganisation(o, org, product)
    <3>1. deals' = deals
      BY <2>12 DEF DealRefused, LogCheck, LogRefused, DmCheckSuppression, DmCheckContact,
                   DmRefused, LinkOrganisation, RollbackAll, dealVars
    <3> QED
      BY <2>10, <3>1
  <2> QED
    BY <1>6, <2>1, <2>2, <2>3, <2>4, <2>5, <2>6, <2>7, <2>8, <2>9, <2>11, <2>12 DEF DealStep
<1>7. ASSUME NEW e \in Deals, DateComes(e)
      PROVE  Rests(d)
  <2>1. deals'[d] = deals[d] \/ deals'[d] = [deals[d] EXCEPT !.next = "due"]
    BY <1>7 DEF DateComes, DealsTyped
  <2> QED
    BY <1>1, <2>1 DEF Rests, Deal
<1>8. CASE UNCHANGED vars
  BY <1>2, <1>8 DEF vars, dealVars
<1> QED
  BY <1>5, <1>6, <1>7, <1>8 DEF Next

\* What was taken out of the funnel stays as it was: advanceStage and
\* setNextAction meet the void under the row's lock, and CLOCK_ELIGIBLE_SQL
\* passes it over.
THEOREM VoidsRest == Spec => VoidedDealsRest
<1>1. Inv /\ [Next]_vars =>
        \A d \in Deals :
           /\ Live(d) /\ deals[d].voided
           /\ deals'[d] # Null /\ deals'[d].voided
           => /\ deals'[d].stage = deals[d].stage
              /\ deals'[d].next \in {deals[d].next, "due"}
  BY VoidedRest DEF Rests
<1> QED
  BY <1>1, SpecInv, PTL DEF Spec, VoidedDealsRest

(***************************************************************************)
(* The pages of a list (KeysetPaging)                                      *)
(*                                                                         *)
(* A cursor splits the list at a key, whatever the table holds: a walk has *)
(* shown what it owes on this side of the anchor and nothing of the other  *)
(* (Reached), and a read, once made, begins what it owes on the other      *)
(* (FetchCovers), though other rows were written since.  A cursor that is  *)
(* cut to the millisecond splits before its row: then one half of Reached  *)
(* is lost, the one or the other with the way the walk goes.               *)
(*                                                                         *)
(* While nobody writes, a cursor is also a place, wherever its key lies    *)
(* (Split), and a read brings the rows next to it; a cursor that keeps its *)
(* key is at a multiple of the limit.  That a list has one order           *)
(* (OneOrder) joins the two.                                               *)
(***************************************************************************)

\* The rows of the session's list, the page being read and the page shown.
ListTyped ==
    /\ list \in Lists
    /\ table \in [RowIds -> Instants \cup {NoValue}]
    /\ \A r \in Matching : list # NoValue /\ table[r] \in list.instants
    /\ request \in Request \cup {NoValue}
    /\ page \in Page \cup {NoValue}
    /\ walk \in Walk
    /\ writes \in Nat
    /\ request # NoValue \/ page # NoValue => list # NoValue

\* The key a fetched row was fetched with.
FetchedKey(row) == <<row.at, row.id>>

\* Where the walk goes on.
Control == IF walk.direction = "after" THEN page.next ELSE page.previous

\* What the walk keeps of its promise: rows are not shown twice, or not lost.
NoneTwice == KeepsKeys \/ ~ReadsUp(walk.direction)
NoneLost == KeepsKeys \/ ReadsUp(walk.direction)

\* What has been fetched is the beginning of what the walk owes beyond the anchor.
FetchCovers(fetched, cursor) ==
    /\ Len(fetched) <= Limit + 1
    /\ \A i \in DOMAIN fetched : fetched[i].at \in list.instants /\ Beyond(FetchedKey(fetched[i]), cursor)
    /\ \A i, j \in DOMAIN fetched :
          i < j => Nearer(FetchedKey(fetched[i]), FetchedKey(fetched[j]), cursor)
    /\ \A i \in DOMAIN fetched : fetched[i].id \in walk.owed => fetched[i].at = table[fetched[i].id]
    /\ \A r \in walk.owed : Beyond(KeyOf(r), cursor) =>
          \/ \E i \in DOMAIN fetched : fetched[i].id = r
          \/ /\ Len(fetched) = Limit + 1
             /\ Nearer(FetchedKey(fetched[Limit + 1]), KeyOf(r), cursor)

\* Of what it owes, a walk has shown nothing beyond the anchor, and all up to it.
Reached(cursor) ==
    \A r \in walk.owed :
        /\ NoneTwice /\ r \in walk.shown => ~Beyond(KeyOf(r), cursor)
        /\ NoneLost /\ ~Beyond(KeyOf(r), cursor) => r \in walk.shown

\* The controls of a page are minted from the rows at its ends.
Minted(shown) ==
    /\ \A i \in DOMAIN shown.rows : shown.rows[i].at \in list.instants
    /\ shown.next # NoValue =>
          /\ shown.rows # <<>>
          /\ shown.next = MintCursor(Last(shown.rows).id, Last(shown.rows).at, "after")
    /\ shown.previous # NoValue =>
          /\ shown.rows # <<>>
          /\ shown.previous = MintCursor(Head(shown.rows).id, Head(shown.rows).at, "before")

WalkInv ==
    /\ walk.owed \subseteq Matching /\ walk.shown \subseteq walk.owed
    /\ NoneTwice => walk.again = {}
    /\ request = NoValue /\ page = NoValue => walk.owed = {}
    /\ request # NoValue =>
          /\ walk.direction = (IF request.cursor = NoValue THEN "after" ELSE request.cursor.direction)
          /\ Reached(request.cursor)
          /\ request.fetched # NoValue => FetchCovers(request.fetched, request.cursor)
    /\ page # NoValue => Minted(page)
    /\ request = NoValue /\ page # NoValue =>
          IF Control # NoValue THEN Reached(Control)
          ELSE NoneLost /\ (walk.direction = "after" \/ ~list.console) => walk.shown = walk.owed

SomeKeys == Nat \X RowIds

\* The order of a list is total, and a backward read turns it round.
LEMMA NearerIsAnOrder ==
    ASSUME NEW k \in SomeKeys, NEW l \in SomeKeys, NEW m \in SomeKeys, NEW cursor
    PROVE  /\ ~Nearer(k, k, cursor)
           /\ Nearer(k, l, cursor) => ~Nearer(l, k, cursor)
           /\ Nearer(k, l, cursor) /\ Nearer(l, m, cursor) => Nearer(k, m, cursor)
           /\ k # l => Nearer(k, l, cursor) \/ Nearer(l, k, cursor)
<1>0. RowIds \subseteq Nat
  BY PagingAssumption
<1>1. \A a, b \in SomeKeys : a[1] \in Nat /\ a[2] \in Nat /\ (a[1] = b[1] /\ a[2] = b[2] => a = b)
  <2>1. \A a \in SomeKeys : a[1] \in Nat /\ a[2] \in RowIds
    BY DEF SomeKeys
  <2>2. \A a, b \in SomeKeys : a[1] = b[1] /\ a[2] = b[2] => a = b
    BY DEF SomeKeys
  <2> QED
    BY <1>0, <2>1, <2>2
<1>2. /\ ~Smaller(k, k)
      /\ Smaller(k, l) => ~Smaller(l, k)
      /\ Smaller(k, l) /\ Smaller(l, m) => Smaller(k, m)
      /\ Smaller(m, l) /\ Smaller(l, k) => Smaller(m, k)
      /\ k # l => Smaller(k, l) \/ Smaller(l, k)
  BY <1>1 DEF Smaller
<1> QED
  BY <1>2 DEF Nearer, Ahead

LEMMA BeyondIsNearer ==
    ASSUME NEW k, NEW cursor
    PROVE  /\ cursor = NoValue => Beyond(k, cursor)
           /\ cursor # NoValue => (Beyond(k, cursor) <=> Nearer(cursor.key, k, cursor))
BY DEF Beyond, Nearer, Backwards

LEMMA KeysOfRows ==
    ASSUME ListTyped
    PROVE  /\ Matching \subseteq RowIds /\ IsFiniteSet(Matching)
           /\ \A r \in Matching : KeyOf(r) \in SomeKeys /\ KeyOf(r)[2] = r /\ KeyOf(r)[1] = table[r]
           /\ \A r \in Matching : table[r] \in Instants /\ table[r] \in Nat
<1>1. Matching \subseteq RowIds
  BY DEF Matching
<1>2. \A r \in Matching : table[r] \in Instants /\ table[r] \in Nat
  BY PagingAssumption DEF Matching, ListTyped
<1> QED
  BY <1>1, <1>2, FS_Subset, PagingAssumption DEF KeyOf, SomeKeys

\* A row's place among others is one of 1..n, and a nearer row has a smaller one.
LEMMA PlacesOfRows ==
    ASSUME ListTyped, NEW rows \in SUBSET Matching, NEW cursor
    PROVE  /\ Cardinality(rows) \in Nat
           /\ \A r \in rows : PlaceOf(r, rows, cursor) \in 1..Cardinality(rows)
           /\ \A r, s \in rows : Nearer(KeyOf(r), KeyOf(s), cursor) =>
                 PlaceOf(r, rows, cursor) < PlaceOf(s, rows, cursor)
           /\ \A r, s \in rows : PlaceOf(r, rows, cursor) = PlaceOf(s, rows, cursor) => r = s
<1> DEFINE Before(r) == {s \in rows : Nearer(KeyOf(s), KeyOf(r), cursor)}
<1>1. IsFiniteSet(rows) /\ Cardinality(rows) \in Nat
  BY KeysOfRows, FS_Subset, FS_CardinalityType
<1>2. \A r \in rows : KeyOf(r) \in SomeKeys /\ KeyOf(r)[2] = r
  BY KeysOfRows
<1>3. \A T \in SUBSET rows : IsFiniteSet(T) /\ Cardinality(T) \in Nat
  BY <1>1, FS_Subset, FS_CardinalityType
<1>4. ASSUME NEW r \in rows
      PROVE  Before(r) \cup {r} \subseteq rows /\ Cardinality(Before(r) \cup {r}) = Cardinality(Before(r)) + 1
  <2>1. r \notin Before(r)
    BY <1>2, NearerIsAnOrder
  <2>2. IsFiniteSet(Before(r))
    BY <1>3
  <2> HIDE DEF Before
  <2>3. Cardinality(Before(r) \cup {r}) = Cardinality(Before(r)) + 1
    BY <2>1, <2>2, FS_AddElement
  <2>4. Before(r) \subseteq rows
    BY DEF Before
  <2> QED
    BY <2>3, <2>4
<1>5. \A r \in rows : PlaceOf(r, rows, cursor) = Cardinality(Before(r)) + 1
  BY DEF PlaceOf
<1>6. ASSUME NEW r \in rows PROVE PlaceOf(r, rows, cursor) \in 1..Cardinality(rows)
  <2>1. Cardinality(Before(r)) \in Nat /\ Cardinality(Before(r) \cup {r}) <= Cardinality(rows)
    BY <1>1, <1>3, <1>4, FS_Subset
  <2> HIDE DEF Before
  <2> QED
    BY <1>1, <1>4, <1>5, <2>1
<1>7. ASSUME NEW r \in rows, NEW s \in rows, Nearer(KeyOf(r), KeyOf(s), cursor)
      PROVE  PlaceOf(r, rows, cursor) < PlaceOf(s, rows, cursor)
  <2>1. Before(r) \cup {r} \subseteq Before(s)
    BY <1>2, <1>7, NearerIsAnOrder
  <2>2. Before(s) \subseteq rows /\ IsFiniteSet(Before(s))
    BY <1>3
  <2>3. Cardinality(Before(r)) \in Nat /\ Cardinality(Before(s)) \in Nat
    BY <1>3
  <2> HIDE DEF Before
  <2>4. Cardinality(Before(r) \cup {r}) <= Cardinality(Before(s))
    BY <2>1, <2>2, FS_Subset
  <2> QED
    BY <1>4, <1>5, <2>3, <2>4
<1>8. ASSUME NEW r \in rows, NEW s \in rows, PlaceOf(r, rows, cursor) = PlaceOf(s, rows, cursor)
      PROVE  r = s
  <2>1. PlaceOf(r, rows, cursor) \in Int /\ PlaceOf(s, rows, cursor) \in Int
    BY <1>1, <1>6
  <2>2. KeyOf(r) = KeyOf(s)
    BY <1>2, <1>7, <1>8, <2>1, NearerIsAnOrder
  <2> QED
    BY <1>2, <2>2
<1> QED
  BY <1>1, <1>6, <1>7, <1>8

\* Every place is taken: the rows are put in order, each once.
LEMMA OrderedRows ==
    ASSUME ListTyped, NEW rows \in SUBSET Matching, NEW cursor
    PROVE  /\ Ordered(rows, cursor) \in [1..Cardinality(rows) -> rows]
           /\ Cardinality(rows) \in Nat
           /\ \A i, j \in 1..Cardinality(rows) :
                 i < j => Nearer(KeyOf(Ordered(rows, cursor)[i]), KeyOf(Ordered(rows, cursor)[j]), cursor)
           /\ \A r \in rows : \E i \in 1..Cardinality(rows) : Ordered(rows, cursor)[i] = r
<1> DEFINE n == Cardinality(rows)
           Place(r) == PlaceOf(r, rows, cursor)
           f == [r \in rows |-> Place(r)]
<1>0. n \in Nat
  BY PlacesOfRows
<1>1. n \in Nat /\ IsFiniteSet(1..n) /\ Cardinality(1..n) = n
  BY <1>0, FS_Interval
<1>2. f \in Injection(rows, 1..n)
  BY PlacesOfRows DEF Injection, IsInjective
<1>3. f \in Surjection(rows, 1..n)
  <2> HIDE DEF f, n
  <2> QED
    BY <1>1, <1>2, FS_Injection DEF n
<1>4. \A i \in 1..n : \E r \in rows : Place(r) = i
  BY <1>3 DEF Surjection
<1>5. \A i \in 1..n : Ordered(rows, cursor)[i] \in rows /\ Place(Ordered(rows, cursor)[i]) = i
  BY <1>4 DEF Ordered
<1>6. Ordered(rows, cursor) \in [1..n -> rows]
  BY <1>5 DEF Ordered
<1>7. ASSUME NEW i \in 1..n, NEW j \in 1..n, i < j
      PROVE  Nearer(KeyOf(Ordered(rows, cursor)[i]), KeyOf(Ordered(rows, cursor)[j]), cursor)
  <2> DEFINE r == Ordered(rows, cursor)[i]
             s == Ordered(rows, cursor)[j]
  <2>1. r \in rows /\ s \in rows /\ Place(r) = i /\ Place(s) = j
    BY <1>5
  <2>2. KeyOf(r) \in SomeKeys /\ KeyOf(s) \in SomeKeys
    BY <2>1, KeysOfRows
  <2> HIDE DEF r, s
  <2>3. r # s
    BY <1>1, <1>7, <2>1
  <2>4. KeyOf(r) # KeyOf(s)
    BY <2>1, <2>3, KeysOfRows
  <2>5. ~Nearer(KeyOf(s), KeyOf(r), cursor)
    BY <1>1, <1>7, <2>1, PlacesOfRows
  <2>6. Nearer(KeyOf(r), KeyOf(s), cursor)
    BY <2>2, <2>4, <2>5, NearerIsAnOrder
  <2> QED
    BY <2>6 DEF r, s
<1>8. ASSUME NEW r \in rows PROVE \E i \in 1..n : Ordered(rows, cursor)[i] = r
  <2>1. Place(r) \in 1..n
    BY PlacesOfRows
  <2>2. Ordered(rows, cursor)[Place(r)] = r
    BY <1>5, <2>1, PlacesOfRows
  <2> QED
    BY <2>1, <2>2
<1> QED
  BY <1>1, <1>6, <1>7, <1>8

\* There is one order: whatever lists the rows nearest first is it.
LEMMA OneOrder ==
    ASSUME ListTyped, NEW rows \in SUBSET Matching, NEW cursor, NEW n \in Nat,
           NEW s \in [1..n -> rows],
           \A i, j \in 1..n : i < j => Nearer(KeyOf(s[i]), KeyOf(s[j]), cursor),
           \A r \in rows : \E i \in 1..n : s[i] = r
    PROVE  Ordered(rows, cursor) = s /\ Cardinality(rows) = n
<1>1. \A i \in 1..n : KeyOf(s[i]) \in SomeKeys
  BY KeysOfRows
<1>2. \A i, j \in 1..n : s[i] = s[j] => i = j
  BY <1>1, NearerIsAnOrder
<1>3. Cardinality(rows) = n
  <2>1. s \in Bijection(1..n, rows)
    BY <1>2 DEF Bijection, Injection, Surjection, IsInjective
  <2> QED
    BY <2>1, FS_Bijection, FS_Interval DEF ExistsBijection
<1>4. ASSUME NEW i \in 1..n PROVE PlaceOf(s[i], rows, cursor) = i
  <2> DEFINE before == {r \in rows : Nearer(KeyOf(r), KeyOf(s[i]), cursor)}
             f == [j \in 1..(i - 1) |-> s[j]]
  <2>1. \A j \in 1..n : Nearer(KeyOf(s[j]), KeyOf(s[i]), cursor) <=> j < i
    BY <1>1, NearerIsAnOrder
  <2>2. f \in [1..(i - 1) -> before]
    BY <2>1
  <2>3. \A r \in before : \E j \in 1..(i - 1) : f[j] = r
    BY <2>1
  <2>4. f \in Bijection(1..(i - 1), before)
    BY <1>2, <2>2, <2>3 DEF Bijection, Injection, Surjection, IsInjective
  <2>5. IsFiniteSet(1..(i - 1)) /\ Cardinality(1..(i - 1)) = i - 1
    BY FS_Interval
  <2>6. Cardinality(before) = i - 1
    <3> HIDE DEF f, before
    <3> QED
      BY <2>4, <2>5, FS_Bijection DEF ExistsBijection
  <2> QED
    BY <2>6 DEF PlaceOf
<1>5. ASSUME NEW i \in 1..n PROVE Ordered(rows, cursor)[i] = s[i]
  <2>1. \A r \in rows : PlaceOf(r, rows, cursor) = i <=> r = s[i]
    BY <1>4
  <2> QED
    BY <1>3, <2>1 DEF Ordered
<1> QED
  BY <1>3, <1>5 DEF Ordered

(***************************************************************************)
(* The reads                                                               *)
(***************************************************************************)

LEMMA ListIsPaged ==
    ASSUME ListTyped, list # NoValue
    PROVE  /\ list \in PagedList /\ list.console \in BOOLEAN /\ list.instants \subseteq Instants
           /\ list.instants \subseteq Nat
<1>1. list \in PagedList
  BY PagingAssumption DEF ListTyped
<1> QED
  BY <1>1, PagingAssumption DEF PagedList

LEMMA NoValueIsNothing ==
    /\ NoValue \notin Instants /\ NoValue \notin Cursor /\ NoValue \notin RowCount
    /\ NoValue \notin Seq(ListedRow) /\ NoValue \notin Request /\ NoValue \notin Page
    /\ NoValue \notin PagedList /\ Limit \in Nat /\ Limit > 0
BY PagingAssumption

LEMMA FunctionIsSeq ==
    ASSUME NEW S, NEW n \in Nat, NEW f \in [1..n -> S]
    PROVE  f \in Seq(S) /\ Len(f) = n /\ DOMAIN f = 1..n
  OBVIOUS

RowsTaken(cursor) ==
    IF Cardinality(RowsBeyond(cursor)) <= Limit THEN Cardinality(RowsBeyond(cursor)) ELSE Limit + 1

\* What a read returns: the rows beyond the anchor in order, one more than a
\* page at most.
LEMMA FetchedRows ==
    ASSUME ListTyped, list # NoValue, NEW cursor, NEW s, s = Ordered(RowsBeyond(cursor), cursor)
    PROVE  /\ RowsTaken(cursor) \in 0..Cardinality(RowsBeyond(cursor))
           /\ Fetched(cursor) \in Seq(ListedRow) /\ Len(Fetched(cursor)) = RowsTaken(cursor)
           /\ \A i \in 1..RowsTaken(cursor) :
                 Fetched(cursor)[i] = [id |-> s[i], at |-> table[s[i]]]
<1> DEFINE rows == RowsBeyond(cursor)
           all == Cardinality(rows)
           n == RowsTaken(cursor)
           taken == IF Len(s) <= Limit THEN s ELSE SubSeq(s, 1, Limit + 1)
<1>1. rows \in SUBSET Matching
  BY DEF RowsBeyond
<1>2. all \in Nat /\ s \in [1..all -> rows]
  BY <1>1, OrderedRows
<1>3. n = IF all <= Limit THEN all ELSE Limit + 1
  BY DEF RowsTaken
<1>4. Fetched(cursor) = [i \in 1..Len(taken) |-> [id |-> taken[i], at |-> table[taken[i]]]]
  BY DEF Fetched
<1> HIDE DEF rows, all, n
<1>5. n \in 0..all
  BY <1>2, <1>3, NoValueIsNothing
<1>6. s \in Seq(rows) /\ Len(s) = all
  BY <1>2, FunctionIsSeq
<1>7. Len(taken) = n /\ \A i \in 1..n : taken[i] = s[i]
  <2>1. CASE all <= Limit
    BY <1>3, <1>5, <1>6, <2>1
  <2>2. CASE ~(all <= Limit)
    <3>1. n = Limit + 1 /\ Limit + 1 <= all
      BY <1>2, <1>3, <2>2, NoValueIsNothing
    <3>2. Len(SubSeq(s, 1, Limit + 1)) = Limit + 1
      BY <1>6, <3>1, NoValueIsNothing
    <3>3. \A i \in 1..n : SubSeq(s, 1, Limit + 1)[i] = s[i]
      BY <1>6, <3>1, NoValueIsNothing
    <3> QED
      BY <1>6, <2>2, <3>1, <3>2, <3>3
  <2> QED
    BY <2>1, <2>2
<1>8. \A i \in 1..n : s[i] \in RowIds /\ table[s[i]] \in Instants
  BY <1>1, <1>2, <1>5, KeysOfRows
<1> HIDE DEF taken
<1>9. Fetched(cursor) = [i \in 1..n |-> [id |-> s[i], at |-> table[s[i]]]]
  BY <1>4, <1>7
<1>10. Fetched(cursor) \in [1..n -> ListedRow]
  BY <1>8, <1>9 DEF ListedRow
<1>11. Fetched(cursor) \in Seq(ListedRow) /\ Len(Fetched(cursor)) = n
  BY <1>5, <1>10, FunctionIsSeq
<1> QED
  BY <1>5, <1>9, <1>11 DEF n, all, rows

\* The beginning of the rows beyond the anchor, in order, covers what the walk
\* owes there.
LEMMA BeginningCovers ==
    ASSUME ListTyped, WalkInv, NEW cursor,
           NEW all \in Nat, NEW s \in [1..all -> Matching],
           \A i \in 1..all : Beyond(KeyOf(s[i]), cursor),
           \A i, j \in 1..all : i < j => Nearer(KeyOf(s[i]), KeyOf(s[j]), cursor),
           \A r \in Matching : Beyond(KeyOf(r), cursor) => \E i \in 1..all : s[i] = r,
           NEW n \in 0..all, n <= Limit + 1, n < all => n = Limit + 1,
           NEW F \in Seq(ListedRow), Len(F) = n,
           \A i \in 1..n : F[i] = [id |-> s[i], at |-> table[s[i]]]
    PROVE  FetchCovers(F, cursor)
<1>1. DOMAIN F = 1..n /\ \A i \in 1..n : i \in 1..all
  OBVIOUS
<1>2. \A i \in 1..all : s[i] \in Matching /\ table[s[i]] \in list.instants
  BY DEF ListTyped
<1>3. walk.owed \subseteq Matching
  BY DEF WalkInv
<1>4. \A i \in 1..n : FetchedKey(F[i]) = KeyOf(s[i]) /\ F[i].id = s[i] /\ F[i].at = table[s[i]]
  BY DEF FetchedKey, KeyOf
<1>5. ASSUME NEW r \in walk.owed, Beyond(KeyOf(r), cursor)
      PROVE  \/ \E i \in DOMAIN F : F[i].id = r
             \/ Len(F) = Limit + 1 /\ Nearer(FetchedKey(F[Limit + 1]), KeyOf(r), cursor)
  <2>1. PICK i \in 1..all : s[i] = r
    BY <1>3, <1>5
  <2>2. CASE i <= n
    <3>1. i \in 1..n
      BY <2>2
    <3> QED
      BY <1>1, <1>4, <2>1, <3>1
  <2>3. CASE n < i
    <3>1. n = Limit + 1 /\ n \in 1..n /\ n \in 1..all
      BY <2>3, NoValueIsNothing
    <3>2. Nearer(KeyOf(s[n]), KeyOf(s[i]), cursor)
      BY <2>3, <3>1
    <3>3. FetchedKey(F[n]) = KeyOf(s[n])
      BY <1>4, <3>1
    <3> QED
      BY <2>1, <3>1, <3>2, <3>3
  <2> QED
    BY <2>2, <2>3
<1>6. /\ \A i \in DOMAIN F : F[i].at \in list.instants /\ Beyond(FetchedKey(F[i]), cursor)
      /\ \A i, j \in DOMAIN F : i < j => Nearer(FetchedKey(F[i]), FetchedKey(F[j]), cursor)
      /\ \A i \in DOMAIN F : F[i].id \in walk.owed => F[i].at = table[F[i].id]
  BY <1>1, <1>2, <1>4
<1> QED
  BY <1>5, <1>6 DEF FetchCovers

LEMMA FetchedCovers ==
    ASSUME ListTyped, WalkInv, list # NoValue, NEW cursor
    PROVE  FetchCovers(Fetched(cursor), cursor)
<1> DEFINE rows == RowsBeyond(cursor)
           all == Cardinality(rows)
           n == RowsTaken(cursor)
           s == Ordered(rows, cursor)
<1>1. /\ n \in 0..all
      /\ Fetched(cursor) \in Seq(ListedRow) /\ Len(Fetched(cursor)) = n
      /\ \A i \in 1..n : Fetched(cursor)[i] = [id |-> s[i], at |-> table[s[i]]]
  BY FetchedRows
<1>2. rows \in SUBSET Matching
  BY DEF RowsBeyond
<1>3. /\ all \in Nat /\ s \in [1..all -> rows]
      /\ \A i, j \in 1..all : i < j => Nearer(KeyOf(s[i]), KeyOf(s[j]), cursor)
      /\ \A r \in rows : \E i \in 1..all : s[i] = r
  BY <1>2, OrderedRows
<1>4. \A r \in Matching : r \in rows <=> Beyond(KeyOf(r), cursor)
  BY DEF RowsBeyond
<1>5. n = IF all <= Limit THEN all ELSE Limit + 1
  BY DEF RowsTaken
<1> HIDE DEF rows, all, n, s
<1>6. n <= Limit + 1 /\ (n < all => n = Limit + 1)
  BY <1>3, <1>5, NoValueIsNothing
<1>7. s \in [1..all -> Matching] /\ \A i \in 1..all : Beyond(KeyOf(s[i]), cursor)
  BY <1>2, <1>3, <1>4
<1>8. \A r \in Matching : Beyond(KeyOf(r), cursor) => \E i \in 1..all : s[i] = r
  BY <1>3, <1>4
<1> QED
  BY <1>1, <1>3, <1>6, <1>7, <1>8, BeginningCovers

(***************************************************************************)
(* The types of the steps                                                  *)
(***************************************************************************)

\* One key lies beyond another, as a list is read.
Further(k, l, direction) == IF direction = "after" THEN Ahead(l, k) ELSE Ahead(k, l)

LEMMA FurtherIsBeyond ==
    ASSUME NEW direction \in Directions, NEW key,
           NEW cursor, cursor = [direction |-> direction, key |-> key], cursor # NoValue
    PROVE  \A k : Beyond(k, cursor) <=> Further(k, key, direction)
BY DEF Beyond, Further, Backwards, Directions

\* A minted cursor is at its row, or at an earlier instant: what lies beyond
\* the row lies beyond the cursor when the list is read up, and what lies
\* beyond the cursor lies beyond the row when it is read down.
LEMMA MintedKey ==
    ASSUME ListTyped, list # NoValue, NEW r \in RowIds, NEW at \in list.instants,
           NEW direction \in Directions,
           NEW cursor, cursor = MintCursor(r, at, direction)
    PROVE  /\ cursor \in Cursor /\ cursor.direction = direction
           /\ KeepsKeys => cursor.key = <<at, r>>
           /\ \A k \in SomeKeys :
                 /\ KeepsKeys \/ ReadsUp(direction) =>
                       (Further(k, <<at, r>>, direction) => Beyond(k, cursor))
                 /\ KeepsKeys \/ ~ReadsUp(direction) =>
                       (Beyond(k, cursor) => Further(k, <<at, r>>, direction))
<1>1. at \in Nat /\ list.console \in BOOLEAN /\ PerMilli \in Nat /\ PerMilli > 0
  BY ListIsPaged, PagingAssumption
<1>2. Rendered(at) \in Nat /\ Rendered(at) <= at
  <2>1. at % PerMilli \in 0..at
    <3> DEFINE q == at \div PerMilli
               rest == at % PerMilli
    <3>1. q \in Int /\ rest \in 0..(PerMilli - 1) /\ at = PerMilli * q + rest
      BY <1>1
    <3>2. q >= 0
      BY <1>1
    <3> HIDE DEF q, rest
    <3>3. PerMilli * q >= 0
      BY <1>1, <3>1, <3>2
    <3> QED
      BY <1>1, <3>1, <3>3 DEF rest
  <2> QED
    BY <1>1, <2>1 DEF Rendered
<1>3. KeepsKeys => Rendered(at) = at
  BY <1>1 DEF KeepsKeys, Rendered
<1>4. /\ cursor = [direction |-> direction, key |-> <<Rendered(at), r>>]
      /\ cursor \in Cursor /\ cursor # NoValue
  BY <1>2, NoValueIsNothing DEF MintCursor, Cursor
<1>5. \A k : Beyond(k, cursor) <=> Further(k, <<Rendered(at), r>>, direction)
  BY <1>4, FurtherIsBeyond
<1>6. \A k \in SomeKeys : /\ Smaller(k, <<Rendered(at), r>>) => Smaller(k, <<at, r>>)
                          /\ Smaller(<<at, r>>, k) => Smaller(<<Rendered(at), r>>, k)
  <2>1. \A k \in SomeKeys : k[1] \in Nat /\ k[2] \in Nat
    BY PagingAssumption DEF SomeKeys
  <2> QED
    BY <1>1, <1>2, <2>1, PagingAssumption DEF Smaller
<1>7. direction = "after" \/ direction = "before"
  BY DEF Directions
<1>8. ASSUME NEW k \in SomeKeys
      PROVE  /\ ReadsUp(direction) =>
                   (Further(k, <<at, r>>, direction) => Further(k, <<Rendered(at), r>>, direction))
             /\ ~ReadsUp(direction) =>
                   (Further(k, <<Rendered(at), r>>, direction) => Further(k, <<at, r>>, direction))
  BY <1>6, <1>7 DEF ReadsUp, Further, Ahead
<1> QED
  BY <1>3, <1>4, <1>5, <1>8

LEMMA KeptKey ==
    ASSUME ListTyped, list # NoValue, KeepsKeys, NEW at \in list.instants, NEW r, NEW direction
    PROVE  MintCursor(r, at, direction) = [direction |-> direction, key |-> <<at, r>>]
<1>1. at \in Nat
  BY ListIsPaged
<1>2. Rendered(at) = at
  BY <1>1 DEF KeepsKeys, Rendered
<1> QED
  BY <1>2 DEF MintCursor

\* The controls of a page are cursors, minted at its ends.
LEMMA MintedControls ==
    ASSUME ListTyped, WalkInv, page # NoValue, NEW direction \in Directions,
           NEW cursor, cursor = (IF direction = "after" THEN page.next ELSE page.previous),
           cursor # NoValue
    PROVE  /\ page \in Page /\ list # NoValue
           /\ \E r \in RowIds, at \in list.instants :
                 /\ cursor = MintCursor(r, at, direction)
                 /\ Edge(direction) = [direction |-> direction, key |-> <<at, r>>]
<1>1. page \in Page /\ list # NoValue /\ Minted(page)
  BY DEF ListTyped, WalkInv
<1>2. page.rows \in Seq(ListedRow)
  BY <1>1 DEF Page
<1> DEFINE row == IF direction = "after" THEN Last(page.rows) ELSE Head(page.rows)
<1>3. page.rows # <<>> /\ cursor = MintCursor(row.id, row.at, direction)
  BY <1>1 DEF Minted, Directions
<1>4. PICK i \in DOMAIN page.rows : row = page.rows[i]
  <2>1. Last(page.rows) = page.rows[Len(page.rows)] /\ Head(page.rows) = page.rows[1]
    BY <1>2, <1>3 DEF Last
  <2>2. Len(page.rows) \in DOMAIN page.rows /\ 1 \in DOMAIN page.rows
    BY <1>2, <1>3
  <2> QED
    BY <2>1, <2>2
<1>5. row.id \in RowIds /\ row.at \in list.instants
  <2>1. page.rows[i] \in ListedRow
    BY <1>2, <1>4
  <2> QED
    BY <1>1, <1>4, <2>1 DEF Minted, ListedRow
<1>6. Edge(direction) = [direction |-> direction, key |-> <<row.at, row.id>>]
  BY DEF Edge
<1> QED
  BY <1>1, <1>3, <1>5, <1>6

LEMMA ListInitTyped ==
    ASSUME ListInit PROVE ListTyped
<1>1. list \in Lists
  BY DEF ListInit
<1>2. table \in [RowIds -> Instants \cup {NoValue}]
  <2>1. list # NoValue => list.instants \subseteq Instants
    BY <1>1, PagingAssumption DEF PagedList
  <2> QED
    BY <2>1 DEF ListInit
<1>3. \A r \in Matching : list # NoValue /\ table[r] \in list.instants
  BY DEF ListInit, Matching
<1>4. walk \in Walk
  BY DEF ListInit, StartWalk, Walk, Directions
<1> QED
  BY <1>1, <1>2, <1>3, <1>4 DEF ListInit, ListTyped

LEMMA ReadIsRequest ==
    ASSUME NEW cursor \in Cursor \cup {NoValue}
    PROVE  Read(cursor) \in Request
BY DEF Read, Request

LEMMA OpenListTyped ==
    ASSUME ListTyped, OpenList PROVE ListTyped'
<1>1. Read(NoValue) \in Request /\ list' = list /\ table' = table
  BY ReadIsRequest DEF OpenList
<1>2. walk' \in Walk
  BY KeysOfRows DEF OpenList, StartWalk, Walk, Directions
<1> QED
  BY <1>1, <1>2 DEF OpenList, ListTyped, Matching

LEMMA TurnPageTyped ==
    ASSUME ListTyped, NEW direction \in Directions, TurnPage(direction) PROVE ListTyped'
<1> DEFINE cursor == IF direction = "after" THEN page.next ELSE page.previous
<1>0. page \in Page
  BY DEF TurnPage, ListTyped
<1>1. cursor \in Cursor \cup {NoValue}
  BY <1>0 DEF Page
<1>2. request' = Read(cursor) /\ list' = list /\ table' = table /\ page' = page /\ writes' = writes
  BY DEF TurnPage
<1>3. walk' = walk \/ walk' = StartWalk(direction, RowsBeyond(Edge(direction)))
  BY DEF TurnPage
<1>4. RowsBeyond(Edge(direction)) \subseteq RowIds
  BY KeysOfRows DEF RowsBeyond
<1> HIDE DEF cursor
<1>5. walk' \in Walk
  BY <1>3, <1>4 DEF StartWalk, Walk, ListTyped
<1> QED
  BY <1>0, <1>1, <1>2, <1>5, ReadIsRequest, NoValueIsNothing DEF ListTyped, Matching

LEMMA CountRowsTyped ==
    ASSUME ListTyped, CountRows PROVE ListTyped' /\ request' # NoValue
<1> DEFINE ahead == {r \in Matching : Precedes(KeyOf(r), request.cursor)}
           preceding == IF request.cursor = NoValue THEN {} ELSE ahead
           count == [total |-> Cardinality(Matching), preceding |-> Cardinality(preceding)]
<1>1. Cardinality(Matching) \in Nat /\ Cardinality(preceding) \in Nat
  <2>1. preceding \subseteq Matching
    OBVIOUS
  <2> HIDE DEF preceding
  <2> QED
    BY <2>1, KeysOfRows, FS_Subset, FS_CardinalityType
<1>2. request' = [request EXCEPT !.count = count]
  BY DEF CountRows
<1> HIDE DEF preceding
<1>3. count \in RowCount
  BY <1>1 DEF RowCount
<1>4. request \in Request
  BY DEF CountRows, ListTyped
<1> HIDE DEF count
<1>5. request' \in Request
  BY <1>2, <1>3, <1>4 DEF Request
<1> QED
  BY <1>4, <1>5, NoValueIsNothing DEF CountRows, ListTyped, Matching

LEMMA FetchRowsTyped ==
    ASSUME ListTyped, FetchRows PROVE ListTyped' /\ request' # NoValue
<1>1. request \in Request /\ list # NoValue
  BY DEF FetchRows, ListTyped
<1>2. Fetched(request.cursor) \in Seq(ListedRow)
  BY <1>1, FetchedRows
<1>3. request' = [request EXCEPT !.fetched = Fetched(request.cursor)]
  BY DEF FetchRows
<1>4. request' \in Request
  BY <1>1, <1>2, <1>3 DEF Request
<1> QED
  BY <1>1, <1>4, NoValueIsNothing DEF FetchRows, ListTyped, Matching

LEMMA WriteRowTyped ==
    ASSUME ListTyped, NEW r \in RowIds, NEW at \in Instants \cup {NoValue},
           at \in list.instants \cup {NoValue}, WriteRow(r, at)
    PROVE  ListTyped'
<1>1. table' \in [RowIds -> Instants \cup {NoValue}]
  BY DEF WriteRow, ListTyped
<1>2. \A s \in Matching' : list # NoValue /\ table'[s] \in list.instants
  BY DEF WriteRow, ListTyped, Matching
<1>3. walk' \in Walk
  BY DEF WriteRow, ListTyped, Walk
<1> QED
  BY <1>1, <1>2, <1>3 DEF WriteRow, ListTyped

(***************************************************************************)
(* The page that is shown                                                  *)
(***************************************************************************)

PageLength(fetched) == IF Len(fetched) > Limit THEN Limit ELSE Len(fetched)

\* The rows of a page are those nearest the anchor, in the order of the list.
LEMMA TrimmedRows ==
    ASSUME NEW fetched \in Seq(ListedRow), NEW cursor
    PROVE  /\ PageLength(fetched) \in Nat /\ PageLength(fetched) <= Len(fetched)
           /\ PageLength(fetched) <= Limit
           /\ Trimmed(fetched, cursor) \in Seq(ListedRow)
           /\ Len(Trimmed(fetched, cursor)) = PageLength(fetched)
           /\ \A i \in 1..PageLength(fetched) :
                 Trimmed(fetched, cursor)[i] =
                    IF Backwards(cursor) THEN fetched[PageLength(fetched) + 1 - i] ELSE fetched[i]
<1> DEFINE n == PageLength(fetched)
           kept == IF Len(fetched) > Limit THEN SubSeq(fetched, 1, Limit) ELSE fetched
<1>1. n \in Nat /\ n <= Len(fetched) /\ n <= Limit
  BY NoValueIsNothing DEF PageLength
<1>2. kept \in Seq(ListedRow) /\ Len(kept) = n /\ \A i \in 1..n : kept[i] = fetched[i]
  <2>1. CASE Len(fetched) > Limit
    <3>1. n = Limit
      BY <2>1 DEF PageLength
    <3> QED
      BY <2>1, <3>1, NoValueIsNothing
  <2>2. CASE ~(Len(fetched) > Limit)
    BY <2>2 DEF PageLength
  <2> QED
    BY <2>1, <2>2
<1>3. Trimmed(fetched, cursor) = IF Backwards(cursor) THEN Reverse(kept) ELSE kept
  BY DEF Trimmed
<1> HIDE DEF kept, n
<1>4. CASE Backwards(cursor)
  <2>1. Reverse(kept) = [i \in 1..n |-> kept[(n - i) + 1]]
    BY <1>2 DEF Reverse
  <2>2. \A i \in 1..n : (n - i) + 1 \in 1..n /\ (n - i) + 1 = n + 1 - i
    BY <1>1
  <2>3. \A i \in 1..n : kept[i] \in ListedRow
    BY <1>2
  <2>4. Reverse(kept) \in [1..n -> ListedRow]
    BY <2>1, <2>2, <2>3
  <2>5. Reverse(kept) \in Seq(ListedRow) /\ Len(Reverse(kept)) = n
    BY <1>1, <2>4, FunctionIsSeq
  <2>6. \A i \in 1..n : Reverse(kept)[i] = fetched[n + 1 - i]
    BY <1>2, <2>1, <2>2
  <2> QED
    BY <1>1, <1>3, <1>4, <2>5, <2>6 DEF n
<1>5. CASE ~Backwards(cursor)
  BY <1>1, <1>2, <1>3, <1>5 DEF n
<1> QED
  BY <1>4, <1>5

\* What ShowPage does, by the rows that were fetched: the control in the
\* direction of the walk is minted from the row farthest from the anchor, and
\* is there when a row too many was fetched.
LEMMA ShownPage ==
    ASSUME ListTyped, WalkInv, ShowPage,
           NEW cursor, cursor = request.cursor,
           NEW fetched, fetched = request.fetched,
           NEW n, n = PageLength(fetched)
    PROVE  /\ list # NoValue /\ cursor \in Cursor \cup {NoValue} /\ fetched \in Seq(ListedRow)
           /\ n \in Nat /\ n <= Len(fetched) /\ (n < Len(fetched) => n = Limit)
           /\ page'.rows \in Seq(ListedRow) /\ Len(page'.rows) = n
           /\ page'.total = request.count.total
           /\ page'.preceding = PrecedingCount(request.count.preceding, Trimmed(fetched, cursor), cursor)
           /\ page'.rows = Trimmed(fetched, cursor)
           /\ page'.next # NoValue <=> n > 0 /\ (Backwards(cursor) \/ Len(fetched) > Limit)
           /\ page'.previous # NoValue <=>
                 n > 0 /\ IF Backwards(cursor) /\ ~list.console THEN Len(fetched) > Limit
                          ELSE page'.preceding > 0
           /\ LET row == fetched[IF Backwards(cursor) THEN 1 ELSE n]
              IN  page'.next # NoValue => page'.next = MintCursor(row.id, row.at, "after")
           /\ LET row == fetched[IF Backwards(cursor) THEN n ELSE 1]
              IN  page'.previous # NoValue => page'.previous = MintCursor(row.id, row.at, "before")
           /\ \A i \in 1..n : fetched[i].id \in RowIds /\ fetched[i].at \in list.instants
           /\ page' \in Page /\ Minted(page)'
<1> DEFINE rows == Trimmed(fetched, cursor)
           hasMore == Len(fetched) > Limit
           preceding == PrecedingCount(request.count.preceding, rows, cursor)
           next == IF HasNext(rows, hasMore, cursor)
                   THEN MintCursor(Last(rows).id, Last(rows).at, "after") ELSE NoValue
           previous == IF HasPrevious(rows, hasMore, preceding, cursor)
                       THEN MintCursor(Head(rows).id, Head(rows).at, "before") ELSE NoValue
<1>1. /\ request \in Request /\ list # NoValue /\ request.count # NoValue
      /\ fetched # NoValue /\ list' = list
  BY DEF ShowPage, ListTyped
<1>2. /\ cursor \in Cursor \cup {NoValue} /\ fetched \in Seq(ListedRow)
      /\ request.count.total \in Nat /\ request.count.preceding \in Nat
  BY <1>1 DEF Request, RowCount
<1>3. page' = [rows |-> rows, total |-> request.count.total, preceding |-> preceding,
               next |-> next, previous |-> previous]
  BY DEF ShowPage
<1>4. /\ n \in Nat /\ n <= Len(fetched) /\ (n < Len(fetched) => n = Limit) /\ (n = 0 <=> Len(fetched) = 0)
      /\ rows \in Seq(ListedRow) /\ Len(rows) = n
      /\ \A i \in 1..n : rows[i] = IF Backwards(cursor) THEN fetched[n + 1 - i] ELSE fetched[i]
  BY <1>2, TrimmedRows, NoValueIsNothing DEF PageLength
<1>5. FetchCovers(fetched, cursor)
  BY <1>1 DEF WalkInv, ShowPage
<1> HIDE DEF rows
<1>6. preceding \in Nat
  BY <1>2, <1>4 DEF PrecedingCount
<1> HIDE DEF preceding, hasMore
<1>7. rows # <<>> <=> n > 0
  BY <1>4
<1>8. \A i \in 1..n : fetched[i].id \in RowIds /\ fetched[i].at \in list.instants
  <2>1. \A i \in 1..n : i \in DOMAIN fetched /\ fetched[i] \in ListedRow
    BY <1>2, <1>4
  <2> QED
    BY <1>5, <2>1 DEF FetchCovers, ListedRow
<1>9. \A i \in DOMAIN rows : rows[i].id \in RowIds /\ rows[i].at \in list.instants
  <2>1. DOMAIN rows = 1..n /\ \A i \in 1..n : n + 1 - i \in 1..n
    BY <1>4
  <2> QED
    BY <1>4, <1>8, <2>1
<1>10. "after" \in Directions /\ "before" \in Directions
  BY DEF Directions
<1>11. n > 0 => /\ Last(rows) = fetched[IF Backwards(cursor) THEN 1 ELSE n]
                /\ Head(rows) = fetched[IF Backwards(cursor) THEN n ELSE 1]
                /\ 1 \in 1..n /\ n \in 1..n
  <2>1. n > 0 => Last(rows) = rows[n] /\ Head(rows) = rows[1] /\ 1 \in 1..n /\ n \in 1..n
                 /\ n + 1 - n = 1 /\ n + 1 - 1 = n
    BY <1>4 DEF Last
  <2> QED
    BY <1>4, <2>1
<1>21. \A r \in RowIds, at \in list.instants, direction \in Directions :
          MintCursor(r, at, direction) \in Cursor
  BY <1>1, MintedKey
<1>22. n > 0 => /\ Last(rows).id \in RowIds /\ Last(rows).at \in list.instants
                /\ Head(rows).id \in RowIds /\ Head(rows).at \in list.instants
  BY <1>8, <1>11
<1>12. /\ next # NoValue <=> HasNext(rows, hasMore, cursor)
       /\ next \in Cursor \cup {NoValue}
  <2>1. HasNext(rows, hasMore, cursor) => next \in Cursor
    BY <1>7, <1>10, <1>21, <1>22 DEF HasNext
  <2> QED
    BY <2>1, NoValueIsNothing
<1>13. /\ previous # NoValue <=> HasPrevious(rows, hasMore, preceding, cursor)
       /\ previous \in Cursor \cup {NoValue}
  <2>1. HasPrevious(rows, hasMore, preceding, cursor) => previous \in Cursor
    BY <1>7, <1>10, <1>21, <1>22 DEF HasPrevious
  <2> QED
    BY <2>1, NoValueIsNothing
<1>14. /\ next # NoValue => next = MintCursor(Last(rows).id, Last(rows).at, "after")
       /\ previous # NoValue => previous = MintCursor(Head(rows).id, Head(rows).at, "before")
  OBVIOUS
<1> HIDE DEF next, previous
<1>15. /\ HasNext(rows, hasMore, cursor) <=> n > 0 /\ (Backwards(cursor) \/ hasMore)
       /\ HasPrevious(rows, hasMore, preceding, cursor) <=>
             n > 0 /\ IF Backwards(cursor) /\ ~list.console THEN hasMore ELSE preceding > 0
  BY <1>7 DEF HasNext, HasPrevious
<1>16. page' \in Page
  BY <1>2, <1>3, <1>4, <1>6, <1>12, <1>13 DEF Page
<1>17. /\ page'.rows = rows /\ page'.total = request.count.total /\ page'.preceding = preceding
       /\ page'.next = next /\ page'.previous = previous
  BY <1>3
<1>18. \A r, at, direction : MintCursor(r, at, direction)' = MintCursor(r, at, direction)
  BY <1>1 DEF MintCursor, Rendered
<1>19. Minted(page)'
  BY <1>1, <1>7, <1>9, <1>12, <1>13, <1>14, <1>15, <1>17, <1>18 DEF Minted, MintCursor, Rendered
<1>20. /\ LET row == fetched[IF Backwards(cursor) THEN 1 ELSE n]
          IN  page'.next # NoValue => page'.next = MintCursor(row.id, row.at, "after")
       /\ LET row == fetched[IF Backwards(cursor) THEN n ELSE 1]
          IN  page'.previous # NoValue => page'.previous = MintCursor(row.id, row.at, "before")
  BY <1>11, <1>12, <1>13, <1>14, <1>15, <1>17
<1> QED
  BY <1>1, <1>2, <1>4, <1>8, <1>12, <1>13, <1>15, <1>16, <1>17, <1>19, <1>20 DEF preceding, rows, hasMore

LEMMA ShowPageTyped ==
    ASSUME ListTyped, WalkInv, ShowPage PROVE ListTyped'
<1>1. page' \in Page /\ list # NoValue
  BY ShownPage
<1>2. walk' \in Walk
  BY DEF ShowPage, ListTyped, Walk
<1> QED
  BY <1>1, <1>2 DEF ShowPage, ListTyped, Matching

(***************************************************************************)
(* The steps of a walk                                                     *)
(***************************************************************************)

LEMMA WalkInitially ==
    ASSUME ListInit PROVE WalkInv
BY DEF ListInit, WalkInv, StartWalk

\* A read that leaves the rows and the walk alone leaves what it covered.
LEMMA SameRowsSameWalk ==
    ASSUME UNCHANGED <<list, table, walk>>
    PROVE  /\ Matching' = Matching
           /\ (NoneTwice' <=> NoneTwice) /\ (NoneLost' <=> NoneLost)
           /\ \A shown : Minted(shown)' <=> Minted(shown)
           /\ \A cursor : Reached(cursor)' <=> Reached(cursor)
           /\ \A cursor, fetched : FetchCovers(fetched, cursor)' <=> FetchCovers(fetched, cursor)
<1>1. Matching' = Matching /\ (NoneTwice' <=> NoneTwice) /\ (NoneLost' <=> NoneLost)
  BY DEF Matching, NoneTwice, NoneLost, KeepsKeys, ReadsUp
<1>2. \A shown : Minted(shown)' <=> Minted(shown)
  BY DEF Minted, MintCursor, Rendered
<1>3. \A cursor : Reached(cursor)' <=> Reached(cursor)
  BY <1>1 DEF Reached, Beyond, KeyOf, Ahead, Backwards
<1>4. \A cursor, fetched : FetchCovers(fetched, cursor)' <=> FetchCovers(fetched, cursor)
  BY DEF FetchCovers, Beyond, Nearer, KeyOf, Ahead, Backwards
<1> QED
  BY <1>1, <1>2, <1>3, <1>4

LEMMA OpenListWalks ==
    ASSUME ListTyped, WalkInv, OpenList PROVE WalkInv'
<1>1. /\ request' = Read(NoValue) /\ page' = NoValue /\ walk' = StartWalk("after", Matching)
      /\ list' = list /\ table' = table /\ request' # NoValue
  BY ReadIsRequest, NoValueIsNothing DEF OpenList
<1>2. \A k : Beyond(k, NoValue)'
  <2>1. \A k : Beyond(k, NoValue)
    BY BeyondIsNearer
  <2>2. \A k : Beyond(k, NoValue)' <=> Beyond(k, NoValue)
    BY <1>1 DEF Beyond, Ahead, Backwards
  <2> QED
    BY <2>1, <2>2
<1>3. Reached(NoValue)'
  BY <1>1, <1>2 DEF Reached, StartWalk, Matching
<1>4. request'.cursor = NoValue /\ request'.fetched = NoValue
  BY <1>1 DEF Read
<1> QED
  BY <1>1, <1>3, <1>4 DEF WalkInv, StartWalk, Matching

LEMMA TurnPageWalks ==
    ASSUME ListTyped, WalkInv, NEW direction \in Directions, TurnPage(direction) PROVE WalkInv'
<1> DEFINE cursor == IF direction = "after" THEN page.next ELSE page.previous
<1>1. /\ request' = Read(cursor) /\ cursor # NoValue /\ page # NoValue /\ page' = page
      /\ list' = list /\ table' = table /\ request = NoValue
      /\ walk' = IF walk.direction = direction THEN walk
                 ELSE StartWalk(direction, RowsBeyond(Edge(direction)))
  BY DEF TurnPage
<1>2. PICK r \in RowIds, at \in list.instants :
         /\ cursor = MintCursor(r, at, direction)
         /\ Edge(direction) = [direction |-> direction, key |-> <<at, r>>]
  BY <1>1, MintedControls
<1>3. list # NoValue
  BY <1>1 DEF ListTyped
<1> HIDE DEF cursor
<1>4. /\ cursor \in Cursor /\ cursor.direction = direction
      /\ \A k \in SomeKeys : NoneLost' /\ walk'.direction = direction =>
            (Further(k, <<at, r>>, direction) => Beyond(k, cursor))
  <2>1. NoneLost' /\ walk'.direction = direction => KeepsKeys \/ ReadsUp(direction)
    BY <1>1 DEF NoneLost, KeepsKeys, ReadsUp
  <2> QED
    BY <1>2, <1>3, <2>1, MintedKey
<1>5. request' # NoValue /\ request'.cursor = cursor /\ request'.fetched = NoValue
  BY <1>1, <1>4, ReadIsRequest, NoValueIsNothing DEF Read
<1>6. CASE walk.direction = direction
  <2>1. Control = cursor
    BY <1>6 DEF Control, Directions, cursor
  <2>2. Reached(cursor) /\ walk' = walk
    BY <1>1, <1>6, <2>1 DEF WalkInv
  <2>3. Reached(request.cursor)'
    BY <1>1, <1>5, <2>2, SameRowsSameWalk
  <2> QED
    BY <1>1, <1>4, <1>5, <1>6, <2>2, <2>3, SameRowsSameWalk DEF WalkInv
<1>7. CASE walk.direction # direction
  <2>1. /\ walk'.direction = direction /\ walk'.owed = RowsBeyond(Edge(direction))
        /\ walk'.shown = {} /\ walk'.again = {}
    BY <1>1, <1>7 DEF StartWalk
  <2>2. /\ Matching' = Matching /\ \A k, c : Beyond(k, c)' <=> Beyond(k, c)
        /\ \A row : KeyOf(row)' = KeyOf(row)
    BY <1>1 DEF Matching, Beyond, KeyOf, Ahead, Backwards
  <2>3. Edge(direction) # NoValue /\ \A k : Beyond(k, Edge(direction)) <=> Further(k, <<at, r>>, direction)
    <3>1. Edge(direction) \in Cursor
      BY <1>2, <1>3, ListIsPaged DEF Cursor
    <3> QED
      BY <1>2, <3>1, NoValueIsNothing, FurtherIsBeyond
  <2>4. \A row \in RowsBeyond(Edge(direction)) : NoneLost' => Beyond(KeyOf(row), cursor)
    BY <1>4, <2>1, <2>3, KeysOfRows DEF RowsBeyond
  <2>5. Reached(request.cursor)'
    <3>1. \A row \in walk'.owed : NoneLost' => Beyond(KeyOf(row), request.cursor)'
      BY <1>5, <2>1, <2>2, <2>4
    <3> QED
      BY <2>1, <3>1 DEF Reached
  <2>6. walk'.owed \subseteq Matching'
    BY <2>1, <2>2 DEF RowsBeyond
  <2>7. Minted(page)'
    BY <1>1 DEF WalkInv, Minted, MintCursor, Rendered
  <2> QED
    BY <1>1, <1>4, <1>5, <2>1, <2>5, <2>6, <2>7 DEF WalkInv
<1> QED
  BY <1>6, <1>7

LEMMA CountRowsWalks ==
    ASSUME ListTyped, WalkInv, CountRows PROVE WalkInv'
<1>1. /\ request \in Request /\ page' = page /\ request # NoValue
      /\ UNCHANGED <<list, table, walk>>
  BY DEF CountRows, ListTyped
<1>2. /\ request' # NoValue /\ request'.cursor = request.cursor /\ request'.fetched = request.fetched
  BY <1>1, CountRowsTyped DEF CountRows, Request
<1>3. /\ Reached(request.cursor)
      /\ request.fetched # NoValue => FetchCovers(request.fetched, request.cursor)
  BY <1>1 DEF WalkInv
<1>4. /\ Reached(request.cursor)'
      /\ request'.fetched # NoValue => FetchCovers(request.fetched, request.cursor)'
  BY <1>1, <1>2, <1>3, SameRowsSameWalk
<1> QED
  BY <1>1, <1>2, <1>4, SameRowsSameWalk DEF WalkInv

LEMMA FetchRowsWalks ==
    ASSUME ListTyped, WalkInv, FetchRows PROVE WalkInv'
<1>1. /\ request \in Request /\ page' = page /\ request # NoValue /\ list # NoValue
      /\ UNCHANGED <<list, table, walk>>
  BY DEF FetchRows, ListTyped
<1>2. /\ request' # NoValue /\ request'.cursor = request.cursor
      /\ request'.fetched = Fetched(request.cursor)
  BY <1>1, FetchRowsTyped DEF FetchRows, Request
<1>3. Reached(request.cursor) /\ FetchCovers(Fetched(request.cursor), request.cursor)
  BY <1>1, FetchedCovers DEF WalkInv
<1>4. Reached(request.cursor)' /\ FetchCovers(request.fetched, request.cursor)'
  BY <1>1, <1>2, <1>3, SameRowsSameWalk
<1> QED
  BY <1>1, <1>2, <1>4, SameRowsSameWalk DEF WalkInv

LEMMA ShowPageWalks ==
    ASSUME ListTyped, WalkInv, ShowPage PROVE WalkInv'
<1> DEFINE cursor == request.cursor
           fetched == request.fetched
           n == PageLength(fetched)
           rows == Trimmed(fetched, cursor)
           due == IdsOf(rows) \cap walk.owed
           key(i) == FetchedKey(fetched[i])
           cut(i, direction) == MintCursor(fetched[i].id, fetched[i].at, direction)
<1>1. /\ list # NoValue /\ cursor \in Cursor \cup {NoValue} /\ fetched \in Seq(ListedRow)
      /\ n \in Nat /\ n <= Len(fetched) /\ (n < Len(fetched) => n = Limit)
      /\ rows \in Seq(ListedRow) /\ Len(rows) = n
      /\ page'.next # NoValue <=> n > 0 /\ (Backwards(cursor) \/ Len(fetched) > Limit)
      /\ page'.previous # NoValue <=>
            n > 0 /\ IF Backwards(cursor) /\ ~list.console THEN Len(fetched) > Limit
                     ELSE page'.preceding > 0
      /\ page'.next # NoValue => page'.next = cut(IF Backwards(cursor) THEN 1 ELSE n, "after")
      /\ page'.previous # NoValue => page'.previous = cut(IF Backwards(cursor) THEN n ELSE 1, "before")
      /\ page' \in Page /\ Minted(page)'
  BY ShownPage
<1>2. /\ request # NoValue /\ request.fetched # NoValue /\ UNCHANGED <<list, table>>
      /\ request' = NoValue
      /\ walk' = [walk EXCEPT !.shown = @ \cup due, !.again = @ \cup (due \cap walk.shown)]
  BY DEF ShowPage
<1>3. /\ FetchCovers(fetched, cursor) /\ Reached(cursor) /\ (NoneTwice => walk.again = {})
      /\ walk.owed \subseteq Matching /\ walk.shown \subseteq walk.owed
      /\ walk.direction = IF cursor = NoValue THEN "after" ELSE cursor.direction
  BY <1>2 DEF WalkInv
<1>4. IdsOf(rows) = {fetched[i].id : i \in 1..n}
  <2>1. \A i \in 1..n : rows[i] = IF Backwards(cursor) THEN fetched[n + 1 - i] ELSE fetched[i]
    BY <1>1, TrimmedRows
  <2> HIDE DEF rows, n, fetched, cursor
  <2>2. DOMAIN rows = 1..n /\ \A i \in 1..n : n + 1 - i \in 1..n /\ n + 1 - (n + 1 - i) = i
    BY <1>1
  <2> QED
    BY <2>1, <2>2 DEF IdsOf
<1>5. \A i \in 1..n : i \in DOMAIN fetched /\ fetched[i].id \in RowIds /\ fetched[i].at \in Nat
  <2>1. \A i \in 1..n : i \in DOMAIN fetched /\ fetched[i] \in ListedRow
    BY <1>1
  <2> QED
    BY <2>1, PagingAssumption DEF ListedRow
<1>6. /\ walk'.owed = walk.owed /\ walk'.direction = walk.direction
      /\ walk'.shown = walk.shown \cup due /\ walk'.again = walk.again \cup (due \cap walk.shown)
      /\ (NoneTwice' <=> NoneTwice) /\ (NoneLost' <=> NoneLost)
  BY <1>2 DEF ListTyped, Walk, NoneTwice, NoneLost, KeepsKeys, ReadsUp
<1>7. \A r \in walk.owed : KeyOf(r) \in SomeKeys /\ KeyOf(r) = <<table[r], r>>
  BY <1>3, KeysOfRows DEF KeyOf
<1>8. \A i \in DOMAIN fetched : key(i) \in SomeKeys
  <2>1. \A i \in DOMAIN fetched : fetched[i] \in ListedRow
    BY <1>1
  <2> QED
    BY <2>1, PagingAssumption DEF FetchedKey, SomeKeys, ListedRow
<1>9. \A i \in DOMAIN fetched : fetched[i].id \in walk.owed => key(i) = KeyOf(fetched[i].id)
  BY <1>3, <1>7 DEF FetchCovers, FetchedKey
<1>10. cursor # NoValue => cursor.key \in SomeKeys
  BY <1>1 DEF Cursor, SomeKeys
<1>0. n <= Limit
  BY <1>1, TrimmedRows
<1>23. n > 0 => \A direction \in Directions :
          /\ cut(n, direction) # NoValue /\ cut(n, direction).direction = direction
          /\ \A k \in SomeKeys :
                /\ KeepsKeys \/ ReadsUp(direction) =>
                      (Further(k, key(n), direction) => Beyond(k, cut(n, direction)))
                /\ KeepsKeys \/ ~ReadsUp(direction) =>
                      (Beyond(k, cut(n, direction)) => Further(k, key(n), direction))
  <2>1. \A i \in 1..n : fetched[i].id \in RowIds /\ fetched[i].at \in list.instants
    BY ShownPage
  <2>2. n > 0 => n \in 1..n
    BY <1>1
  <2> QED
    BY <1>1, <2>1, <2>2, MintedKey, NoValueIsNothing DEF FetchedKey
<1> HIDE DEF due, n, fetched, cursor, rows, key, cut
<1>11. \A r \in due : r \in walk.owed /\ Beyond(KeyOf(r), cursor) /\ \E i \in 1..n : fetched[i].id = r
  <2>1. \A r \in due : r \in walk.owed /\ \E i \in 1..n : fetched[i].id = r
    BY <1>4 DEF due
  <2>2. \A i \in DOMAIN fetched : Beyond(key(i), cursor)
    BY <1>3 DEF FetchCovers, key
  <2> QED
    BY <1>5, <1>9, <2>1, <2>2
<1>12. NoneTwice => due \cap walk.shown = {}
  BY <1>3, <1>11 DEF Reached
<1>13. \A i, j \in DOMAIN fetched : i < j => Nearer(key(i), key(j), cursor)
  BY <1>3 DEF FetchCovers, key
<1>14. \A r \in walk.owed : NoneLost /\ r \notin walk.shown =>
          \/ \E i \in DOMAIN fetched : fetched[i].id = r
          \/ Len(fetched) = Limit + 1 /\ Nearer(key(Limit + 1), KeyOf(r), cursor)
  BY <1>3 DEF FetchCovers, Reached, key
<1>15. DOMAIN fetched = 1..Len(fetched) /\ Len(fetched) \in Nat
  BY <1>1
\* Whatever the walk owes and has not shown is farther than the page's last row.
<1>16. ASSUME NoneLost, NEW r \in walk.owed, r \notin walk'.shown
       PROVE  n < Len(fetched) /\ Nearer(key(n), KeyOf(r), cursor)
  <2>1. r \notin walk.shown /\ ~ \E i \in 1..n : fetched[i].id = r
    BY <1>4, <1>6, <1>16 DEF due
  <2>2. CASE \E i \in DOMAIN fetched : fetched[i].id = r
    <3>1. PICK i \in DOMAIN fetched : fetched[i].id = r
      BY <2>2
    <3>2. n < i /\ n < Len(fetched)
      BY <1>1, <1>15, <2>1, <3>1
    <3>3. n \in DOMAIN fetched
      BY <1>1, <1>15, <3>2, NoValueIsNothing
    <3> QED
      BY <1>9, <1>13, <3>1, <3>2, <3>3
  <2>3. CASE Len(fetched) = Limit + 1 /\ Nearer(key(Limit + 1), KeyOf(r), cursor)
    <3>1. n < Limit + 1 /\ n = Limit /\ n \in DOMAIN fetched /\ Limit + 1 \in DOMAIN fetched
      BY <1>0, <1>1, <1>15, <2>3, NoValueIsNothing
    <3>2. Nearer(key(n), key(Limit + 1), cursor)
      BY <1>13, <3>1
    <3>3. Nearer(key(n), KeyOf(r), cursor)
      BY <1>7, <1>8, <2>3, <3>1, <3>2, NearerIsAnOrder
    <3> QED
      BY <1>15, <2>3, <3>1, <3>3
  <2> QED
    BY <1>14, <1>16, <2>1, <2>2, <2>3
\* What it has shown by now is not.
<1>17. ASSUME NoneTwice, NEW r \in walk.owed, r \in walk'.shown, n > 0
       PROVE  ~Nearer(key(n), KeyOf(r), cursor)
  <2>1. n \in DOMAIN fetched /\ key(n) \in SomeKeys /\ KeyOf(r) \in SomeKeys
    BY <1>1, <1>7, <1>8, <1>15, <1>17
  <2>2. CASE r \in walk.shown
    <3>1. ~Beyond(KeyOf(r), cursor)
      BY <1>3, <1>17, <2>2 DEF Reached
    <3>2. cursor # NoValue /\ ~Nearer(cursor.key, KeyOf(r), cursor)
      BY <3>1, BeyondIsNearer
    <3>3. Nearer(cursor.key, key(n), cursor)
      BY <1>3, <2>1, <3>2, BeyondIsNearer DEF FetchCovers, key
    <3> QED
      BY <1>10, <2>1, <3>2, <3>3, NearerIsAnOrder
  <2>3. CASE r \in due
    <3>1. PICK i \in 1..n : fetched[i].id = r
      BY <1>11, <2>3
    <3>2. key(i) = KeyOf(r) /\ i \in DOMAIN fetched
      BY <1>5, <1>9, <3>1
    <3>3. i = n \/ i < n
      BY <1>1
    <3>4. i = n \/ Nearer(key(i), key(n), cursor)
      BY <1>13, <2>1, <3>2, <3>3
    <3> QED
      BY <2>1, <3>2, <3>4, NearerIsAnOrder
  <2> QED
    BY <1>6, <1>17, <2>2, <2>3
<1>19. /\ Control' # NoValue => n > 0 /\ Control' = cut(n, walk.direction)
       /\ walk.direction = "before" <=> Backwards(cursor)
       /\ walk.direction \in Directions
       /\ Control' = NoValue /\ (walk.direction = "after" \/ ~list.console) => ~(n < Len(fetched))
  <2>1. CASE walk.direction = "after"
    <3>1. ~Backwards(cursor) /\ Control' = page'.next
      BY <1>3, <1>6, <2>1 DEF Backwards, Control
    <3> QED
      BY <1>1, <1>15, <2>1, <3>1, NoValueIsNothing DEF Directions
  <2>2. CASE walk.direction # "after"
    <3>1. Backwards(cursor) /\ Control' = page'.previous /\ walk.direction = "before"
      BY <1>1, <1>3, <1>6, <2>2 DEF Backwards, Control, Cursor, Directions
    <3> QED
      BY <1>1, <1>15, <2>2, <3>1, NoValueIsNothing DEF Directions
  <2> QED
    BY <2>1, <2>2
<1>20. ASSUME Control' # NoValue PROVE Reached(Control)'
  <2>1. n > 0 /\ Control' = cut(n, walk.direction)
    BY <1>19, <1>20
  <2>2. \A k : Beyond(k, Control)' <=> Beyond(k, cut(n, walk.direction))
    BY <1>2, <2>1 DEF Beyond, Backwards, Ahead
  <2>3. \A k : Further(k, key(n), walk.direction) <=> Nearer(key(n), k, cursor)
    BY <1>19 DEF Further, Nearer, Directions
  <2>4. \A r \in walk.owed : KeyOf(r)' = KeyOf(r)
    BY <1>2 DEF KeyOf
  <2>5. \A r \in walk.owed :
           /\ NoneLost /\ Nearer(key(n), KeyOf(r), cursor) => Beyond(KeyOf(r), Control)'
           /\ NoneTwice /\ Beyond(KeyOf(r), Control)' => Nearer(key(n), KeyOf(r), cursor)
    BY <1>7, <1>19, <1>23, <2>1, <2>2, <2>3, <2>4 DEF NoneLost, NoneTwice
  <2> QED
    BY <1>6, <1>16, <1>17, <2>1, <2>5 DEF Reached
<1>21. ASSUME Control' = NoValue, NoneLost, walk.direction = "after" \/ ~list.console
       PROVE  walk'.shown = walk'.owed
  BY <1>3, <1>6, <1>11, <1>16, <1>19, <1>21
<1>22. walk'.owed \subseteq Matching' /\ walk'.shown \subseteq walk'.owed
  BY <1>2, <1>3, <1>6, <1>11 DEF Matching
<1>24. NoneTwice => walk'.again = {}
  BY <1>3, <1>6, <1>12
<1> QED
  BY <1>1, <1>2, <1>6, <1>20, <1>21, <1>22, <1>24, NoValueIsNothing DEF WalkInv

LEMMA WriteRowWalks ==
    ASSUME ListTyped, WalkInv, NEW w \in RowIds, NEW at \in Instants \cup {NoValue}, WriteRow(w, at)
    PROVE  WalkInv'
<1>1. /\ UNCHANGED <<list, request, page>> /\ list # NoValue
      /\ walk'.owed = walk.owed \ {w} /\ walk'.shown = walk.shown \ {w}
      /\ walk'.again = walk.again \ {w} /\ walk'.direction = walk.direction
  BY DEF WriteRow, ListTyped, Walk
<1>2. \A r \in RowIds : r # w => table'[r] = table[r] /\ KeyOf(r)' = KeyOf(r)
  BY DEF WriteRow, ListTyped, KeyOf
<1>3. walk.owed \subseteq Matching /\ Matching \subseteq RowIds
  BY KeysOfRows DEF WalkInv
<1>4. walk'.owed \subseteq Matching'
  BY <1>1, <1>2, <1>3 DEF Matching
<1>5. \A k, l, cursor : /\ Beyond(k, cursor)' <=> Beyond(k, cursor)
                        /\ Nearer(k, l, cursor)' <=> Nearer(k, l, cursor)
  BY <1>1 DEF Beyond, Nearer, Ahead, Backwards, Smaller
<1>9. (NoneTwice' <=> NoneTwice) /\ (NoneLost' <=> NoneLost)
  BY <1>1 DEF NoneTwice, NoneLost, KeepsKeys, ReadsUp
<1>6. \A cursor : Reached(cursor) => Reached(cursor)'
  BY <1>1, <1>2, <1>3, <1>5, <1>9 DEF Reached
<1>7. \A fetched, cursor : FetchCovers(fetched, cursor) => FetchCovers(fetched, cursor)'
  <2> SUFFICES ASSUME NEW fetched, NEW cursor, FetchCovers(fetched, cursor)
               PROVE  FetchCovers(fetched, cursor)'
    OBVIOUS
  <2>1. \A r \in walk'.owed : r \in walk.owed /\ KeyOf(r)' = KeyOf(r) /\ table'[r] = table[r]
    BY <1>1, <1>2, <1>3
  <2>2. /\ \A i \in DOMAIN fetched :
              fetched[i].at \in list'.instants /\ Beyond(FetchedKey(fetched[i]), cursor)'
        /\ \A i, j \in DOMAIN fetched :
              i < j => Nearer(FetchedKey(fetched[i]), FetchedKey(fetched[j]), cursor)'
    BY <1>1, <1>5 DEF FetchCovers, FetchedKey
  <2>3. \A i \in DOMAIN fetched : fetched[i].id \in walk'.owed => fetched[i].at = table'[fetched[i].id]
    BY <2>1 DEF FetchCovers
  <2>4. \A r \in walk'.owed : Beyond(KeyOf(r), cursor)' =>
          \/ \E i \in DOMAIN fetched : fetched[i].id = r
          \/ /\ Len(fetched) = Limit + 1
             /\ Nearer(FetchedKey(fetched[Limit + 1]), KeyOf(r), cursor)'
    <3>1. \A r \in walk'.owed : Beyond(KeyOf(r), cursor)' => Beyond(KeyOf(r), cursor)
      BY <1>5, <2>1
    <3>2. \A r \in walk'.owed : \A k : Nearer(k, KeyOf(r), cursor) => Nearer(k, KeyOf(r), cursor)'
      BY <1>5, <2>1
    <3> QED
      BY <2>1, <3>1, <3>2 DEF FetchCovers, FetchedKey
  <2> QED
    BY <2>2, <2>3, <2>4 DEF FetchCovers, FetchedKey
<1>8. Control' = Control
  BY <1>1 DEF Control
<1>10. page # NoValue => Minted(page)'
  BY <1>1 DEF WalkInv, Minted, MintCursor, Rendered
<1> QED
  BY <1>1, <1>4, <1>6, <1>7, <1>8, <1>9, <1>10 DEF WalkInv

LEMMA UnchangedWalks ==
    ASSUME ListTyped, WalkInv, UNCHANGED listVars PROVE ListTyped' /\ WalkInv'
<1>1. UNCHANGED <<list, table, request, page, writes, walk>>
  BY DEF listVars
<1>2. ListTyped'
  BY <1>1 DEF ListTyped, Matching
<1>3. Control' = Control
  BY <1>1 DEF Control
<1> QED
  BY <1>1, <1>2, <1>3, SameRowsSameWalk DEF WalkInv

LEMMA EachStepWalks ==
    ASSUME ListTyped, WalkInv, [ListNext]_listVars PROVE ListTyped' /\ WalkInv'
<1>1. CASE OpenList
  BY <1>1, OpenListTyped, OpenListWalks
<1>2. ASSUME NEW direction \in Directions, TurnPage(direction) PROVE ListTyped' /\ WalkInv'
  BY <1>2, TurnPageTyped, TurnPageWalks
<1>3. CASE CountRows
  BY <1>3, CountRowsTyped, CountRowsWalks
<1>4. CASE FetchRows
  BY <1>4, FetchRowsTyped, FetchRowsWalks
<1>5. CASE ShowPage
  BY <1>5, ShowPageTyped, ShowPageWalks
<1>6. ASSUME NEW r \in RowIds, NEW at \in Instants \cup {NoValue},
             list # NoValue => at \in list.instants \cup {NoValue}, WriteRow(r, at)
      PROVE  ListTyped' /\ WalkInv'
  <2>1. at \in list.instants \cup {NoValue}
    BY <1>6 DEF WriteRow
  <2> QED
    BY <1>6, <2>1, WriteRowTyped, WriteRowWalks
<1>7. CASE UNCHANGED listVars
  BY <1>7, UnchangedWalks
<1> QED
  BY <1>1, <1>2, <1>3, <1>4, <1>5, <1>6, <1>7 DEF ListNext

\* Whoever turns the pages one way sees every row the walk owes exactly once,
\* whatever is written meanwhile to the others; with cursors that are cut to
\* the millisecond, at least once reading up, and at most once reading down.
THEOREM WalksShowEachRowOnce == ListSpec => []WalkShowsEachRowOnce
<1>1. ListInit => ListTyped /\ WalkInv
  BY ListInitTyped, WalkInitially
<1>2. ListTyped /\ WalkInv /\ [ListNext]_listVars => ListTyped' /\ WalkInv'
  BY EachStepWalks
<1>3. ListTyped /\ WalkInv => WalkShowsEachRowOnce
  <2>1. WalkInv /\ WalkEnded /\ NoneLost => walk.shown = walk.owed
    BY DEF WalkInv, WalkEnded, Control
  <2> QED
    BY <2>1 DEF WalkInv, WalkShowsEachRowOnce, NoneTwice, NoneLost
<1> QED
  BY <1>1, <1>2, <1>3, PTL DEF ListSpec

(***************************************************************************)
(* While nobody writes, the pages are stretches of the list                *)
(***************************************************************************)

Places == Cardinality(Matching)
Nth(i) == [id |-> InOrder[i], at |-> table[InOrder[i]]]

\* A number of rows that fills whole pages.
Whole(m) == m \in 0..Places /\ \E q \in Nat : m = q * Limit

\* A cursor has m rows on this side, whether its key is a row's or lies
\* between two.
Split(cursor, m) ==
    /\ \A j \in 1..Places :
          Beyond(KeyOf(InOrder[j]), cursor) <=> IF Backwards(cursor) THEN j <= m ELSE m < j
    /\ cursor # NoValue =>
          \A j \in 1..Places : Precedes(KeyOf(InOrder[j]), cursor) <=> j <= m

\* The key of the row behind which a page starts that m rows precede, or,
\* backward, before which one ends.
Anchored(cursor, m) ==
    IF cursor = NoValue THEN m = 0
    ELSE /\ 0 < m /\ m < Places
         /\ cursor.key = KeyOf(InOrder[IF cursor.direction = "after" THEN m ELSE m + 1])

\* What a read from there brings.
Brings(cursor, m) ==
    IF Backwards(cursor)
    THEN [i \in 1..(IF m <= Limit THEN m ELSE Limit + 1) |-> Nth(m + 1 - i)]
    ELSE [i \in 1..(IF Places - m <= Limit THEN Places - m ELSE Limit + 1) |-> Nth(m + i)]

RequestPlaced(read) ==
    \E m \in 0..Places :
        /\ Split(read.cursor, m)
        /\ KeepsKeys => Whole(m) /\ (read.cursor # NoValue => 0 < m /\ m < Places)
        /\ read.count # NoValue => read.count = [total |-> Places, preceding |-> m]
        /\ read.fetched # NoValue => read.fetched = Brings(read.cursor, m)

RowsOfPage(p) == IF p + Limit < Places THEN Limit ELSE Places - p

\* A page among the pages of whole limits.
Neighboured(shown) ==
    LET p == shown.preceding IN
    /\ Whole(p) /\ Len(shown.rows) = RowsOfPage(p)
    /\ shown.next # NoValue <=> p + Limit < Places
    /\ shown.previous # NoValue <=> p > 0
    /\ shown.next # NoValue => Anchored(shown.next, p + Limit)
    /\ shown.previous # NoValue => Anchored(shown.previous, p)

PagePlaced(shown) ==
    LET p == shown.preceding
        n == Len(shown.rows)
    IN
    /\ p \in 0..Places /\ p + n <= Places /\ shown.total = Places
    /\ shown.rows = [i \in 1..n |-> Nth(p + i)]
    /\ n > 0 => /\ p + n < Places => shown.next # NoValue
                /\ shown.previous # NoValue <=> p > 0
    /\ KeepsKeys => Neighboured(shown)

QuietInv ==
    writes = 0 =>
        /\ request # NoValue => RequestPlaced(request)
        /\ page # NoValue => PagePlaced(page)

\* The rows in the order of the list.
LEMMA RowsInOrder ==
    ASSUME ListTyped
    PROVE  /\ Places \in Nat /\ InOrder \in [1..Places -> Matching]
           /\ InOrder \in Seq(Matching) /\ Len(InOrder) = Places
           /\ \A r \in Matching : \E i \in 1..Places : InOrder[i] = r
           /\ \A i, j \in 1..Places :
                 Ahead(KeyOf(InOrder[i]), KeyOf(InOrder[j])) <=> i < j
           /\ \A i, j \in 1..Places : KeyOf(InOrder[i]) = KeyOf(InOrder[j]) => i = j
<1>1. ~Backwards(NoValue)
  BY DEF Backwards
<1>2. /\ Places \in Nat /\ InOrder \in [1..Places -> Matching]
      /\ \A i, j \in 1..Places : i < j => Nearer(KeyOf(InOrder[i]), KeyOf(InOrder[j]), NoValue)
      /\ \A r \in Matching : \E i \in 1..Places : InOrder[i] = r
  BY OrderedRows DEF Places, InOrder
<1>3. \A i \in 1..Places : KeyOf(InOrder[i]) \in SomeKeys
  BY <1>2, KeysOfRows
<1>4. \A i, j \in 1..Places : Nearer(KeyOf(InOrder[i]), KeyOf(InOrder[j]), NoValue) <=> i < j
  BY <1>2, <1>3, NearerIsAnOrder
<1>5. \A k, l : Nearer(k, l, NoValue) <=> Ahead(k, l)
  BY <1>1 DEF Nearer
<1>6. \A i, j \in 1..Places : KeyOf(InOrder[i]) = KeyOf(InOrder[j]) => i = j
  BY <1>2, <1>3, <1>4, NearerIsAnOrder
<1> QED
  BY <1>2, <1>4, <1>5, <1>6, FunctionIsSeq

\* Whatever precedes a row of a set of places that is closed downwards does
\* so too: the set is the first so many places.
LEMMA FirstPlaces ==
    ASSUME NEW n \in Nat, NEW places \in SUBSET (1..n),
           \A i, j \in 1..n : j \in places /\ i < j => i \in places
    PROVE  /\ Cardinality(places) \in 0..n
           /\ \A j \in 1..n : j \in places <=> j <= Cardinality(places)
<1>1. \A k \in 0..n : IsFiniteSet(1..k) /\ Cardinality(1..k) = k
  BY FS_Interval
<1>2. /\ IsFiniteSet(places) /\ Cardinality(places) \in Nat /\ Cardinality(places) <= n
  <2>1. IsFiniteSet(1..n) /\ Cardinality(1..n) = n
    BY <1>1
  <2> QED
    BY <2>1, FS_Subset, FS_CardinalityType
<1>3. ASSUME NEW j \in 1..n, j \in places PROVE j <= Cardinality(places)
  <2>1. 1..j \subseteq places
    BY <1>3
  <2>2. Cardinality(1..j) <= Cardinality(places)
    BY <1>2, <2>1, FS_Subset
  <2> QED
    BY <1>1, <2>2
<1>4. ASSUME NEW j \in 1..n, j \notin places PROVE ~(j <= Cardinality(places))
  <2>1. places \subseteq 1..(j - 1) /\ j - 1 \in 0..n
    BY <1>4
  <2>2. IsFiniteSet(1..(j - 1)) /\ Cardinality(1..(j - 1)) = j - 1
    BY <1>1, <2>1
  <2>3. Cardinality(places) <= Cardinality(1..(j - 1))
    BY <2>1, <2>2, FS_Subset
  <2> QED
    BY <1>2, <2>2, <2>3
<1> QED
  BY <1>2, <1>3, <1>4

\* Every cursor splits the list somewhere.
LEMMA EveryCursorSplits ==
    ASSUME ListTyped, NEW cursor \in Cursor \cup {NoValue}
    PROVE  \E m \in 0..Places : Split(cursor, m)
<1>0. Places \in Nat
  BY RowsInOrder
<1>1. CASE cursor = NoValue
  <2>1. Split(cursor, 0)
    BY <1>1, BeyondIsNearer DEF Backwards, Split
  <2> QED
    BY <1>0, <2>1
<1>2. CASE cursor # NoValue
  <2> DEFINE key(j) == KeyOf(InOrder[j])
             front == {j \in 1..Places : Precedes(key(j), cursor)}
  <2>1. cursor.key \in SomeKeys /\ \A j \in 1..Places : key(j) \in SomeKeys
    BY <1>2, RowsInOrder, KeysOfRows DEF Cursor, SomeKeys
  <2>2. \A i, j \in 1..Places : i < j <=> Ahead(key(i), key(j))
    BY RowsInOrder
  <2> HIDE DEF key
  <2>3. \A k, l : Nearer(k, l, NoValue) <=> Ahead(k, l)
    BY DEF Nearer, Backwards
  <2>4. \A i, j \in 1..Places : j \in front /\ i < j => i \in front
    BY <2>1, <2>2, <2>3, NearerIsAnOrder DEF Precedes
  <2>5. \A j \in 1..Places : Beyond(key(j), cursor) <=>
           IF Backwards(cursor) THEN j \in front ELSE j \notin front
    BY <1>2, <2>1, <2>3, NearerIsAnOrder DEF Beyond, Precedes
  <2>6. \A j \in 1..Places : j \in front <=> Precedes(key(j), cursor)
    OBVIOUS
  <2>7. front \in SUBSET (1..Places)
    OBVIOUS
  <2> HIDE DEF front
  <2>8. PICK m \in 0..Places : \A j \in 1..Places : j \in front <=> j <= m
    BY <1>0, <2>4, <2>7, FirstPlaces
  <2>9. Split(cursor, m)
    BY <1>0, <2>5, <2>6, <2>8 DEF Split, key
  <2> QED
    BY <2>9
<1> QED
  BY <1>1, <1>2

\* A row's key splits the list at the row.
LEMMA BeyondTheAnchor ==
    ASSUME ListTyped, NEW cursor \in Cursor \cup {NoValue}, NEW m \in 0..Places, Anchored(cursor, m)
    PROVE  Split(cursor, m)
<1>0. Places \in Nat
  BY RowsInOrder
<1>1. CASE cursor = NoValue
  <2>1. m = 0
    BY <1>1 DEF Anchored
  <2> QED
    BY <1>1, <2>1, BeyondIsNearer DEF Backwards, Split
<1>2. CASE cursor # NoValue /\ Backwards(cursor)
  <2>1. m + 1 \in 1..Places /\ cursor.key = KeyOf(InOrder[m + 1])
    BY <1>0, <1>2, NoValueIsNothing DEF Anchored, Backwards
  <2>2. \A j \in 1..Places : Ahead(KeyOf(InOrder[j]), cursor.key) <=> j <= m
    BY <1>0, <2>1, RowsInOrder
  <2> QED
    BY <1>2, <2>2 DEF Beyond, Precedes, Split
<1>3. CASE cursor # NoValue /\ ~Backwards(cursor)
  <2>1. m \in 1..Places /\ cursor.key = KeyOf(InOrder[m])
    BY <1>0, <1>3 DEF Anchored, Backwards, Cursor, Directions
  <2>2. \A j \in 1..Places : /\ Ahead(KeyOf(InOrder[j]), cursor.key) <=> j < m
                             /\ Ahead(cursor.key, KeyOf(InOrder[j])) <=> m < j
                             /\ KeyOf(InOrder[j]) = cursor.key <=> j = m
    BY <1>0, <2>1, RowsInOrder
  <2> QED
    BY <1>3, <2>1, <2>2 DEF Beyond, Precedes, Split
<1> QED
  BY <1>1, <1>2, <1>3

\* The count in front of a cursor is its place.
LEMMA CountOfPlaces ==
    ASSUME ListTyped, NEW cursor \in Cursor, NEW m \in 0..Places, Split(cursor, m)
    PROVE  Cardinality({r \in Matching : Precedes(KeyOf(r), cursor)}) = m
<1> DEFINE ahead == {r \in Matching : Precedes(KeyOf(r), cursor)}
           f == [i \in 1..m |-> InOrder[i]]
<1>0. cursor # NoValue /\ Places \in Nat
  BY NoValueIsNothing, RowsInOrder
<1>1. \A j \in 1..Places : InOrder[j] \in Matching /\ (InOrder[j] \in ahead <=> j <= m)
  BY <1>0, RowsInOrder DEF Split
<1>2. \A i \in 1..m : i \in 1..Places
  BY <1>0
<1>3. f \in [1..m -> ahead] /\ \A i, j \in 1..m : f[i] = f[j] => i = j
  BY <1>1, <1>2, RowsInOrder
<1>4. \A r \in ahead : \E i \in 1..m : f[i] = r
  BY <1>0, <1>1, RowsInOrder
<1>5. f \in Bijection(1..m, ahead)
  BY <1>3, <1>4 DEF Bijection, Injection, Surjection, IsInjective
<1>6. IsFiniteSet(1..m) /\ Cardinality(1..m) = m
  BY FS_Interval
<1> HIDE DEF f, ahead
<1>7. Cardinality(ahead) = m
  BY <1>5, <1>6, FS_Bijection DEF ExistsBijection
<1> QED
  BY <1>7 DEF ahead

LEMMA SeqByItsRows ==
    ASSUME NEW S, NEW s \in Seq(S), NEW n \in Nat, Len(s) = n, NEW T, NEW t \in [1..n -> T],
           \A i \in 1..n : s[i] = t[i]
    PROVE  s = t
OBVIOUS

\* A read brings the rows next to the cursor's place.
LEMMA FetchBrings ==
    ASSUME ListTyped, list # NoValue, NEW cursor \in Cursor \cup {NoValue}, NEW m \in 0..Places,
           Split(cursor, m)
    PROVE  Fetched(cursor) = Brings(cursor, m)
<1> DEFINE rows == RowsBeyond(cursor)
           all == IF Backwards(cursor) THEN m ELSE Places - m
           at(i) == IF Backwards(cursor) THEN m + 1 - i ELSE m + i
           s == [i \in 1..all |-> InOrder[at(i)]]
           n == IF all <= Limit THEN all ELSE Limit + 1
<1>0. Places \in Nat /\ all \in Nat /\ n \in 0..all
  BY RowsInOrder, NoValueIsNothing
<1>1. \A i \in 1..all : at(i) \in 1..Places /\ (IF Backwards(cursor) THEN at(i) <= m ELSE m < at(i))
  BY <1>0
<1>2. \A j \in 1..Places : (IF Backwards(cursor) THEN j <= m ELSE m < j) =>
          \E i \in 1..all : at(i) = j
  <2>1. ASSUME NEW j \in 1..Places, Backwards(cursor), j <= m PROVE \E i \in 1..all : at(i) = j
    <3>1. m + 1 - j \in 1..all /\ at(m + 1 - j) = j
      BY <1>0, <2>1
    <3> QED
      BY <3>1
  <2>2. ASSUME NEW j \in 1..Places, ~Backwards(cursor), m < j PROVE \E i \in 1..all : at(i) = j
    <3>1. j - m \in 1..all /\ at(j - m) = j
      BY <1>0, <2>2
    <3> QED
      BY <3>1
  <2> QED
    BY <2>1, <2>2
<1>3. \A j \in 1..Places : /\ InOrder[j] \in Matching
                           /\ InOrder[j] \in rows <=> IF Backwards(cursor) THEN j <= m ELSE m < j
  BY RowsInOrder DEF RowsBeyond, Split
<1>4. rows \in SUBSET Matching
  BY DEF RowsBeyond
<1>5. \A i, j \in 1..all : i < j =>
          IF Backwards(cursor) THEN at(j) < at(i) ELSE at(i) < at(j)
  BY <1>0
<1>6. \A k, l : Nearer(k, l, cursor) <=> IF Backwards(cursor) THEN Ahead(l, k) ELSE Ahead(k, l)
  BY DEF Nearer
<1> HIDE DEF at, all, rows
<1>7. s \in [1..all -> rows]
  BY <1>1, <1>3
<1>8. \A i, j \in 1..all : i < j => Nearer(KeyOf(s[i]), KeyOf(s[j]), cursor)
  BY <1>1, <1>5, <1>6, RowsInOrder
<1>9. \A r \in rows : \E i \in 1..all : s[i] = r
  BY <1>2, <1>3, <1>4, RowsInOrder
<1> HIDE DEF s
<1>10. Ordered(rows, cursor) = s /\ Cardinality(rows) = all
  BY <1>0, <1>4, <1>7, <1>8, <1>9, OneOrder
<1>11. /\ Fetched(cursor) \in Seq(ListedRow) /\ Len(Fetched(cursor)) = RowsTaken(cursor)
       /\ \A i \in 1..RowsTaken(cursor) :
             Fetched(cursor)[i] = [id |-> Ordered(rows, cursor)[i], at |-> table[Ordered(rows, cursor)[i]]]
  BY FetchedRows DEF rows
<1>12. RowsTaken(cursor) = n
  BY <1>10 DEF RowsTaken, rows
<1>13. \A i \in 1..n : s[i] = InOrder[at(i)]
  BY <1>0 DEF s
<1>14. \A i \in 1..n : Fetched(cursor)[i] = Nth(at(i))
  BY <1>10, <1>11, <1>12, <1>13 DEF Nth
<1>15. Brings(cursor, m) = [i \in 1..n |-> Nth(at(i))]
  <2>1. CASE Backwards(cursor)
    BY <2>1 DEF Brings, at, all
  <2>2. CASE ~Backwards(cursor)
    BY <2>2 DEF Brings, at, all
  <2> QED
    BY <2>1, <2>2
<1> HIDE DEF n
<1>16. Brings(cursor, m) \in [1..n -> {Nth(at(i)) : i \in 1..n}]
  BY <1>15
<1>17. \A i \in 1..n : Fetched(cursor)[i] = Brings(cursor, m)[i]
  BY <1>14, <1>15
<1>18. n \in Nat /\ Len(Fetched(cursor)) = n
  BY <1>0, <1>11, <1>12
<1> QED
  BY <1>11, <1>16, <1>17, <1>18, SeqByItsRows

\* The places, and with them what is said of them, hang on the rows alone.
LEMMA SameRowsSamePlaces ==
    ASSUME UNCHANGED <<list, table>>
    PROVE  /\ Places' = Places
           /\ \A read : RequestPlaced(read)' <=> RequestPlaced(read)
           /\ \A shown : PagePlaced(shown)' <=> PagePlaced(shown)
<1>1. Matching' = Matching /\ Places' = Places
  BY DEF Matching, Places
<1>2. \A r : KeyOf(r)' = KeyOf(r)
  BY DEF KeyOf
<1>3. \A k, l, cursor : Nearer(k, l, cursor)' <=> Nearer(k, l, cursor)
  BY DEF Nearer, Ahead, Backwards
<1>4. \A r, rows, cursor : PlaceOf(r, rows, cursor)' = PlaceOf(r, rows, cursor)
  <2> SUFFICES ASSUME NEW r, NEW rows, NEW cursor
               PROVE  PlaceOf(r, rows, cursor)' = PlaceOf(r, rows, cursor)
    OBVIOUS
  <2>1. {s \in rows : Nearer(KeyOf(s), KeyOf(r), cursor)'} = {s \in rows : Nearer(KeyOf(s), KeyOf(r), cursor)}
    BY <1>2, <1>3
  <2> QED
    BY <2>1 DEF PlaceOf
<1>5. InOrder' = InOrder
  BY <1>1, <1>4 DEF InOrder, Ordered
<1>6. \A i : Nth(i)' = Nth(i)
  BY <1>5 DEF Nth
<1>7. \A cursor, m : Anchored(cursor, m)' <=> Anchored(cursor, m)
  BY <1>1, <1>2, <1>5 DEF Anchored
<1>8. \A cursor, m : Brings(cursor, m)' = Brings(cursor, m)
  BY <1>1, <1>6 DEF Brings, Backwards
<1>9. /\ \A m : Whole(m)' <=> Whole(m)
      /\ KeepsKeys' <=> KeepsKeys
  BY <1>1 DEF Whole, KeepsKeys
<1>12. \A cursor, m : Split(cursor, m)' <=> Split(cursor, m)
  <2>1. \A k, cursor : /\ Beyond(k, cursor)' <=> Beyond(k, cursor)
                       /\ Precedes(k, cursor)' <=> Precedes(k, cursor)
    BY DEF Beyond, Precedes, Ahead, Backwards
  <2> QED
    BY <1>1, <1>2, <1>5, <2>1 DEF Split, Backwards
<1>10. \A read : RequestPlaced(read)' <=> RequestPlaced(read)
  BY <1>1, <1>8, <1>9, <1>12 DEF RequestPlaced
<1>13. \A shown : Neighboured(shown)' <=> Neighboured(shown)
  BY <1>1, <1>7, <1>9 DEF Neighboured, RowsOfPage
<1>11. \A shown : PagePlaced(shown)' <=> PagePlaced(shown)
  BY <1>1, <1>6, <1>9, <1>13 DEF PagePlaced
<1> QED
  BY <1>1, <1>10, <1>11

LEMMA OpenListPlaced ==
    ASSUME ListTyped, OpenList PROVE QuietInv'
<1>1. UNCHANGED <<list, table>> /\ request' = Read(NoValue) /\ page' = NoValue
  BY DEF OpenList
<1>2. 0 \in 0..Places /\ Whole(0)
  <2>1. 0 = 0 * Limit /\ Places \in Nat
    BY RowsInOrder, NoValueIsNothing
  <2> QED
    BY <2>1 DEF Whole
<1>3. Split(NoValue, 0)
  BY <1>2, NoValueIsNothing, BeyondTheAnchor DEF Anchored
<1>4. RequestPlaced(Read(NoValue))
  BY <1>2, <1>3 DEF RequestPlaced, Read
<1> QED
  BY <1>1, <1>4, SameRowsSamePlaces DEF QuietInv

LEMMA TurnPagePlaced ==
    ASSUME ListTyped, WalkInv, QuietInv, NEW direction \in Directions, TurnPage(direction)
    PROVE  QuietInv'
<1> DEFINE cursor == IF direction = "after" THEN page.next ELSE page.previous
<1>1. /\ UNCHANGED <<list, table, page, writes>> /\ request' = Read(cursor)
      /\ page # NoValue /\ cursor # NoValue /\ page \in Page
  BY DEF TurnPage, ListTyped
<1>2. cursor \in Cursor /\ cursor.direction = direction
  BY <1>1, MintedControls, MintedKey
<1>3. ASSUME writes = 0 PROVE PagePlaced(page) /\ RequestPlaced(Read(cursor))
  <2> DEFINE p == page.preceding
  <2>1. PagePlaced(page)
    BY <1>1, <1>3 DEF QuietInv
  <2>2. ASSUME KeepsKeys
        PROVE  \E m \in 0..Places : Whole(m) /\ Anchored(cursor, m)
    <3>1. Neighboured(page)
      BY <2>1, <2>2 DEF PagePlaced
    <3>2. PICK q \in Nat : p = q * Limit
      BY <3>1 DEF Neighboured, Whole
    <3>3. Places \in Nat /\ p \in 0..Places
      BY <3>1, RowsInOrder DEF Neighboured, Whole
    <3>4. CASE direction = "after"
      <4>1. p + Limit < Places /\ Anchored(cursor, p + Limit)
        BY <1>1, <3>1, <3>4 DEF Neighboured
      <4>2. p + Limit \in 0..Places /\ p + Limit = (q + 1) * Limit /\ q + 1 \in Nat
        BY <3>2, <3>3, <4>1, NoValueIsNothing
      <4> QED
        BY <4>1, <4>2 DEF Whole
    <3>5. CASE direction # "after"
      BY <1>1, <3>1, <3>3, <3>5 DEF Neighboured
    <3> QED
      BY <3>4, <3>5
  <2> HIDE DEF cursor
  <2>3. PICK m \in 0..Places :
           Split(cursor, m) /\ (KeepsKeys => Whole(m) /\ 0 < m /\ m < Places)
    <3>1. CASE KeepsKeys
      <4>1. PICK m \in 0..Places : Whole(m) /\ Anchored(cursor, m)
        BY <2>2, <3>1
      <4> QED
        BY <1>1, <1>2, <4>1, BeyondTheAnchor DEF Anchored
    <3>2. CASE ~KeepsKeys
      BY <1>2, <3>2, EveryCursorSplits
    <3> QED
      BY <3>1, <3>2
  <2> QED
    BY <2>1, <2>3 DEF RequestPlaced, Read
<1> HIDE DEF cursor
<1> QED
  BY <1>1, <1>3, SameRowsSamePlaces DEF QuietInv

LEMMA CountRowsPlaced ==
    ASSUME ListTyped, QuietInv, CountRows PROVE QuietInv'
<1>1. /\ UNCHANGED <<list, table, page, writes>> /\ request # NoValue /\ request \in Request
  BY DEF CountRows, ListTyped
<1>2. ASSUME writes = 0 PROVE RequestPlaced(request')
  <2>1. PICK m \in 0..Places :
           /\ Split(request.cursor, m)
           /\ KeepsKeys => Whole(m) /\ (request.cursor # NoValue => 0 < m /\ m < Places)
           /\ request.fetched # NoValue => request.fetched = Brings(request.cursor, m)
    BY <1>1, <1>2 DEF QuietInv, RequestPlaced
  <2>2. PICK ahead : /\ ahead = IF request.cursor = NoValue THEN {}
                               ELSE {r \in Matching : Precedes(KeyOf(r), request.cursor)}
                     /\ request' = [request EXCEPT !.count =
                          [total |-> Cardinality(Matching), preceding |-> Cardinality(ahead)]]
    BY DEF CountRows
  <2>3. Cardinality(ahead) = m
    <3>1. CASE request.cursor = NoValue
      <4>1. \A j \in 1..Places : m < j
        BY <2>1, <3>1, BeyondIsNearer DEF Split, Backwards
      <4>2. m = 0
        BY <4>1, RowsInOrder
      <4> QED
        BY <2>2, <3>1, <4>2, FS_EmptySet
    <3>2. CASE request.cursor # NoValue
      <4>1. request.cursor \in Cursor
        BY <1>1, <3>2 DEF Request
      <4> QED
        BY <2>1, <2>2, <3>2, <4>1, CountOfPlaces
    <3> QED
      BY <3>1, <3>2
  <2>4. /\ request'.cursor = request.cursor /\ request'.fetched = request.fetched
        /\ request'.count = [total |-> Places, preceding |-> m]
    BY <1>1, <2>2, <2>3 DEF Request, Places
  <2> QED
    BY <2>1, <2>4 DEF RequestPlaced
<1> QED
  BY <1>1, <1>2, SameRowsSamePlaces DEF QuietInv

LEMMA FetchRowsPlaced ==
    ASSUME ListTyped, QuietInv, FetchRows PROVE QuietInv'
<1>1. /\ UNCHANGED <<list, table, page, writes>> /\ request # NoValue /\ request \in Request
      /\ list # NoValue
      /\ request' = [request EXCEPT !.fetched = Fetched(request.cursor)]
  BY DEF FetchRows, ListTyped
<1>2. ASSUME writes = 0 PROVE RequestPlaced(request')
  <2>1. PICK m \in 0..Places :
           /\ Split(request.cursor, m)
           /\ KeepsKeys => Whole(m) /\ (request.cursor # NoValue => 0 < m /\ m < Places)
           /\ request.count # NoValue => request.count = [total |-> Places, preceding |-> m]
    BY <1>1, <1>2 DEF QuietInv, RequestPlaced
  <2>2. request.cursor \in Cursor \cup {NoValue}
    BY <1>1 DEF Request
  <2>3. Fetched(request.cursor) = Brings(request.cursor, m)
    BY <1>1, <2>1, <2>2, FetchBrings
  <2>4. /\ request'.cursor = request.cursor /\ request'.count = request.count
        /\ request'.fetched = Brings(request.cursor, m)
    BY <1>1, <2>3 DEF Request
  <2> QED
    BY <2>1, <2>4 DEF RequestPlaced
<1> QED
  BY <1>1, <1>2, SameRowsSamePlaces DEF QuietInv

\* A page that is shown is a stretch of the list: forward it starts at the
\* cursor's place, backward it ends there.
LEMMA ShowPagePlaced ==
    ASSUME ListTyped, WalkInv, QuietInv, ShowPage PROVE QuietInv'
<1> DEFINE cursor == request.cursor
           fetched == request.fetched
           n == PageLength(fetched)
           rows == Trimmed(fetched, cursor)
           farthest == fetched[IF Backwards(cursor) THEN 1 ELSE n]
           nearest == fetched[IF Backwards(cursor) THEN n ELSE 1]
<1>1. /\ list # NoValue /\ cursor \in Cursor \cup {NoValue} /\ fetched \in Seq(ListedRow)
      /\ n \in Nat /\ n <= Len(fetched) /\ (n < Len(fetched) => n = Limit)
      /\ rows \in Seq(ListedRow) /\ Len(rows) = n
      /\ page'.rows = rows /\ page'.total = request.count.total
      /\ page'.preceding = PrecedingCount(request.count.preceding, rows, cursor)
      /\ page'.next # NoValue <=> n > 0 /\ (Backwards(cursor) \/ Len(fetched) > Limit)
      /\ page'.previous # NoValue <=>
            n > 0 /\ IF Backwards(cursor) /\ ~list.console THEN Len(fetched) > Limit
                     ELSE page'.preceding > 0
      /\ page'.next # NoValue => page'.next = MintCursor(farthest.id, farthest.at, "after")
      /\ page'.previous # NoValue => page'.previous = MintCursor(nearest.id, nearest.at, "before")
      /\ \A i \in 1..n : fetched[i].id \in RowIds /\ fetched[i].at \in list.instants
  BY ShownPage
<1>2. \A i \in 1..n : rows[i] = IF Backwards(cursor) THEN fetched[n + 1 - i] ELSE fetched[i]
  BY <1>1, TrimmedRows
<1>3. n = IF Len(fetched) > Limit THEN Limit ELSE Len(fetched)
  BY DEF PageLength
<1>4. /\ request # NoValue /\ request.count # NoValue /\ fetched # NoValue
      /\ UNCHANGED <<list, table, writes>> /\ request' = NoValue
  BY DEF ShowPage
<1>5. Limit \in Nat /\ Limit > 0 /\ Places \in Nat /\ Len(fetched) \in Nat
  BY <1>1, RowsInOrder, NoValueIsNothing
\* With a key that is kept, the controls are at the rows of the page's ends.
<1>7. KeepsKeys /\ n > 0 =>
         /\ page'.next # NoValue =>
               /\ page'.next.direction = "after"
               /\ page'.next.key = <<farthest.at, farthest.id>>
         /\ page'.previous # NoValue =>
               /\ page'.previous.direction = "before"
               /\ page'.previous.key = <<nearest.at, nearest.id>>
  <2>1. n > 0 => 1 \in 1..n /\ n \in 1..n
    BY <1>1
  <2>2. n > 0 => /\ farthest.id \in RowIds /\ farthest.at \in list.instants
                 /\ nearest.id \in RowIds /\ nearest.at \in list.instants
    BY <1>1, <2>1
  <2> HIDE DEF farthest, nearest, n, fetched, cursor
  <2>3. \A r \in RowIds, at \in list.instants, direction \in Directions : KeepsKeys =>
           /\ MintCursor(r, at, direction).direction = direction
           /\ MintCursor(r, at, direction).key = <<at, r>>
    BY <1>1, KeptKey
  <2>4. "after" \in Directions /\ "before" \in Directions
    BY DEF Directions
  <2> QED
    BY <1>1, <2>2, <2>3, <2>4
<1>6. ASSUME writes = 0 PROVE PagePlaced(page')
  <2> DEFINE p == page'.preceding
  <2>1. PICK m \in 0..Places :
           /\ Split(cursor, m)
           /\ KeepsKeys => Whole(m) /\ (cursor # NoValue => 0 < m /\ m < Places)
           /\ request.count = [total |-> Places, preceding |-> m]
           /\ fetched = Brings(cursor, m)
    BY <1>4, <1>6 DEF QuietInv, RequestPlaced
  <2>2. page'.total = Places /\ p = PrecedingCount(m, rows, cursor)
    BY <1>1, <2>1
  \* What the page shows, by its place.
  <2>3. /\ p \in 0..Places /\ p + n <= Places
        /\ \A i \in 1..n : rows[i] = Nth(p + i)
        /\ n > 0 => farthest = Nth(p + n) /\ nearest = Nth(p + 1)
        /\ p + n < Places /\ n > 0 => Backwards(cursor) \/ Len(fetched) > Limit
        /\ n > 0 /\ Backwards(cursor) => (Len(fetched) > Limit <=> p > 0)
        /\ Backwards(cursor) => n = (IF m <= Limit THEN m ELSE Limit) /\ p = m - n
        /\ ~Backwards(cursor) => n = RowsOfPage(m) /\ p = m /\ (Len(fetched) > Limit <=> m + Limit < Places)
    <3>1. CASE Backwards(cursor)
      <4>1. fetched = [i \in 1..(IF m <= Limit THEN m ELSE Limit + 1) |-> Nth(m + 1 - i)]
        BY <2>1, <3>1 DEF Brings
      <4> HIDE DEF fetched, rows, cursor, n
      <4>2. Len(fetched) = IF m <= Limit THEN m ELSE Limit + 1
        BY <1>5, <4>1
      <4>3. n = (IF m <= Limit THEN m ELSE Limit) /\ n <= m
        BY <1>3, <1>5, <4>2
      <4>4. p = m - n
        BY <1>1, <1>5, <2>2, <3>1, <4>3 DEF PrecedingCount
      <4>5. \A i \in 1..n : fetched[i] = Nth(m + 1 - i)
        BY <1>5, <4>1, <4>3
      <4> HIDE DEF p
      <4>6. p \in 0..Places /\ p + n = m
        BY <1>1, <1>5, <4>3, <4>4
      <4>7. \A i \in 1..n : rows[i] = Nth(p + i)
        <5>1. \A i \in 1..n : n + 1 - i \in 1..n /\ m + 1 - (n + 1 - i) = p + i
          BY <1>1, <1>5, <4>4
        <5> QED
          BY <1>2, <3>1, <4>5, <5>1
      <4>8. n > 0 => fetched[1] = Nth(p + n) /\ fetched[n] = Nth(p + 1)
        <5>1. n > 0 => 1 \in 1..n /\ n \in 1..n /\ m + 1 - 1 = p + n /\ m + 1 - n = p + 1
          BY <1>1, <1>5, <4>4, <4>6
        <5> QED
          BY <4>5, <5>1
      <4>9. Len(fetched) > Limit <=> p > 0
        BY <1>5, <4>2, <4>3, <4>4
      <4> QED
        BY <1>5, <3>1, <4>3, <4>4, <4>6, <4>7, <4>8, <4>9
    <3>2. CASE ~Backwards(cursor)
      <4>1. fetched = [i \in 1..(IF Places - m <= Limit THEN Places - m ELSE Limit + 1) |-> Nth(m + i)]
        BY <2>1, <3>2 DEF Brings
      <4> HIDE DEF fetched, rows, cursor, n
      <4>2. Len(fetched) = IF Places - m <= Limit THEN Places - m ELSE Limit + 1
        BY <1>5, <4>1
      <4>3. n = IF m + Limit < Places THEN Limit ELSE Places - m
        BY <1>3, <1>5, <4>2
      <4>4. p = m
        BY <1>1, <1>5, <2>2, <3>2 DEF PrecedingCount
      <4>5. \A i \in 1..n : fetched[i] = Nth(m + i)
        BY <1>5, <4>1, <4>3
      <4> HIDE DEF p
      <4>6. \A i \in 1..n : rows[i] = Nth(p + i)
        BY <1>2, <3>2, <4>4, <4>5
      <4>7. n > 0 => fetched[n] = Nth(p + n) /\ fetched[1] = Nth(p + 1)
        BY <1>1, <4>4, <4>5
      <4>8. Len(fetched) > Limit <=> m + Limit < Places
        BY <1>5, <4>2
      <4>9. p + n <= Places /\ (p + n < Places => m + Limit < Places) /\ p \in 0..Places
        BY <1>5, <4>3, <4>4
      <4> QED
        BY <3>2, <4>3, <4>4, <4>6, <4>7, <4>8, <4>9 DEF RowsOfPage
    <3> QED
      BY <3>1, <3>2
  <2> HIDE DEF fetched, rows, cursor, n
  <2>4. page'.rows = [i \in 1..n |-> Nth(p + i)] /\ Len(page'.rows) = n
    <3> DEFINE t == [i \in 1..n |-> Nth(p + i)]
    <3>1. t \in [1..n -> {Nth(p + i) : i \in 1..n}] /\ \A i \in 1..n : rows[i] = t[i]
      BY <2>3
    <3> HIDE DEF t
    <3>2. rows = t
      BY <1>1, <3>1, SeqByItsRows
    <3> QED
      BY <1>1, <3>2 DEF t
  <2>5. n > 0 => /\ p + n < Places => page'.next # NoValue
                 /\ page'.previous # NoValue <=> p > 0
    BY <1>1, <2>3
  <2>6. ASSUME KeepsKeys PROVE Neighboured(page')
    <3>1. PICK q \in Nat : m = q * Limit
      BY <2>1, <2>6 DEF Whole
    <3>2. /\ Whole(p) /\ n = RowsOfPage(p) /\ (p > 0 => n > 0) /\ (p + Limit < Places => n > 0)
          /\ n > 0 /\ (Backwards(cursor) \/ Len(fetched) > Limit) <=> p + Limit < Places
      <4>1. CASE Backwards(cursor)
        <5>1. 0 < m /\ m < Places
          BY <2>1, <2>6, <4>1 DEF Backwards
        <5>2. q > 0 /\ q - 1 \in Nat /\ m - Limit = (q - 1) * Limit /\ m >= Limit
          BY <1>5, <3>1, <5>1
        <5>3. n = Limit /\ p = m - Limit
          BY <1>5, <2>3, <4>1, <5>2
        <5>4. Whole(p)
          BY <2>3, <5>2, <5>3 DEF Whole
        <5>5. n = RowsOfPage(p) /\ p + Limit < Places
          BY <1>5, <5>1, <5>3 DEF RowsOfPage
        <5> QED
          BY <1>5, <4>1, <5>3, <5>4, <5>5
      <4>2. CASE ~Backwards(cursor)
        <5>1. (cursor = NoValue \/ m < Places) /\ Whole(m)
          BY <2>1, <2>6
        <5>2. n = RowsOfPage(p) /\ p = m /\ Whole(p) /\ (Len(fetched) > Limit <=> p + Limit < Places)
          BY <2>3, <4>2, <5>1
        <5>3. cursor = NoValue => m = 0
          <6>1. cursor = NoValue => \A j \in 1..Places : m < j
            BY <2>1, <4>2, BeyondIsNearer DEF Split
          <6> QED
            BY <1>5, <6>1
        <5>4. (p > 0 => n > 0) /\ (p + Limit < Places => n > 0)
          BY <1>5, <5>1, <5>2, <5>3 DEF RowsOfPage
        <5> QED
          BY <4>2, <5>2, <5>4
      <4> QED
        BY <4>1, <4>2
    <3>3. page'.previous # NoValue <=> p > 0
      BY <1>1, <1>5, <2>3, <2>5, <3>2
    <3>4. page'.next # NoValue <=> p + Limit < Places
      BY <1>1, <3>2
    <3> HIDE DEF p, farthest, nearest
    <3>5. ASSUME page'.next # NoValue PROVE Anchored(page'.next, p + Limit)
      <4>1. p + Limit < Places /\ n = Limit /\ 0 < p + Limit /\ n > 0
        BY <1>5, <2>3, <3>2, <3>4, <3>5 DEF RowsOfPage
      <4>2. page'.next.direction = "after" /\ page'.next.key = KeyOf(InOrder[p + Limit])
        BY <1>7, <2>3, <2>6, <3>5, <4>1 DEF Nth, KeyOf
      <4> QED
        BY <3>5, <4>1, <4>2 DEF Anchored
    <3>6. ASSUME page'.previous # NoValue PROVE Anchored(page'.previous, p)
      <4>1. 0 < p /\ n > 0 /\ p < Places
        BY <1>1, <1>5, <2>3, <3>2, <3>3, <3>6
      <4>2. page'.previous.direction = "before" /\ page'.previous.key = KeyOf(InOrder[p + 1])
        BY <1>7, <2>3, <2>6, <3>6, <4>1 DEF Nth, KeyOf
      <4> QED
        BY <3>6, <4>1, <4>2 DEF Anchored
    <3> QED
      BY <2>4, <3>2, <3>3, <3>4, <3>5, <3>6 DEF Neighboured, p
  <2> QED
    BY <2>2, <2>3, <2>4, <2>5, <2>6 DEF PagePlaced, p
<1> QED
  BY <1>4, <1>6, SameRowsSamePlaces DEF QuietInv

LEMMA EachStepPlaced ==
    ASSUME ListTyped, WalkInv, QuietInv, [ListNext]_listVars PROVE QuietInv'
<1>1. CASE UNCHANGED listVars
  BY <1>1, SameRowsSamePlaces DEF listVars, QuietInv
<1>2. ASSUME NEW r \in RowIds, NEW at \in Instants \cup {NoValue}, WriteRow(r, at) PROVE QuietInv'
  <2>1. writes' # 0
    BY <1>2 DEF WriteRow, ListTyped
  <2> QED
    BY <2>1 DEF QuietInv
<1> QED
  BY <1>1, <1>2, OpenListPlaced, TurnPagePlaced, CountRowsPlaced, FetchRowsPlaced, ShowPagePlaced
  DEF ListNext

\* While nobody writes, every page is a stretch of the list with the place and
\* the total that the list really has; with cursors that keep their keys, Next
\* and Previous lead through the same pages.
THEOREM QuietSessionsPage == ListSpec => []QuietSessionsPageTheList
<1>1. ListInit => ListTyped /\ WalkInv /\ QuietInv
  <2>1. ListInit => QuietInv
    BY DEF ListInit, QuietInv
  <2> QED
    BY <2>1, ListInitTyped, WalkInitially
<1>2. ListTyped /\ WalkInv /\ QuietInv /\ [ListNext]_listVars => ListTyped' /\ WalkInv' /\ QuietInv'
  BY EachStepWalks, EachStepPlaced
<1>3. ASSUME ListTyped, QuietInv PROVE QuietSessionsPageTheList
  <2> DEFINE p == page.preceding
             n == Len(page.rows)
             all == InOrder
             first == p + 1
             last == p + n
             full == IF p + Limit < Len(all) THEN p + Limit ELSE Len(all)
  <2> SUFFICES ASSUME page # NoValue, writes = 0
               PROVE  /\ [i \in DOMAIN page.rows |-> page.rows[i].id] = SubSeq(all, first, last)
                      /\ page.total = Len(all)
                      /\ page.rows # <<>> => /\ last < Len(all) => page.next # NoValue
                                             /\ page.previous # NoValue <=> first > 1
                      /\ KeepsKeys => /\ p % Limit = 0
                                      /\ last = full
                                      /\ page.next # NoValue <=> last < Len(all)
                                      /\ page.previous # NoValue <=> first > 1
    BY DEF QuietSessionsPageTheList
  <2>1. PagePlaced(page)
    BY <1>3 DEF QuietInv
  <2>2. /\ Places \in Nat /\ all \in Seq(Matching) /\ Len(all) = Places
        /\ Limit \in Nat /\ Limit > 0
    BY <1>3, RowsInOrder, NoValueIsNothing
  <2>3. page.rows \in Seq(ListedRow)
    BY <1>3 DEF ListTyped, Page
  <2>4. /\ n \in Nat /\ p \in 0..Places /\ p + n <= Places /\ (page.rows # <<>> => n > 0)
        /\ page.rows = [i \in 1..n |-> Nth(p + i)] /\ page.total = Places
    BY <2>1, <2>3 DEF PagePlaced
  <2> HIDE DEF n, p
  <2>5. [i \in DOMAIN page.rows |-> page.rows[i].id] = [i \in 1..n |-> all[p + i]]
    BY <2>4 DEF Nth
  <2>6. SubSeq(all, first, last) = [i \in 1..n |-> all[p + i]]
    <3> DEFINE t == [i \in 1..n |-> all[p + i]]
    <3>1. first \in 1..(Len(all) + 1) /\ last \in (first - 1)..Len(all) /\ last - first + 1 = n
      BY <2>2, <2>4
    <3>2. \A i \in 1..n : first + i - 1 = p + i /\ p + i \in 1..Len(all)
      BY <2>2, <2>4
    <3> HIDE DEF all, first, last
    <3>3. SubSeq(all, first, last) \in Seq(Matching) /\ Len(SubSeq(all, first, last)) = n
      BY <2>2, <3>1
    <3>4. \A i \in 1..n : SubSeq(all, first, last)[i] = all[first + i - 1]
      BY <2>2, <3>1
    <3>5. t \in [1..n -> Matching]
      <4>1. \A j \in 1..Len(all) : all[j] \in Matching
        BY <2>2
      <4> QED
        BY <3>2, <4>1
    <3>6. \A i \in 1..n : SubSeq(all, first, last)[i] = t[i]
      BY <3>2, <3>4
    <3> HIDE DEF t
    <3>7. n \in Nat
      BY <2>4
    <3>8. SubSeq(all, first, last) = t
      BY <3>3, <3>5, <3>6, <3>7, SeqByItsRows
    <3> QED
      BY <3>8 DEF t
  <2>7. page.rows # <<>> => /\ last < Len(all) => page.next # NoValue
                            /\ page.previous # NoValue <=> first > 1
    BY <2>1, <2>2, <2>4 DEF PagePlaced, p, n
  <2>8. ASSUME KeepsKeys
        PROVE  /\ p % Limit = 0 /\ last = full
               /\ page.next # NoValue <=> last < Len(all)
               /\ page.previous # NoValue <=> first > 1
    <3>1. Neighboured(page)
      BY <2>1, <2>8 DEF PagePlaced
    <3>2. PICK q \in Nat : p = q * Limit
      BY <3>1 DEF Neighboured, Whole, p
    <3>3. p % Limit = 0
      BY <2>2, <3>2
    <3>4. n = (IF p + Limit < Places THEN Limit ELSE Places - p)
      BY <3>1 DEF Neighboured, RowsOfPage, n, p
    <3>5. /\ page.next # NoValue <=> p + Limit < Places
          /\ page.previous # NoValue <=> p > 0
      BY <3>1 DEF Neighboured, p
    <3> QED
      BY <2>2, <2>4, <3>3, <3>4, <3>5
  <2> QED
    BY <2>2, <2>4, <2>5, <2>6, <2>7, <2>8
<1> QED
  BY <1>1, <1>2, <1>3, PTL DEF ListSpec
=============================================================================
