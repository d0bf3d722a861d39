----------------------------- MODULE CrmContacts -----------------------------
(***************************************************************************)
(* The people the CRM holds, the two lists of people it must leave alone,  *)
(* and the transactions that touch them: creating, correcting, promoting   *)
(* and erasing a contact, importing a file, suppressing an identifier.     *)
(* Source: apps/console/lib/db/crm-writes.ts, crm-erasure.ts,              *)
(* crm-import-repo.ts, crm-suppressions-repo.ts.                           *)
(*                                                                         *)
(* Postgres runs every transaction at READ COMMITTED: each SELECT sees     *)
(* what is committed when it runs, and only a row lock or a unique index   *)
(* makes one transaction wait for another.  A transaction is therefore one *)
(* step per read, and a last step for its writes and its COMMIT; a         *)
(* transaction that reads FOR UPDATE holds the row until that step.        *)
(***************************************************************************)
EXTENDS Naturals, FiniteSets, Sequences

CONSTANTS
    Operators,      \* connections that run a transaction (two per console)
    Organisations,  \* ids of crm_organisations
    Contacts,       \* ids of crm_contacts
    Keys,           \* normalised emails and Instagram handles
    Files,          \* CSV files: sequences of rows, a row its set of keys
    Desks,          \* operations that run together, on which data (a bound)
    MaxTx,          \* transactions begun in a behaviour (a bound)
    Null

Contact == [org : Organisations, keys : SUBSET Keys, primary : BOOLEAN,
            erased : BOOLEAN, source : {"manual", "import"}]

ASSUME ContactsAssumption ==
    /\ Null \notin Operators \cup Organisations \cup Contacts \cup Keys \cup Contact
    /\ \A file \in Files : file \in Seq(SUBSET Keys)
    /\ MaxTx \in Nat
    /\ \A d \in Desks : d.contacts \in [Contacts -> Contact \cup {Null}]

VARIABLES
    organisations,  \* the organisations that exist
    contacts,       \* crm_contacts: a row, or Null
    suppressions,   \* crm_suppressions: the keys on the do-not-contact list
    register,       \* crm_erased_identifiers: the keys of erased people
    forgotten,      \* the keys that erasures destroyed (a history)
    hashKey,        \* is CRM_ERASURE_HASH_KEY configured
    outreach,       \* crm_activities of kind dm_sent that name a contact
    tx,             \* what each operator's transaction has read so far
    desk,           \* one of Desks: [ops, contacts, deals]
    begun           \* how many transactions were begun

contactVars == <<organisations, contacts, suppressions, register, forgotten, hashKey,
                 outreach, tx, desk, begun>>

\* late: the contact was already erased when the row was inserted (a history).
\* suppressed: a contact of the organisation was on the list by then (idem).
Dm == [contact : Contacts, edited : BOOLEAN, pendingReview : BOOLEAN,
       late : BOOLEAN, suppressed : BOOLEAN]

\* read: the erasure found the key on the row when its statement began.
Forgotten == [key : Keys, read : BOOLEAN]

Idle == [op |-> "none"]

Used == {c \in Contacts : contacts[c] # Null}
ContactsOf(org) == {c \in Used : contacts[c].org = org}
HeldKeys == UNION {contacts[c].keys : c \in Used}
KeysOfOrganisation(org) == UNION {contacts[c].keys : c \in ContactsOf(org)}

\* findMatchingOrganisationId and isSuppressed match on any of the keys.
Matches(keys, list) == keys \cap list # {}

(***************************************************************************)
(* Transactions                                                            *)
(***************************************************************************)

MayBegin(o, op) ==
    /\ tx[o] = Idle
    /\ op \in desk.ops
    /\ begun < MaxTx

Begin(o, record) ==
    /\ tx' = [tx EXCEPT ![o] = record]
    /\ begun' = begun + 1
    /\ UNCHANGED desk

Continue(o, record) ==
    /\ tx' = [tx EXCEPT ![o] = record]
    /\ UNCHANGED <<desk, begun>>

\* COMMIT and ROLLBACK release the connection; they differ in what else changes.
End(o) == Continue(o, Idle)

Rollback(o) ==
    /\ End(o)
    /\ UNCHANGED <<organisations, contacts, suppressions, register, forgotten, hashKey,
                   outreach>>

\* A statement of its own, or a transaction in which nothing can interleave.
AtOnce(o) ==
    /\ begun' = begun + 1
    /\ UNCHANGED <<tx, desk>>

\* SELECT ... FROM crm_contacts WHERE id = $1 FOR UPDATE keeps the row.
HoldsContact(o, c) ==
    /\ tx[o].op \in {"updateContact", "setPrimaryContact"}
    /\ tx[o].contact = c

ContactFree(o, c) == \A p \in Operators \ {o} : ~HoldsContact(p, c)

(***************************************************************************)
(* The do-not-contact list and the erasure register                        *)
(***************************************************************************)

AddSuppression(o, key) ==
    /\ MayBegin(o, "suppress")
    /\ key \notin suppressions
    /\ suppressions' = suppressions \cup {key}
    /\ AtOnce(o)
    /\ UNCHANGED <<organisations, contacts, register, forgotten, hashKey, outreach>>

RemoveSuppression(o, key) ==
    /\ MayBegin(o, "suppress")
    /\ key \in suppressions
    /\ suppressions' = suppressions \ {key}
    /\ AtOnce(o)
    /\ UNCHANGED <<organisations, contacts, register, forgotten, hashKey, outreach>>
NeedsReviewUnedited(dm, c) == dm.contact = c /\ ~dm.edited

\* Is the DM one the erasure must put in front of a human?
NeedsReview(dm, c) == dm.contact = c /\ dm.edited

SweepOutreach(c) ==
    {IF NeedsReview(dm, c) THEN [dm EXCEPT !.pendingReview = TRUE] ELSE dm :
        dm \in outreach}

\* The statement reads the old identifiers in its snapshot, as it begins (the
\* CTE old locks nothing): the UPDATE may then wait for the row.  Without the
\* hash key nothing is issued.
EraseRead(o, c) ==
    /\ MayBegin(o, "erase")
    /\ hashKey
    /\ contacts[c] # Null
    /\ Begin(o, [op |-> "erase", contact |-> c, old |-> contacts[c].keys])
    /\ UNCHANGED <<organisations, contacts, suppressions, register, forgotten, hashKey,
                   outreach>>

\* READ COMMITTED reads the row again when the lock comes, and not the CTE:
\* what it nulls is the row's last version, what it registers is old.
EraseWrite(o) ==
    LET c == tx[o].contact IN
    /\ tx[o].op = "erase"
    /\ contacts[c] # Null
    /\ ContactFree(o, c)
    /\ contacts' = [contacts EXCEPT ![c].keys = {}, ![c].erased = TRUE]
    /\ register' = register \cup tx[o].old
    /\ forgotten' = forgotten \cup
          {[key |-> key, read |-> key \in tx[o].old] : key \in contacts[c].keys}
    /\ outreach' = SweepOutreach(c)
    /\ End(o)
    /\ UNCHANGED <<organisations, suppressions, hashKey>>

\* The row was deleted meanwhile: eraseContact returns null.
EraseFindsNothing(o) ==
    /\ tx[o].op = "erase"
    /\ contacts[tx[o].contact] = Null
    /\ Rollback(o)

\* A deployment gains or loses CRM_ERASURE_HASH_KEY: a process keeps the
\* environment it started with, and so does every transaction.
Redeploy(o) ==
    /\ MayBegin(o, "redeploy")
    /\ \A p \in Operators : tx[p] = Idle
    /\ hashKey' = ~hashKey
    /\ AtOnce(o)
    /\ UNCHANGED <<organisations, contacts, suppressions, register, forgotten,
                   outreach>>

(***************************************************************************)
(* Creating a contact                                                      *)
(***************************************************************************)

\* createOrganisation (org is Null: a new one) and createContact both begin
\* with assertNotSuppressed.
CreateCheck(o, org, keys) ==
    /\ MayBegin(o, "create")
    /\ org \in organisations \cup {Null}
    /\ ~Matches(keys, suppressions)
    /\ Begin(o, [op |-> "create", org |-> org, keys |-> keys])
    /\ UNCHANGED <<organisations, contacts, suppressions, register, forgotten, hashKey,
                   outreach>>
NewRowWithoutDefaults(org, keys, primary, source) ==
    [org |-> org, keys |-> keys, primary |-> primary, erased |-> Null,
     source |-> source]

NewRow(org, keys, primary, source) ==
    [org |-> org, keys |-> keys, primary |-> primary, erased |-> FALSE,
     source |-> source]

\* An id is made once: a transaction may still name one whose row was deleted.
NewIds ==
    {c \in Contacts \ Used :
        \A o \in Operators : tx[o].op \in {"erase", "dm"} => tx[o].contact # c}

\* A new organisation's first contact is its primary one; others are not.
CreateWrite(o) ==
    /\ tx[o].op = "create"
    /\ ~Matches(tx[o].keys, HeldKeys)
    /\ \E org \in IF tx[o].org = Null THEN Organisations \ organisations
                   ELSE organisations \cap {tx[o].org} :
          /\ \E c \in NewIds :
                contacts' = [contacts EXCEPT ![c] =
                    NewRow(org, tx[o].keys, tx[o].org = Null, "manual")]
          /\ organisations' = organisations \cup {org}
    /\ End(o)
    /\ UNCHANGED <<suppressions, register, forgotten, hashKey, outreach>>

\* A unique index refuses a key that another contact has
\* (DuplicateContactError), the foreign key an organisation deleted since.
CreateRefused(o) ==
    /\ tx[o].op = "create"
    /\ \/ Matches(tx[o].keys, HeldKeys)
       \/ tx[o].org \notin organisations \cup {Null}
    /\ Rollback(o)

(***************************************************************************)
(* Correcting a contact, and choosing the primary one                      *)
(***************************************************************************)

UpdateContactLock(o, c, keys) ==
    /\ MayBegin(o, "updateContact")
    /\ contacts[c] # Null
    /\ ContactFree(o, c)
    /\ Begin(o, [op |-> "updateContact", contact |-> c, keys |-> keys])
    /\ UNCHANGED <<organisations, contacts, suppressions, register, forgotten, hashKey,
                   outreach>>

KeysOfOthers(c) == UNION {contacts[other].keys : other \in Used \ {c}}

UpdateContactWrite(o) ==
    /\ tx[o].op = "updateContact"
    /\ ~Matches(tx[o].keys, KeysOfOthers(tx[o].contact))
    /\ contacts' = [contacts EXCEPT ![tx[o].contact].keys = tx[o].keys]
    /\ End(o)
    /\ UNCHANGED <<organisations, suppressions, register, forgotten, hashKey, outreach>>

UpdateContactDuplicate(o) ==
    /\ tx[o].op = "updateContact"
    /\ Matches(tx[o].keys, KeysOfOthers(tx[o].contact))
    /\ Rollback(o)

SetPrimaryLock(o, c) ==
    /\ MayBegin(o, "setPrimaryContact")
    /\ contacts[c] # Null
    /\ ContactFree(o, c)
    /\ ~contacts[c].primary
    /\ Begin(o, [op |-> "setPrimaryContact", contact |-> c, demote |-> Null])
    /\ UNCHANGED <<organisations, contacts, suppressions, register, forgotten, hashKey,
                   outreach>>

\* UPDATE ... WHERE organisation_id = $1 AND is_primary chooses its rows now,
\* and may then wait for one that another transaction holds.
SetPrimaryChoose(o) ==
    /\ tx[o].op = "setPrimaryContact"
    /\ tx[o].demote = Null
    /\ Continue(o, [tx[o] EXCEPT !.demote =
          {c \in ContactsOf(contacts[tx[o].contact].org) : contacts[c].primary}])
    /\ UNCHANGED <<organisations, contacts, suppressions, register, forgotten, hashKey,
                   outreach>>

SetPrimaryWrite(o) ==
    /\ tx[o].op = "setPrimaryContact"
    /\ tx[o].demote # Null
    /\ \A c \in tx[o].demote : ContactFree(o, c)
    /\ contacts' = [c \in Contacts |->
          CASE c = tx[o].contact -> [contacts[c] EXCEPT !.primary = TRUE]
            [] c \in tx[o].demote \ {tx[o].contact} /\ contacts[c] # Null ->
                  [contacts[c] EXCEPT !.primary = FALSE]
            [] OTHER -> contacts[c]]
    /\ End(o)
    /\ UNCHANGED <<organisations, suppressions, register, forgotten, hashKey, outreach>>

(***************************************************************************)
(* Importing a file                                                        *)
(***************************************************************************)

\* The keys that erasures found on a row and destroyed.
KnownForgotten == {f.key : f \in {g \in forgotten : g.read}}

\* seen: who had been forgotten when the import began (a history).
ImportBegin(o, file) ==
    /\ MayBegin(o, "import")
    /\ Begin(o, [op |-> "import", rows |-> file, created |-> <<>>,
                 settled |-> FALSE, checked |-> FALSE, seen |-> KnownForgotten])
    /\ UNCHANGED <<organisations, contacts, suppressions, register, forgotten, hashKey,
                   outreach>>

\* The rows of the file are taken one by one.
Row(o) == Head(tx[o].rows)

NextRow(o) == [tx[o] EXCEPT !.rows = Tail(@), !.checked = FALSE, !.settled = TRUE]
CheckUnavailableNever(o) == FALSE

\* erasureCheckGuard, asked once per import, on its first row.
CheckUnavailable(o) == ~tx[o].settled /\ ~hashKey /\ register # {}

ImportRefused(o) ==
    /\ tx[o].op = "import"
    /\ tx[o].rows # <<>>
    /\ ~tx[o].checked
    /\ CheckUnavailable(o)
    /\ Rollback(o)

IsErased(keys) == hashKey /\ Matches(keys, register)

ImportCheckErased(o) ==
    /\ tx[o].op = "import"
    /\ tx[o].rows # <<>>
    /\ ~tx[o].checked
    /\ ~CheckUnavailable(o)
    /\ Continue(o, IF IsErased(Row(o)) THEN NextRow(o)
                   ELSE [tx[o] EXCEPT !.checked = TRUE, !.settled = TRUE])
    /\ UNCHANGED <<organisations, contacts, suppressions, register, forgotten, hashKey,
                   outreach>>

\* The lookups run on the transaction's own client: they see its own rows too.
CreatedKeys(o) == UNION {tx[o].created[i] : i \in DOMAIN tx[o].created}

Known(o) == HeldKeys \cup CreatedKeys(o)

ImportMatchOrCreate(o) ==
    /\ tx[o].op = "import"
    /\ tx[o].rows # <<>>
    /\ tx[o].checked
    /\ Continue(o,
          IF Matches(Row(o), suppressions) \/ Matches(Row(o), Known(o))
          THEN NextRow(o)
          ELSE [NextRow(o) EXCEPT !.created = Append(@, Row(o))])
    /\ UNCHANGED <<organisations, contacts, suppressions, register, forgotten, hashKey,
                   outreach>>

ImportDone(o) == tx[o].op = "import" /\ tx[o].rows = <<>>

\* One organisation, with its primary contact, for every row that made one.
ImportCommit(o) ==
    LET created == tx[o].created IN
    /\ ImportDone(o)
    /\ ~Matches(CreatedKeys(o), HeldKeys)
    /\ \E ids \in [DOMAIN created -> NewIds],
          orgs \in [DOMAIN created -> Organisations \ organisations] :
          /\ \A i, j \in DOMAIN created :
                i # j => ids[i] # ids[j] /\ orgs[i] # orgs[j]
          /\ contacts' = [c \in Contacts |->
                IF \E i \in DOMAIN created : ids[i] = c
                THEN LET i == CHOOSE i \in DOMAIN created : ids[i] = c
                     IN NewRow(orgs[i], created[i], TRUE, "import")
                ELSE contacts[c]]
          /\ organisations' = organisations \cup {orgs[i] : i \in DOMAIN created}
    /\ End(o)
    /\ UNCHANGED <<suppressions, register, forgotten, hashKey, outreach>>

\* A unique index refused a row: the batch lands whole or not at all.
ImportDuplicate(o) ==
    /\ ImportDone(o)
    /\ Matches(CreatedKeys(o), HeldKeys)
    /\ Rollback(o)

(***************************************************************************)
(* The steps of one operator, and what is true of the people               *)
(***************************************************************************)

ContactStep(o) ==
    \/ \E key \in Keys : AddSuppression(o, key) \/ RemoveSuppression(o, key)
    \/ \E c \in Contacts : EraseRead(o, c) \/ SetPrimaryLock(o, c)
    \/ EraseWrite(o)
    \/ EraseFindsNothing(o)
    \/ Redeploy(o)
    \/ \E org \in Organisations \cup {Null}, key \in Keys : CreateCheck(o, org, {key})
    \/ CreateWrite(o)
    \/ CreateRefused(o)
    \/ \E c \in Contacts, keys \in SUBSET Keys : UpdateContactLock(o, c, keys)
    \/ UpdateContactWrite(o)
    \/ UpdateContactDuplicate(o)
    \/ SetPrimaryChoose(o)
    \/ SetPrimaryWrite(o)
    \/ \E file \in Files : ImportBegin(o, file)
    \/ ImportRefused(o)
    \/ ImportCheckErased(o)
    \/ ImportMatchOrCreate(o)
    \/ ImportCommit(o)
    \/ ImportDuplicate(o)

ContactsInit ==
    /\ desk \in Desks
    /\ contacts = desk.contacts
    /\ organisations = {contacts[c].org : c \in Used}
    /\ suppressions = {}
    /\ register = {}
    /\ forgotten = {}
    /\ hashKey = TRUE
    /\ outreach = {}
    /\ tx = [o \in Operators |-> Idle]
    /\ begun = 0

ContactsTypeOK ==
    /\ organisations \subseteq Organisations
    /\ contacts \in [Contacts -> Contact \cup {Null}]
    /\ suppressions \subseteq Keys
    /\ register \subseteq Keys
    /\ forgotten \subseteq Forgotten
    /\ hashKey \in BOOLEAN
    /\ outreach \subseteq Dm
    /\ desk \in Desks
    /\ begun \in 0..MaxTx
=============================================================================
