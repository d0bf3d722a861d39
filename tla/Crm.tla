-------------------------------- MODULE Crm --------------------------------
(***************************************************************************)
(* The deals of the CRM, and the transactions that move them, composed     *)
(* with the people of CrmContacts: stages, voids, next actions, the log of *)
(* outreach (which reads the people and moves the deals), conversions, and *)
(* the deletion of an organisation.  Source: apps/console/lib/db/          *)
(* crm-write-repo.ts, crm-void.ts, crm-outreach.ts, crm-handoff-repo.ts,   *)
(* crm-sql.ts, crm-erasure.ts.                                             *)
(***************************************************************************)
EXTENDS CrmContacts

CONSTANTS
    Deals,          \* ids of crm_opportunities
    Products

VARIABLES
    deals,          \* crm_opportunities: a row, or Null
    stageLog,       \* its stage_change activities: <<from, to>>, in order
    conversion,     \* crm_organisations.converted_product, or Null
    checkRaised     \* has a CHECK refused an UPDATE as a raw 23514

dealVars == <<deals, stageLog, conversion, checkRaised>>
vars == <<contactVars, dealVars>>

Stages == {"new", "contacted", "qualified", "won", "lost"}

\* next: next_action_at is absent, has come, or is still to come: set by the
\* code's default, or planned by an operator.
Deal == [org : Organisations, stage : Stages, product : Products \cup {Null},
         voided : BOOLEAN, next : {"none", "due", "default", "planned"}]

ASSUME DealsAssumption ==
    /\ Null \notin Deals \cup Products \cup Deal
    /\ \A d \in Desks : d.deals \in [Deals -> Deal \cup {Null}]

Live(d) == deals[d] # Null
DealsOf(org) == {d \in Deals : Live(d) /\ deals[d].org = org}

RequiresProduct(stage) == stage \notin {"new", "contacted"}
Terminal(stage) == stage \in {"won", "lost"}

\* crm_opp_product_required_when_qualified: NOT VALID, so rows that were
\* migrated may break it, but every UPDATE is held to it.
CheckHolds(row) == RequiresProduct(row.stage) => row.product # Null
ClockEligibleMigrated(row) == ~Terminal(row.stage) /\ ~row.voided

ClockEligibleVoided(row) ==
    /\ ~Terminal(row.stage)
    /\ RequiresProduct(row.stage) => row.product # Null

\* CLOCK_ELIGIBLE_SQL
ClockEligible(row) ==
    /\ ~Terminal(row.stage)
    /\ RequiresProduct(row.stage) => row.product # Null
    /\ ~row.voided

\* nextActionAssignment: outbound work schedules the follow-up by default, and
\* leaves a date that is still to come; an answer makes the deal due now.
NextAction(kind, next) ==
    CASE kind = "inbound" -> "due"
      [] kind # "inbound" /\ next \in {"none", "due"} -> "default"
      [] OTHER -> next

\* SELECT ... FROM crm_opportunities WHERE id = $1 FOR UPDATE keeps the row.
HoldsDeal(o, d) ==
    /\ tx[o].op \in {"advanceStage", "setNextAction", "void", "restore"}
    /\ tx[o].deal = d
DealFreeAlways(o, d) == TRUE

DealFree(o, d) == \A p \in Operators \ {o} : ~HoldsDeal(p, d)

\* Begin a transaction with the locked read of a deal.
LockDeal(o, d, record) ==
    /\ MayBegin(o, record.op)
    /\ Live(d)
    /\ DealFree(o, d)
    /\ Begin(o, record)
    /\ UNCHANGED <<organisations, contacts, suppressions, register, forgotten, hashKey,
                   outreach, dealVars>>

RollbackAll(o) ==
    /\ Rollback(o)
    /\ UNCHANGED dealVars

\* The UPDATE of the row a transaction holds, or its raw refusal by the CHECK.
UpdateDeal(o, d, row, log) ==
    /\ IF CheckHolds(row)
       THEN /\ deals' = [deals EXCEPT ![d] = row]
            /\ stageLog' = [stageLog EXCEPT ![d] = @ \o log]
            /\ UNCHANGED checkRaised
       ELSE /\ checkRaised' = TRUE
            /\ UNCHANGED <<deals, stageLog>>
    /\ End(o)
    /\ UNCHANGED <<organisations, contacts, suppressions, register, forgotten, hashKey,
                   outreach, conversion>>

(***************************************************************************)
(* advanceStage, setNextAction, voidOpportunity, restoreOpportunity        *)
(***************************************************************************)

\* assertAdvanceStageInput: a qualified stage needs a product with it.
AdvanceStageLock(o, d, to, product) ==
    /\ RequiresProduct(to) => product # Null
    /\ LockDeal(o, d, [op |-> "advanceStage", deal |-> d, read |-> deals[d],
                       to |-> to, product |-> product])

\* The row and its activity are written from what the locked read returned.
Advanced(read, to, product) ==
    [read EXCEPT !.stage = to, !.product = IF product = Null THEN @ ELSE product]

StageChange(from, to) == IF from = to THEN <<>> ELSE << <<from, to>> >>

AdvanceStageWrite(o) ==
    /\ tx[o].op = "advanceStage"
    /\ ~tx[o].read.voided
    /\ LET read == tx[o].read IN
       UpdateDeal(o, tx[o].deal, Advanced(read, tx[o].to, tx[o].product),
                  StageChange(read.stage, tx[o].to))

SetNextActionLock(o, d, at) ==
    LockDeal(o, d, [op |-> "setNextAction", deal |-> d, read |-> deals[d],
                    at |-> at])

SetNextActionWrite(o) ==
    /\ tx[o].op = "setNextAction"
    /\ ~tx[o].read.voided
    /\ CheckHolds(tx[o].read)
    /\ UpdateDeal(o, tx[o].deal, [tx[o].read EXCEPT !.next = tx[o].at], <<>>)

VoidLock(o, d) ==
    LockDeal(o, d, [op |-> "void", deal |-> d, read |-> deals[d]])

VoidWrite(o) ==
    /\ tx[o].op = "void"
    /\ ~tx[o].read.voided
    /\ CheckHolds(tx[o].read)
    /\ UpdateDeal(o, tx[o].deal, [tx[o].read EXCEPT !.voided = TRUE], <<>>)

RestoreLock(o, d) ==
    LockDeal(o, d, [op |-> "restore", deal |-> d, read |-> deals[d]])

RestoreWrite(o) ==
    /\ tx[o].op = "restore"
    /\ tx[o].read.voided
    /\ CheckHolds(tx[o].read)
    /\ UpdateDeal(o, tx[o].deal, [tx[o].read EXCEPT !.voided = FALSE], <<>>)

\* VoidedOpportunityError, MissingProductError, and the calls that find
\* nothing to do: an advance writes even when a migrated row would refuse it.
DealRefused(o) ==
    /\ \/ tx[o].op \in {"advanceStage", "setNextAction", "void"} /\ tx[o].read.voided
       \/ tx[o].op = "restore" /\ ~tx[o].read.voided
       \/ tx[o].op \in {"setNextAction", "void", "restore"} /\ ~CheckHolds(tx[o].read)
    /\ RollbackAll(o)

(***************************************************************************)
(* The outreach log: logActivity and recordTemplatedDm                     *)
(***************************************************************************)

Suppressed(org) == Matches(KeysOfOrganisation(org), suppressions)

\* assertNoSuppressedContact, before anything else, for outbound kinds.
LogCheck(o, org, deal, kind) ==
    /\ MayBegin(o, "logActivity")
    /\ org \in organisations
    /\ kind = "outbound" => ~Suppressed(org)
    /\ deal \in DealsOf(org) \cup {Null}
    /\ Begin(o, [op |-> "logActivity", org |-> org, deal |-> deal, kind |-> kind])
    /\ UNCHANGED <<organisations, contacts, suppressions, register, forgotten, hashKey,
                   outreach, dealVars>>

\* The deals whose clock an activity moves: the one it names, or every one of
\* the organisation, as CLOCK_ELIGIBLE_SQL finds them.
Touched(org, deal) ==
    {d \in DealsOf(org) : (deal = Null \/ d = deal) /\ ClockEligible(deals[d])}

\* The UPDATE waits for the rows that others hold.
ClocksFree(o, org, deal) == \A d \in Touched(org, deal) : DealFree(o, d)

ClocksMoved(org, deal, kind) ==
    [d \in Deals |-> IF d \in Touched(org, deal)
                     THEN [deals[d] EXCEPT !.next = NextAction(kind, @)]
                     ELSE deals[d]]

\* A row the UPDATE may not write fails the transaction.
ClocksRefused(org, deal) == \E d \in Touched(org, deal) : ~CheckHolds(deals[d])

LogWrite(o) ==
    LET org == tx[o].org
        deal == tx[o].deal
    IN
    /\ tx[o].op = "logActivity"
    /\ org \in organisations
    /\ ClocksFree(o, org, deal)
    /\ IF ClocksRefused(org, deal)
       THEN checkRaised' = TRUE /\ UNCHANGED deals
       ELSE deals' = ClocksMoved(org, deal, tx[o].kind) /\ UNCHANGED checkRaised
    /\ End(o)
    /\ UNCHANGED <<organisations, contacts, suppressions, register, forgotten, hashKey,
                   outreach, stageLog, conversion>>

\* The foreign key refuses an organisation deleted since.
LogRefused(o) ==
    /\ tx[o].op = "logActivity"
    /\ tx[o].org \notin organisations
    /\ RollbackAll(o)

DmCheckSuppression(o, org, c, edited) ==
    /\ MayBegin(o, "dm")
    /\ org \in organisations
    /\ ~Suppressed(org)
    /\ Begin(o, [op |-> "dm", org |-> org, contact |-> c, edited |-> edited,
                 found |-> FALSE])
    /\ UNCHANGED <<organisations, contacts, suppressions, register, forgotten, hashKey,
                   outreach, dealVars>>

IsReachable(c, org) == c \in ContactsOf(org) /\ ~contacts[c].erased

\* The contact and the template, read inside the transaction.
DmCheckContact(o) ==
    /\ tx[o].op = "dm"
    /\ ~tx[o].found
    /\ IsReachable(tx[o].contact, tx[o].org)
    /\ Continue(o, [tx[o] EXCEPT !.found = TRUE])
    /\ UNCHANGED <<organisations, contacts, suppressions, register, forgotten, hashKey,
                   outreach, dealVars>>

\* TemplateUnavailableError (archived since the preview) at any time, and
\* ContactUnavailableError; a foreign key refuses what was deleted meanwhile.
DmRefused(o) ==
    /\ tx[o].op = "dm"
    /\ ~tx[o].found \/ tx[o].contact \notin Used
    /\ RollbackAll(o)

\* The activity, the clocks of every eligible deal, and new -> contacted for
\* those that are new: one transaction.
DmWrite(o) ==
    LET org == tx[o].org
        c == tx[o].contact
        advancing == {d \in Touched(org, Null) : deals[d].stage = "new"}
    IN
    /\ tx[o].op = "dm"
    /\ tx[o].found
    /\ c \in Used
    /\ ClocksFree(o, org, Null)
    /\ IF ClocksRefused(org, Null)
       THEN checkRaised' = TRUE /\ UNCHANGED <<deals, stageLog, outreach>>
       ELSE /\ outreach' = outreach \cup
                  {[contact |-> c, edited |-> tx[o].edited, pendingReview |-> FALSE,
                    late |-> contacts[c].erased, suppressed |-> Suppressed(org)]}
            /\ deals' = [d \in Deals |->
                  IF d \in advancing
                  THEN [ClocksMoved(org, Null, "outbound")[d] EXCEPT !.stage = "contacted"]
                  ELSE ClocksMoved(org, Null, "outbound")[d]]
            /\ stageLog' = [d \in Deals |->
                  IF d \in advancing
                  THEN stageLog[d] \o StageChange("new", "contacted")
                  ELSE stageLog[d]]
            /\ UNCHANGED checkRaised
    /\ End(o)
    /\ UNCHANGED <<organisations, contacts, suppressions, register, forgotten, hashKey,
                   conversion>>

(***************************************************************************)
(* linkConversion                                                          *)
(***************************************************************************)

WonDeals(org, product) ==
    {d \in DealsOf(org) : /\ deals[d].stage = "won"
                          /\ deals[d].product = product
                          /\ ~deals[d].voided}

\* converted_at IS NULL
Unlinked(org) == conversion[org] = Null

\* UPDATE crm_organisations ... AND converted_at IS NULL holds the row, so a
\* second link waits and then finds it set.  It keeps the first won deal of
\* the product, or chooses a won deal without one to give it to.
LinkOrganisation(o, org, product) ==
    /\ MayBegin(o, "link")
    /\ org \in organisations
    /\ \A p \in Operators : tx[p].op = "link" => tx[p].org # org
    /\ Unlinked(org)
    /\ \E target \in IF WonDeals(org, product) = {} /\ WonDeals(org, Null) # {}
                     THEN WonDeals(org, Null) ELSE {Null} :
          Begin(o, [op |-> "link", org |-> org, product |-> product,
                    fill |-> target])
    /\ UNCHANGED <<organisations, contacts, suppressions, register, forgotten, hashKey,
                   outreach, dealVars>>

\* UPDATE ... WHERE id = (the deal chosen): it may wait for the row, and the
\* choice is not made again when it gets it.
LinkCommit(o) ==
    LET fill == tx[o].fill IN
    /\ tx[o].op = "link"
    /\ fill # Null => DealFree(o, fill)
    /\ deals' = IF fill # Null /\ Live(fill)
                THEN [deals EXCEPT ![fill].product = tx[o].product]
                ELSE deals
    /\ conversion' = [conversion EXCEPT ![tx[o].org] = tx[o].product]
    /\ End(o)
    /\ UNCHANGED <<organisations, contacts, suppressions, register, forgotten, hashKey,
                   outreach, stageLog, checkRaised>>

(***************************************************************************)
(* Creation, deletion, time                                                *)
(***************************************************************************)

\* An import creates a deal with each organisation; createOrganisation may.
NewDeal(org) == [org |-> org, stage |-> "new", product |-> Null,
                 voided |-> FALSE, next |-> "none"]

DealsOfNewOrganisations(orgs) ==
    \E ids \in [orgs -> {d \in Deals : ~Live(d)}] :
        /\ \A a, b \in orgs : a # b => ids[a] # ids[b]
        /\ deals' = [d \in Deals |->
              IF \E org \in orgs : ids[org] = d
              THEN NewDeal(CHOOSE org \in orgs : ids[org] = d)
              ELSE deals[d]]

\* A new sale to an organisation the CRM knows: a row of its own, whatever
\* became of the earlier ones.
CreateOpportunity(o, org, product) ==
    /\ MayBegin(o, "createOpportunity")
    /\ org \in organisations
    /\ \E d \in Deals :
          /\ ~Live(d)
          /\ deals' = [deals EXCEPT ![d] = [NewDeal(org) EXCEPT !.product = product]]
    /\ AtOnce(o)
    /\ UNCHANGED <<organisations, contacts, suppressions, register, forgotten, hashKey,
                   outreach, stageLog, conversion, checkRaised>>

PeopleStep(o) ==
    /\ ContactStep(o)
    /\ LET orgs == organisations' \ organisations IN
          \/ orgs # {} /\ DealsOfNewOrganisations(orgs)
          \/ tx[o].op # "import" /\ deals' = deals
          \/ orgs = {} /\ deals' = deals
    /\ UNCHANGED <<stageLog, conversion, checkRaised>>

\* The rows are deleted one statement after another; it waits for held rows.
DeleteOrganisation(o, org) ==
    /\ MayBegin(o, "delete")
    /\ org \in organisations
    /\ \A c \in ContactsOf(org) : ContactFree(o, c)
    /\ \A d \in DealsOf(org) : DealFree(o, d)
    /\ \A p \in Operators : tx[p].op = "link" => tx[p].org # org
    /\ organisations' = organisations \ {org}
    /\ contacts' = [c \in Contacts |-> IF c \in ContactsOf(org) THEN Null ELSE contacts[c]]
    /\ outreach' = {dm \in outreach : dm.contact \notin ContactsOf(org)}
    /\ deals' = [d \in Deals |-> IF d \in DealsOf(org) THEN Null ELSE deals[d]]
    /\ stageLog' = [d \in Deals |-> IF d \in DealsOf(org) THEN <<>> ELSE stageLog[d]]
    /\ conversion' = [conversion EXCEPT ![org] = Null]
    /\ AtOnce(o)
    /\ UNCHANGED <<suppressions, register, forgotten, hashKey, checkRaised>>

\* A follow-up's date comes.
DateComes(d) ==
    /\ Live(d)
    /\ deals[d].next \in {"default", "planned"}
    /\ DealFree(Null, d)
    /\ deals' = [deals EXCEPT ![d].next = "due"]
    /\ UNCHANGED <<contactVars, stageLog, conversion, checkRaised>>

(***************************************************************************)
(* The specification                                                       *)
(***************************************************************************)

DealStep(o) ==
    \/ \E d \in Deals, to \in Stages, product \in Products \cup {Null} :
          AdvanceStageLock(o, d, to, product)
    \/ AdvanceStageWrite(o)
    \/ \E d \in Deals, at \in {"none", "planned"} : SetNextActionLock(o, d, at)
    \/ SetNextActionWrite(o)
    \/ \E d \in Deals : VoidLock(o, d) \/ RestoreLock(o, d)
    \/ VoidWrite(o)
    \/ RestoreWrite(o)
    \/ DealRefused(o)
    \/ \E org \in Organisations, deal \in Deals \cup {Null},
          kind \in {"outbound", "inbound"} : LogCheck(o, org, deal, kind)
    \/ LogRefused(o)
    \/ LogWrite(o)
    \/ \E org \in Organisations, c \in Contacts, edited \in BOOLEAN :
          DmCheckSuppression(o, org, c, edited)
    \/ DmCheckContact(o)
    \/ DmRefused(o)
    \/ DmWrite(o)
    \/ \E org \in Organisations, product \in Products :
          LinkOrganisation(o, org, product)
    \/ LinkCommit(o)
    \/ \E org \in Organisations, product \in Products \cup {Null} :
          CreateOpportunity(o, org, product)
    \/ \E org \in Organisations : DeleteOrganisation(o, org)

Init ==
    /\ ContactsInit
    /\ deals = desk.deals
    /\ stageLog = [d \in Deals |-> <<>>]
    /\ conversion = [org \in Organisations |-> Null]
    /\ checkRaised = FALSE

Next ==
    \/ \E o \in Operators : PeopleStep(o) \/ DealStep(o)
    \/ \E d \in Deals : DateComes(d)

Spec == Init /\ [][Next]_vars

(***************************************************************************)
(* What should hold                                                        *)
(***************************************************************************)

\* Every variable stays in its set.
TypeOK ==
    /\ ContactsTypeOK
    /\ deals \in [Deals -> Deal \cup {Null}]
    /\ conversion \in [Organisations -> Products \cup {Null}]
    /\ checkRaised \in BOOLEAN

\* An import brings back nobody who was forgotten before it began, whatever
\* the deployment's hash key does between the erasure and the import: the
\* per-row check of commitImport and the guard of erasureCheckGuard.  (Of the
\* keys an erasure destroys, those it read: see ErasuresAreRecorded.)
ImportSparesTheForgotten ==
    \A o \in Operators :
        tx[o].op = "import" => ~Matches(CreatedKeys(o), tx[o].seen)

\* eraseContact's comment: the values hashed are those that stood before the
\* statement nulled them, and there is no window in which a contact is erased
\* but unrecorded.
ErasuresAreRecorded == {f.key : f \in forgotten} \subseteq register

\* Text an operator wrote to somebody since erased is on the list a human
\* works through (eraseContact's erasure_pending_review): only a DM whose
\* checks passed before the erasure, and which was written after it, is not.
ResidualSurfaced ==
    \A dm \in outreach :
        /\ dm.edited
        /\ contacts[dm.contact] # Null
        /\ contacts[dm.contact].erased
        => dm.pendingReview \/ dm.late

\* The stage_change rows of a deal are the history of its stage: each starts
\* where the one before it ended, the last one ends at the stage the deal has
\* now.  advanceStage reads the row it writes about under its lock, and the
\* outreach log advances it inside its own transaction.
StageLogChains ==
    \A d \in Deals : Live(d) /\ stageLog[d] # <<>> =>
        /\ \A i \in 1..Len(stageLog[d]) - 1 :
              stageLog[d][i + 1][1] = stageLog[d][i][2]
        /\ stageLog[d][Len(stageLog[d])][2] = deals[d].stage

\* No operation runs into the CHECK that migrated deals (won, without a
\* product) break: each one refuses or skips them first, so neither an
\* outreach log nor a void fails on a raw constraint violation.
NoRawCheckViolation == ~checkRaised

\* A deal taken out of the funnel stays as it was until it is restored: no
\* stage move, no schedule, no clock of an organisation-wide log reaches it,
\* however its transaction overlaps with the void.  (linkConversion may still
\* give it a product it chose to fill before the void.)
VoidedDealsRest ==
    [][\A d \in Deals :
          /\ Live(d) /\ deals[d].voided
          /\ deals'[d] # Null /\ deals'[d].voided
          => /\ deals'[d].stage = deals[d].stage
             /\ deals'[d].next \in {deals[d].next, "due"}]_vars
=============================================================================
