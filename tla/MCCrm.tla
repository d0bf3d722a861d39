------------------------------- MODULE MCCrm -------------------------------
(***************************************************************************)
(* A small CRM: one organisation with two contacts, room for a second one. *)
(* Each desk is a set of operations that two operators run side by side on *)
(* the data it starts from.  At the last desk an operator reads: the pages *)
(* of a list are turned while its rows are written, and people and deals   *)
(* stand still.                                                            *)
(***************************************************************************)
EXTENDS Crm, KeysetPaging, TLC

CONSTANTS o1, o2, g1, g2, c1, c2, c3, k1, k2, d1, d2

MCContacts ==
    c1 :> [org |-> g1, keys |-> {k1}, primary |-> TRUE, erased |-> FALSE,
           source |-> "manual"]
    @@ c2 :> [org |-> g1, keys |-> {}, primary |-> FALSE, erased |-> FALSE,
              source |-> "manual"]
    @@ c3 :> Null

\* A deal migrated as won, without a product, and a new one.
MCDeals ==
    d1 :> [org |-> g1, stage |-> "won", product |-> Null, voided |-> FALSE,
           next |-> "none"]
    @@ d2 :> [org |-> g1, stage |-> "new", product |-> Null, voided |-> FALSE,
              next |-> "planned"]

\* The new one was migrated as qualified, without a product.
MCMigrated == [MCDeals EXCEPT ![d2].stage = "qualified"]

NoDeals == d1 :> Null @@ d2 :> Null

\* People: every operation on a contact, and the DMs they receive.
People == [ops |-> {"suppress", "erase", "create", "updateContact",
                    "setPrimaryContact", "import", "redeploy", "dm",
                    "createOpportunity"},
           contacts |-> MCContacts, deals |-> NoDeals]

\* Forgetting: an erasure waits for a row that is corrected, or deleted.
Forgetting == [ops |-> {"erase", "updateContact", "delete"},
               contacts |-> MCContacts, deals |-> NoDeals]

\* Funnel: every operation on a deal, with the outreach that moves them.
Funnel == [ops |-> {"advanceStage", "setNextAction", "void", "restore",
                    "logActivity", "dm", "link", "delete"},
           contacts |-> MCContacts, deals |-> MCDeals]

\* Migrated: the same on deals of the old system.
Migrated == [Funnel EXCEPT !.deals = MCMigrated]

\* Reading: no operation but those of KeysetPaging.
Reading == [ops |-> {}, contacts |-> [c \in Contacts |-> Null], deals |-> NoDeals]

MCErasure == {Forgetting}
MCReading == {Reading}
MCDesks == {People, Forgetting, Funnel, Migrated, Reading}

\* A file that names a known person, and one that names a person twice.
MCFiles == {<<{k1}>>, <<{k2}, {k2}>>}

\* The console's: a queue whose dates operators planned, in milliseconds; the
\* same of dates that now() gave it (due queue, up), and a list of what it
\* closed or created (down).  A queue and the tickets of the API.  Instants
\* that one millisecond holds are 2 and 3 (PerMilli = 2).
MCLists == {NoValue,
            [console |-> TRUE, descending |-> FALSE, instants |-> {2, 4}],
            [console |-> TRUE, descending |-> FALSE, instants |-> {2, 3}],
            [console |-> TRUE, descending |-> TRUE, instants |-> {2, 3}],
            [console |-> FALSE, descending |-> FALSE, instants |-> {2, 3}],
            [console |-> FALSE, descending |-> TRUE, instants |-> {2, 3}]}

\* The due queue with the dates that a batch wrote.
MCDueQueue == {[console |-> TRUE, descending |-> FALSE, instants |-> {2, 3}]}

MCInit ==
    /\ Init
    /\ ListInit
    /\ list # NoValue <=> desk = Reading

MCNext ==
    \/ Next /\ UNCHANGED listVars
    \/ ListNext /\ UNCHANGED vars

MCSpec == MCInit /\ [][MCNext]_<<vars, listVars>>
=============================================================================
