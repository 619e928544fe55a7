----------------------------- MODULE Categories -----------------------------
(***************************************************************************)
(* Categories and the scenarios that name them (routes/categories.js,      *)
(* catalog-admin.js, archives.js, bulk.js), statement by statement.        *)
(* scenarios.category has no foreign key, so what keeps the two tables     *)
(* together is which rows each route locks, and in which order.  A route   *)
(* is a transaction of READ COMMITTED statements: a statement waits for    *)
(* the locks in its way and sees what is committed; what a transaction     *)
(* writes appears at its last statement, which is its commit here.         *)
(***************************************************************************)
EXTENDS Naturals

CONSTANTS
    Scenarios, Slugs, Labels,
    SlugAsLabel,   \* the label a category gets from a PUT that sends none
    Transactions,  \* requests of a run, each served once
    Absent,        \* no such row
    Unsaid         \* a field the request does not send

(* locked: the category row was locked while this was written. *)
ScenarioRow == [category : Slugs, label : Labels, locked : BOOLEAN]

ASSUME CategoriesAssumption ==
    /\ SlugAsLabel \in Labels
    /\ Absent \notin Labels \cup ScenarioRow \cup {Unsaid} /\ Unsaid \notin Labels \cup Slugs

VARIABLES
    category,   \* category[c]: the label of c in `categories`
    scenario,   \* scenario[s]: category, category_label
    tx

tablesVars == <<category, scenario, tx>>

Routes == {"put", "putByAuthor", "create", "createByAuthor", "fromArchive", "setCategory",
           "deleteScenario", "addCategory", "putCategory", "deleteCategory"}

(* row: holds s FOR UPDATE.  hold: on c, FOR SHARE, FOR UPDATE or an uncommitted write. *)
Transaction == [route : Routes, step : {"begun", "locked", "checked"},
                s : Scenarios, c : Slugs \cup {Unsaid}, label : Labels \cup {Unsaid},
                row : BOOLEAN, hold : {"none", "share", "update", "written"}]

Waiting == [step |-> "waiting", row |-> FALSE, hold |-> "none"]
Done == [step |-> "done", row |-> FALSE, hold |-> "none"]

TablesTypeOK ==
    /\ category \in [Slugs -> Labels \cup {Absent}]
    /\ scenario \in [Scenarios -> ScenarioRow \cup {Absent}]
    /\ tx \in [Transactions -> Transaction \cup {Waiting, Done}]

(* Any two tables: a category may be missing and a label may differ, both by design. *)
TablesInit ==
    /\ category \in [Slugs -> Labels \cup {Absent}]
    /\ scenario \in [Scenarios -> [category : Slugs, label : Labels, locked : {FALSE}] \cup {Absent}]
    /\ tx = [t \in Transactions |-> Waiting]

-----------------------------------------------------------------------------
(* Requests *)

Begun(route, s, c, l) ==
    [route |-> route, step |-> "begun", s |-> s, c |-> c, label |-> l,
     row |-> FALSE, hold |-> "none"]

(* What the routes take.  An author's creation and from-archive look the category up *)
(* before their transaction, and from-archive keeps the label it found.              *)
Begin(t, route, s, c, l) ==
    /\ tx[t] = Waiting
    /\ \/ route = "put" /\ (c # Unsaid \/ l # Unsaid)
       \/ route \in {"create", "addCategory", "putCategory"} /\ c # Unsaid /\ l # Unsaid
       \/ route = "createByAuthor" /\ c # Unsaid /\ l = Unsaid /\ category[c] # Absent
       \/ route = "fromArchive" /\ c # Unsaid /\ l = category[c]
       \/ route \in {"putByAuthor", "setCategory", "deleteScenario", "deleteCategory"}
          /\ c # Unsaid /\ l = Unsaid
    /\ tx' = [tx EXCEPT ![t] = Begun(route, s, c, l)]
    /\ UNCHANGED <<category, scenario>>

Running(t) == tx[t].step \notin {"waiting", "done"}

-----------------------------------------------------------------------------
(* Locks *)

At(t, route, step) == tx[t].step = step /\ tx[t].route = route

InCategory(c) == {s \in Scenarios : scenario[s] # Absent /\ scenario[s].category = c}

(* The scenario rows the next statement of t locks or writes. *)
RowsWanted(t) ==
    IF \/ At(t, "put", "begun") \/ At(t, "putByAuthor", "begun")
       \/ At(t, "deleteScenario", "begun") \/ At(t, "setCategory", "locked")
    THEN {tx[t].s}
    ELSE IF At(t, "putCategory", "locked") THEN InCategory(tx[t].c) ELSE {}

(* What it waits for on the category row: an insert that may conflict waits for a write only. *)
HoldsInTheWay(t) ==
    IF At(t, "put", "locked") \/ At(t, "create", "begun") \/ At(t, "addCategory", "begun")
    THEN {"written"}
    ELSE IF At(t, "setCategory", "begun") THEN {"update", "written"}
    ELSE IF At(t, "putCategory", "begun") \/ At(t, "deleteCategory", "begun")
    THEN {"share", "update", "written"}
    ELSE {}

WaitsFor(t, u) ==
    /\ u # t /\ Running(t)
    /\ \/ tx[u].row /\ tx[u].s \in RowsWanted(t)
       \/ tx[u].hold \in HoldsInTheWay(t) /\ tx[u].c = tx[t].c

Waits(t) == \E u \in Transactions : WaitsFor(t, u)

-----------------------------------------------------------------------------
(* Refusals *)

(* 400, 404 and 409: what the next statement of t finds makes it roll back. *)
IsRefused(t) ==
    LET gone == scenario[tx[t].s] = Absent
        unknown == category[tx[t].c] = Absent
    IN \/ At(t, "put", "begun") /\ gone
       \/ At(t, "putByAuthor", "begun") /\ gone
       \/ At(t, "putByAuthor", "locked") /\ unknown
       \/ At(t, "create", "checked") /\ ~gone
       \/ At(t, "createByAuthor", "begun") /\ (unknown \/ ~gone)   \* category_label is NOT NULL
       \/ At(t, "fromArchive", "begun") /\ ~gone
       \/ At(t, "setCategory", "begun") /\ unknown
       \/ At(t, "setCategory", "locked") /\ gone
       \/ At(t, "deleteScenario", "begun") /\ gone
       \/ At(t, "addCategory", "begun") /\ ~unknown
       \/ At(t, "putCategory", "begun") /\ unknown
       \/ At(t, "deleteCategory", "begun") /\ unknown
       \/ At(t, "deleteCategory", "locked") /\ InCategory(tx[t].c) # {}

(* Slip: a refusal leaves without ROLLBACK, and the locks with it. *)
EndedHoldingLocks(t) == [tx EXCEPT ![t].step = "done"]

Ended(t) == [tx EXCEPT ![t] = Done]

Refuse(t) ==
    /\ Running(t) /\ ~Waits(t)
    /\ IsRefused(t)
    /\ tx' = Ended(t)
    /\ UNCHANGED <<category, scenario>>

(* A query fails, or the process stops. *)
Fail(t) ==
    /\ Running(t)
    /\ tx' = [tx EXCEPT ![t] = Done]
    /\ UNCHANGED <<category, scenario>>

(* PostgreSQL aborts one of the transactions that wait for each other. *)
DeadlockAbort(t) ==
    /\ Waits(t)
    /\ \E D \in SUBSET Transactions :
          t \in D /\ \A d \in D : \E u \in D : WaitsFor(d, u)
    /\ tx' = [tx EXCEPT ![t] = Done]
    /\ UNCHANGED <<category, scenario>>

-----------------------------------------------------------------------------
(* Statements before the last one *)

Proceeds(t) == Running(t) /\ ~Waits(t) /\ ~IsRefused(t)

(* SELECT ... FOR UPDATE of the scenario. *)
LockRow(t) ==
    /\ At(t, "put", "begun") \/ At(t, "putByAuthor", "begun")
    /\ Proceeds(t)
    /\ tx' = [tx EXCEPT ![t].step = "locked", ![t].row = TRUE]
    /\ UNCHANGED <<category, scenario>>

(* ensureCategory: INSERT ... ON CONFLICT DO NOTHING, which locks nothing that exists. *)
EnsureCategory(t) ==
    /\ At(t, "put", "locked") \/ At(t, "create", "begun")
    /\ Proceeds(t)
    /\ tx' = [tx EXCEPT ![t].step = "checked",
                        ![t].hold = IF tx[t].c # Unsaid /\ category[tx[t].c] = Absent
                                    THEN "written" ELSE "none"]
    /\ UNCHANGED <<category, scenario>>

(* categoryExists: a plain SELECT. *)
CategoryExists(t) ==
    /\ At(t, "putByAuthor", "locked")
    /\ Proceeds(t)
    /\ tx' = [tx EXCEPT ![t].step = "checked"]
    /\ UNCHANGED <<category, scenario>>

(* Slip: FOR SHARE is forgotten. *)
ReadWithoutShare(t) ==
    [tx EXCEPT ![t].step = "locked", ![t].label = category[tx[t].c]]

ReadForShare(t) ==
    [tx EXCEPT ![t].step = "locked", ![t].hold = "share", ![t].label = category[tx[t].c]]

ShareCategory(t) ==
    /\ At(t, "setCategory", "begun")
    /\ Proceeds(t)
    /\ tx' = ReadForShare(t)
    /\ UNCHANGED <<category, scenario>>

(* UPDATE categories: the new label, not committed yet. *)
RenameCategory(t) ==
    /\ At(t, "putCategory", "begun")
    /\ Proceeds(t)
    /\ tx' = [tx EXCEPT ![t].step = "locked", ![t].hold = "written"]
    /\ UNCHANGED <<category, scenario>>

(* Slip: the DELETE looks for the category without FOR UPDATE. *)
ReadWithoutUpdate(t) == [tx EXCEPT ![t].step = "locked"]

ReadForUpdate(t) == [tx EXCEPT ![t].step = "locked", ![t].hold = "update"]

LockCategory(t) ==
    /\ At(t, "deleteCategory", "begun")
    /\ Proceeds(t)
    /\ tx' = ReadForUpdate(t)
    /\ UNCHANGED <<category, scenario>>

(* SELECT COUNT found none. *)
CountScenarios(t) ==
    /\ At(t, "deleteCategory", "locked")
    /\ Proceeds(t)
    /\ tx' = [tx EXCEPT ![t].step = "checked"]
    /\ UNCHANGED <<category, scenario>>

-----------------------------------------------------------------------------
(* Last statements, and the commit *)

(* An inserted category is committed with the rest. *)
CategoryOf(t) ==
    IF tx[t].hold # "written" THEN category
    ELSE [category EXCEPT ![tx[t].c] = IF tx[t].label = Unsaid THEN SlugAsLabel ELSE tx[t].label]

(* UPDATE scenarios with the fields that were sent. *)
WriteFields(t) ==
    /\ At(t, "put", "checked") \/ At(t, "putByAuthor", "checked")
    /\ Proceeds(t)
    /\ scenario' = [scenario EXCEPT ![tx[t].s] =
                      [category |-> IF tx[t].c = Unsaid THEN @.category ELSE tx[t].c,
                       label |-> IF tx[t].label = Unsaid THEN @.label ELSE tx[t].label,
                       locked |-> FALSE]]
    /\ category' = CategoryOf(t)
    /\ tx' = Ended(t)

(* INSERT INTO scenarios; an author's row takes the label the category has now. *)
InsertScenario(t) ==
    /\ At(t, "create", "checked") \/ At(t, "createByAuthor", "begun") \/ At(t, "fromArchive", "begun")
    /\ Proceeds(t)
    /\ scenario' = [scenario EXCEPT ![tx[t].s] =
                      [category |-> tx[t].c,
                       label |-> IF tx[t].label = Unsaid THEN category[tx[t].c] ELSE tx[t].label,
                       locked |-> FALSE]]
    /\ category' = CategoryOf(t)
    /\ tx' = Ended(t)

(* bulk.js set-category, one id. *)
SetCategory(t) ==
    /\ At(t, "setCategory", "locked")
    /\ Proceeds(t)
    /\ scenario' = [scenario EXCEPT ![tx[t].s] =
                      [category |-> tx[t].c, label |-> tx[t].label, locked |-> TRUE]]
    /\ tx' = Ended(t)
    /\ UNCHANGED category

DeleteScenario(t) ==
    /\ At(t, "deleteScenario", "begun")
    /\ Proceeds(t)
    /\ scenario' = [scenario EXCEPT ![tx[t].s] = Absent]
    /\ tx' = Ended(t)
    /\ UNCHANGED category

AddCategory(t) ==
    /\ At(t, "addCategory", "begun")
    /\ Proceeds(t)
    /\ category' = [category EXCEPT ![tx[t].c] = tx[t].label]
    /\ tx' = Ended(t)
    /\ UNCHANGED scenario

(* "Keep it in step": the scenarios' own copies follow in the same transaction. *)
RelabelScenarios(t) ==
    /\ At(t, "putCategory", "locked")
    /\ Proceeds(t)
    /\ category' = CategoryOf(t)
    /\ scenario' = [s \in Scenarios |-> IF s \in InCategory(tx[t].c)
                                        THEN [scenario[s] EXCEPT !.label = tx[t].label]
                                        ELSE scenario[s]]
    /\ tx' = Ended(t)

DeleteCategory(t) ==
    /\ At(t, "deleteCategory", "checked")
    /\ Proceeds(t)
    /\ category' = [category EXCEPT ![tx[t].c] = Absent]
    /\ tx' = Ended(t)
    /\ UNCHANGED scenario

-----------------------------------------------------------------------------

Step(t) ==
    \/ LockRow(t) \/ EnsureCategory(t) \/ CategoryExists(t) \/ ShareCategory(t)
    \/ RenameCategory(t) \/ LockCategory(t) \/ CountScenarios(t)
    \/ WriteFields(t) \/ InsertScenario(t) \/ SetCategory(t) \/ DeleteScenario(t)
    \/ AddCategory(t) \/ RelabelScenarios(t) \/ DeleteCategory(t)
    \/ Refuse(t) \/ DeadlockAbort(t)

TablesNext ==
    \E t \in Transactions :
        \/ \E route \in Routes, s \in Scenarios, c \in Slugs \cup {Unsaid},
              l \in Labels \cup {Unsaid} : Begin(t, route, s, c, l)
        \/ Step(t) \/ Fail(t)

TablesSpec == TablesInit /\ [][TablesNext]_tablesVars

(* A statement that waits for no lock runs. *)
FairTablesSpec == TablesSpec /\ \A t \in Transactions : WF_tablesVars(Step(t))

-----------------------------------------------------------------------------
(* Correctness *)

(***************************************************************************)
(* Where the category row was locked (FOR SHARE) while a scenario was      *)
(* moved into it, the scenario's own label is the category's, through      *)
(* renames, deletions and every other route running at the same time; in   *)
(* particular the category is there.                                       *)
(***************************************************************************)
LockedMovesStayInStep ==
    \A s \in Scenarios :
        scenario[s] # Absent /\ scenario[s].locked
            => category[scenario[s].category] = scenario[s].label

(***************************************************************************)
(* Every transaction ends.  catalog PUT locks scenario then category, a    *)
(* category's PUT the other way round: they can wait for each other, and   *)
(* only the database's deadlock detection ends it.                         *)
(***************************************************************************)
EveryTransactionEnds ==
    \A t \in Transactions : Running(t) ~> tx[t] = Done

(***************************************************************************)
(* What is committed could have been done by one route at a time, each on  *)
(* the tables it finds: what a transaction checked or copied while it held *)
(* a lock is so when it commits.  A deletion counts on locked moves only:  *)
(* its COUNT is not protected against routes that lock no category.        *)
(***************************************************************************)
Tables == INSTANCE CategoryTables

OneRouteAtATime == Tables!Spec

=============================================================================
