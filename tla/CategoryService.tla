-------------------------- MODULE CategoryService --------------------------
(***************************************************************************)
(* The write path of the category API: createCategoryForUser,              *)
(* updateCategoryForUser and deleteCategoryForUser of                      *)
(* apps/api/src/services/category.service.ts, with the default catalog     *)
(* that every call first makes sure of (ledger.service.ts).  No version    *)
(* protects a category: a handler reads it, checks, and saves the entity   *)
(* it has read, each in a statement of its own.                            *)
(***************************************************************************)
EXTENDS Naturals

CONSTANTS
  Spaces, Names,
  Looks,        \* spelling of the name, colour and icon
  ClientIds,    \* identifiers clients name
  SeedIds,      \* identifiers the database makes up
  DefaultName,  \* the one category of the default catalog
  DefaultLook,
  Requests, Calls,
  NoId,         \* the payload carries no identifier
  Keep,         \* a field the update payload leaves undefined
  Absent,       \* there is no row
  NoCall

Ids  == ClientIds \cup SeedIds
Rows == [space : Spaces, name : Names, look : Looks, default : BOOLEAN, deleted : BOOLEAN]

CategoryCalls ==
  [op : {"create"}, space : Spaces, id : ClientIds \cup {NoId}, name : Names, look : Looks]
    \cup [op : {"update"}, space : Spaces, id : Ids, name : Names \cup {Keep},
          look : Looks \cup {Keep}]
    \cup [op : {"delete"}, space : Spaces, id : Ids]

\* What is assumed of the constants.
CategoryData ==
  /\ DefaultName \in Names /\ DefaultLook \in Looks
  /\ Calls \subseteq CategoryCalls /\ NoCall \notin Calls
  /\ NoId \notin Ids /\ Absent \notin Rows

VARIABLES
  catalog,  \* table categories: Ids -> Rows or Absent
  uses,     \* what the rows of expenses say of categories
  pc,       \* pc[q]: the await request q stands at
  call,     \* call[q]: its payload
  entity,   \* entity[q]: the entity it is to save, or Absent
  found,    \* found[q]: the row its save has found, or Absent
  reply     \* reply[q]: what its client was answered

vars  == <<catalog, uses, pc, call, entity, found, reply>>
local == <<call, entity, found>>

Uses == [category : Ids, space : Spaces, live : BOOLEAN]
PCs  == {"idle", "count", "seed", "byId", "checkName", "read", "countUses", "find",
         "write", "byIdAgain", "done"}
Statuses == {"none", "ok", "conflict", "notFound", "refused", "error", "lost"}

TypeOK ==
  /\ catalog \in [Ids -> Rows \cup {Absent}]
  /\ uses \subseteq Uses
  /\ pc \in [Requests -> PCs]
  /\ call \in [Requests -> Calls \cup {NoCall}]
  /\ entity \in [Requests -> Rows \cup {Absent}]
  /\ found \in [Requests -> Rows \cup {Absent}]
  /\ reply \in [Requests -> Statuses]

Init ==
  /\ catalog = [c \in Ids |-> Absent]
  /\ uses = {}
  /\ pc = [q \in Requests |-> "idle"]
  /\ call = [q \in Requests |-> NoCall]
  /\ entity = [q \in Requests |-> Absent]
  /\ found = [q \in Requests |-> Absent]
  /\ reply = [q \in Requests |-> "none"]

-----------------------------------------------------------------------------
Goto(q, label) == pc' = [pc EXCEPT ![q] = label] /\ UNCHANGED reply

Answer(q, status) ==
  /\ pc' = [pc EXCEPT ![q] = "done"]
  /\ reply' = [reply EXCEPT ![q] = status]

In(space)   == {c \in Ids : catalog[c] # Absent /\ catalog[c].space = space}
Live(space) == {c \in In(space) : ~catalog[c].deleted}

\* A live category of the space, another one than id, has the name: what the handlers' own
\* check and the index UQ_categories_couple_name_active both ask.
NameTaken(space, name, id) == \E c \in Live(space) \ {id} : catalog[c].name = name

\* What a handler does after its space has been resolved.
Begin(q) == IF call[q].op # "create" THEN "read"
            ELSE IF call[q].id # NoId THEN "byId" ELSE "checkName"

Receive(q) ==
  /\ pc[q] = "idle"
  /\ \E c \in Calls : call' = [call EXCEPT ![q] = c]
  /\ Goto(q, "count")
  /\ UNCHANGED <<catalog, uses, entity, found>>

\* ensureDefaultCategoriesForCouple counts rows, deleted or not, ...
CountRows(q) ==
  /\ pc[q] = "count"
  /\ Goto(q, IF In(call[q].space) = {} THEN "seed" ELSE Begin(q))
  /\ UNCHANGED <<catalog, uses, local>>

\* ... and inserts the default catalog into a space that has none.
SeedDefaults(q) ==
  /\ pc[q] = "seed"
  /\ \/ /\ ~NameTaken(call[q].space, DefaultName, NoId)
        /\ \E c \in SeedIds :
             /\ catalog[c] = Absent
             /\ catalog' = [catalog EXCEPT ![c] =
                  [space |-> call[q].space, name |-> DefaultName, look |-> DefaultLook,
                   default |-> TRUE, deleted |-> FALSE]]
        /\ Goto(q, Begin(q))
     \/ /\ NameTaken(call[q].space, DefaultName, NoId)
        /\ Answer(q, "error")
        /\ UNCHANGED catalog
  /\ UNCHANGED <<uses, local>>

-----------------------------------------------------------------------------
(* createCategoryForUser                                                   *)

\* The new entity: its deletedAt stays undefined, which no save writes.
NewRow(c) == [space |-> c.space, name |-> c.name, look |-> c.look,
              default |-> FALSE, deleted |-> FALSE]

\* resolveCreateReplay
ResolveReplay(q) ==
  Answer(q, IF catalog[call[q].id] = NewRow(call[q]) THEN "ok" ELSE "conflict")

\* The lookup by id, before anything else and in the catch clause: by id only,
\* in any space, tombstones included.
FindById(q) ==
  /\ pc[q] \in {"byId", "byIdAgain"}
  /\ IF catalog[call[q].id] # Absent THEN ResolveReplay(q)
     ELSE IF pc[q] = "byId" THEN Goto(q, "checkName")
     ELSE Answer(q, "error")
  /\ UNCHANGED <<catalog, uses, local>>

CheckNewName(q) ==
  /\ pc[q] = "checkName" /\ call[q].op = "create"
  /\ IF NameTaken(call[q].space, call[q].name, NoId)
     THEN Answer(q, "conflict") /\ UNCHANGED entity
     ELSE Goto(q, "find") /\ entity' = [entity EXCEPT ![q] = NewRow(call[q])]
  /\ UNCHANGED <<catalog, uses, call, found>>

-----------------------------------------------------------------------------
(* updateCategoryForUser and deleteCategoryForUser                         *)

ReadCategory(q) ==
  /\ pc[q] = "read"
  /\ IF call[q].id \notin Live(call[q].space)
     THEN Answer(q, "notFound") /\ UNCHANGED entity
     ELSE IF call[q].op = "delete" /\ catalog[call[q].id].default
     THEN Answer(q, "refused") /\ UNCHANGED entity
     ELSE /\ Goto(q, IF call[q].op = "update" THEN "checkName" ELSE "countUses")
          /\ entity' = [entity EXCEPT ![q] = catalog[call[q].id]]
  /\ UNCHANGED <<catalog, uses, call, found>>

Changed(c, row) == [row EXCEPT !.name = IF c.name = Keep THEN @ ELSE c.name,
                               !.look = IF c.look = Keep THEN @ ELSE c.look]

CheckChangedName(q) ==
  LET c == call[q] IN
  /\ pc[q] = "checkName" /\ c.op = "update"
  /\ IF c.name \notin {Keep, entity[q].name} /\ NameTaken(c.space, c.name, c.id)
     THEN Answer(q, "conflict") /\ UNCHANGED entity
     ELSE Goto(q, "find") /\ entity' = [entity EXCEPT ![q] = Changed(c, @)]
  /\ UNCHANGED <<catalog, uses, call, found>>

\* Mutant: the deletion does not look at expenses.
UnusedUnchecked(id) == TRUE

\* No live expense names the category.
Unused(id) == \A u \in uses : u.category = id => ~u.live

CountUses(q) ==
  /\ pc[q] = "countUses"
  /\ IF Unused(call[q].id)
     THEN Goto(q, "find") /\ entity' = [entity EXCEPT ![q].deleted = TRUE]
     ELSE Answer(q, "refused") /\ UNCHANGED entity
  /\ UNCHANGED <<catalog, uses, call, found>>

-----------------------------------------------------------------------------
(* TypeORM's save: a SELECT by id, then an INSERT if there was no row, or   *)
(* an UPDATE of the columns in which the entity differs from the row.       *)

FindForSave(q) ==
  /\ pc[q] = "find"
  /\ found' = [found EXCEPT ![q] = IF call[q].id = NoId THEN Absent ELSE catalog[call[q].id]]
  /\ Goto(q, "write")
  /\ UNCHANGED <<catalog, uses, call, entity>>

\* A new entity says nothing of deletedAt.
Defined(q, k) == ~(k = "deleted" /\ call[q].op = "create")

SavedRow(q, id) ==
  IF found[q] = Absent THEN entity[q]
  ELSE [k \in DOMAIN entity[q] |->
          IF Defined(q, k) /\ entity[q][k] # found[q][k] THEN entity[q][k]
          ELSE catalog[id][k]]

\* Mutant: there is no unique index on names.
KeyTaken(q, id, row) == found[q] = Absent /\ catalog[id] # Absent

\* The INSERT meets a row committed after the SELECT, or a name is taken.
NotUnique(q, id, row) ==
  \/ found[q] = Absent /\ catalog[id] # Absent
  \/ ~row.deleted /\ NameTaken(row.space, row.name, id)

\* Mutant: expenses reference a category by its id only.
NeverStranded(id, space) == FALSE

\* FK_expenses_category_couple: expenses keep their category in their space.
Stranded(id, space) == \E u \in uses : u.category = id /\ u.space # space

SaveIds(q) == IF call[q].id # NoId THEN {call[q].id}
              ELSE {c \in SeedIds : catalog[c] = Absent}

Write(q) ==
  /\ pc[q] = "write"
  /\ \E id \in SaveIds(q) :
       LET row == SavedRow(q, id) IN
       \/ /\ ~NotUnique(q, id, row) /\ ~Stranded(id, row.space)
          /\ catalog' = [catalog EXCEPT ![id] = row]
          /\ Answer(q, "ok") \/ Answer(q, "error")   \* not acknowledged
       \/ /\ NotUnique(q, id, row)
          /\ IF call[q].op = "create" /\ call[q].id # NoId THEN Goto(q, "byIdAgain")
             ELSE Answer(q, "error")
          /\ UNCHANGED catalog
       \/ Answer(q, "error") /\ UNCHANGED catalog    \* rolled back
  /\ UNCHANGED <<uses, local>>

-----------------------------------------------------------------------------
Crash(q) ==
  /\ pc[q] \notin {"idle", "done"}
  /\ Answer(q, "lost")
  /\ UNCHANGED <<catalog, uses, local>>

Step(q) ==
  \/ Receive(q) \/ CountRows(q) \/ SeedDefaults(q) \/ FindById(q) \/ CheckNewName(q)
  \/ ReadCategory(q) \/ CheckChangedName(q) \/ CountUses(q) \/ FindForSave(q)
  \/ Write(q) \/ Crash(q)

\* The expense service changes its rows; the foreign key lets an expense name
\* a category of its own space only.
ChangeUses ==
  /\ UNCHANGED <<catalog, pc, local, reply>>
  /\ uses' \in SUBSET Uses
  /\ \A u \in uses' : u.category \in In(u.space)

Next == (\E q \in Requests : Step(q)) \/ ChangeUses

Spec == Init /\ [][Next]_vars

-----------------------------------------------------------------------------
(* Properties                                                              *)

\* No two active categories of a space have one name, whatever a save of a
\* stale entity renames or brings back from the deleted.
ActiveNamesUnique ==
  \A space \in Spaces : \A c, d \in Live(space) : catalog[c].name = catalog[d].name => c = d
=============================================================================
