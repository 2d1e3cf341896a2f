----------------------- MODULE ExpenseCategoriesProofs -----------------------
(***************************************************************************)
(* Proofs about the category service, and about it and the expense service *)
(* on one database.                                                        *)
(***************************************************************************)
EXTENDS ExpenseCategories, TLAPS

(***************************************************************************)
(* The category service, whatever the expense service does: types, and     *)
(* uniqueness of active names.  Only the index stands between two active   *)
(* categories of one name: what a save writes was read, checked and found  *)
(* in three earlier statements.                                            *)
(***************************************************************************)

\* What a request knows where it stands: its call, the entity it is to save, which
\* only a deletion has marked as deleted, and that rows, once inserted, stay.
Standing(q) ==
  /\ catPc[q] \notin {"idle", "done"} => catCall[q] \in CallsOnCategories
  /\ catPc[q] \in {"byId", "byIdAgain"} => catCall[q].op = "create" /\ catCall[q].id # NoId
  /\ catPc[q] = "read" => catCall[q].op # "create"
  /\ catPc[q] \in {"countUses", "find", "write"} => catEntity[q] \in C!Rows
  /\ catPc[q] = "countUses" => catCall[q].op = "delete"
  /\ catPc[q] = "checkName" => catCall[q].op # "delete"
  /\ catPc[q] = "checkName" /\ catCall[q].op = "update" =>
       catEntity[q] \in C!Rows /\ ~catEntity[q].deleted
  /\ catPc[q] \in {"find", "write"} /\ catEntity[q].deleted => catCall[q].op = "delete"
  /\ catPc[q] = "write" /\ catFound[q] # Absent =>
       catCall[q].id # NoId /\ catalog[catCall[q].id] # Absent

CategoryInv == C!TypeOK /\ \A q \in CategoryRequests : Standing(q)

-----------------------------------------------------------------------------
\* The calls, field by field.
LEMMA CallFields ==
  ASSUME C!CategoryData, NEW c \in CallsOnCategories
  PROVE  /\ c.op \in {"create", "update", "delete"} /\ c.space \in Spaces
         /\ c.id \in C!Ids \cup {NoId}
         /\ c.op # "create" => c.id \in C!Ids
         /\ c.op = "create" => c.name \in Names /\ c.look \in Looks
         /\ c.op = "update" => c.name \in Names \cup {Keep} /\ c.look \in Looks \cup {Keep}
         /\ c # NoCall
BY DEF C!CategoryData, C!CategoryCalls, C!Ids

\* What an update and a save make of rows are rows.
LEMMA ChangedRow ==
  ASSUME C!CategoryData, NEW c \in CallsOnCategories, c.op = "update", NEW row \in C!Rows
  PROVE  C!Changed(c, row) \in C!Rows /\ C!Changed(c, row).deleted = row.deleted
BY CallFields DEF C!Changed, C!Rows

LEMMA SavedRowIsRow ==
  ASSUME C!CategoryData, C!TypeOK, NEW q \in CategoryRequests, Standing(q), catPc[q] = "write",
         NEW id \in C!SaveIds(q)
  PROVE  C!SavedRow(q, id) \in C!Rows
<1>1. catEntity[q] \in C!Rows
  BY DEF Standing
<1>2. CASE catFound[q] = Absent
  BY <1>1, <1>2 DEF C!SavedRow
<1>3. CASE catFound[q] # Absent
  <2>1. id \in C!Ids /\ catalog[id] # Absent
    <3>1. catCall[q].id # NoId /\ id = catCall[q].id /\ catalog[id] # Absent
      BY <1>3 DEF Standing, C!SaveIds
    <3>2. catCall[q] \in CallsOnCategories
      BY DEF Standing
    <3>3. QED BY <3>1, <3>2, CallFields
  <2>2. catalog[id] \in C!Rows
    BY <2>1 DEF C!TypeOK
  <2>3. DOMAIN catEntity[q] = {"space", "name", "look", "default", "deleted"}
    BY <1>1 DEF C!Rows
  <2>4. C!SavedRow(q, id) =
          [k \in {"space", "name", "look", "default", "deleted"} |->
             IF C!Defined(q, k) /\ catEntity[q][k] # catFound[q][k] THEN catEntity[q][k]
             ELSE catalog[id][k]]
    BY <1>3, <2>3 DEF C!SavedRow
  <2>5. QED BY <1>1, <2>2, <2>4 DEF C!Rows
<1>4. QED BY <1>2, <1>3

-----------------------------------------------------------------------------
\* A row that is there is not taken away again.
RowsStay == \A id \in C!Ids : catalog[id] # Absent => catalog'[id] # Absent

\* A step of one request leaves what the others know.
LEMMA OthersStand ==
  ASSUME C!CategoryData, C!TypeOK, RowsStay, NEW q \in CategoryRequests, Standing(q),
         catPc'[q] = catPc[q], catCall'[q] = catCall[q],
         catEntity'[q] = catEntity[q], catFound'[q] = catFound[q]
  PROVE  Standing(q)'
<1>1. catPc[q] = "write" => catCall[q] \in CallsOnCategories
  BY DEF Standing
<1>2. catPc[q] = "write" /\ catCall[q].id # NoId => catCall[q].id \in C!Ids
  BY <1>1, CallFields
<1>3. QED BY <1>2 DEF Standing, RowsStay

LEMMA CategoryInitInv == C!Init => CategoryInv
BY DEF C!Init, CategoryInv, C!TypeOK, Standing, C!PCs, C!Statuses

\* A step within one request: the types it keeps, the rows that stay, and what
\* the request knows after it.
StepKeeps(q) ==
  /\ C!TypeOK' /\ RowsStay /\ Standing(q)'
  /\ \A r \in CategoryRequests \ {q} :
       /\ catPc'[r] = catPc[r] /\ catCall'[r] = catCall[r]
       /\ catEntity'[r] = catEntity[r] /\ catFound'[r] = catFound[r]

LEMMA ReceiveKeeps ==
  ASSUME C!CategoryData, CategoryInv, NEW q \in CategoryRequests, C!Receive(q)
  PROVE  StepKeeps(q)
<1>1. PICK c \in CallsOnCategories : catCall' = [catCall EXCEPT ![q] = c]
  BY DEF C!Receive
<1>2. catPc' = [catPc EXCEPT ![q] = "count"] /\ UNCHANGED <<catalog, Uses, catEntity, catFound, catReply>>
  BY DEF C!Receive, C!Goto
<1>3. QED BY <1>1, <1>2 DEF CategoryInv, C!TypeOK, StepKeeps, RowsStay, Standing, C!PCs

\* Where a request goes on once its catalog is there.
LEMMA BeginStands ==
  ASSUME C!CategoryData, NEW q \in CategoryRequests, catCall[q] \in CallsOnCategories
  PROVE  /\ C!Begin(q) \in {"read", "byId", "checkName"}
         /\ C!Begin(q) = "read" <=> catCall[q].op # "create"
         /\ C!Begin(q) = "byId" => catCall[q].id # NoId
BY CallFields DEF C!Begin

LEMMA CountRowsKeeps ==
  ASSUME C!CategoryData, CategoryInv, NEW q \in CategoryRequests, C!CountRows(q)
  PROVE  StepKeeps(q)
<1>1. catCall[q] \in CallsOnCategories
  BY DEF CategoryInv, C!CountRows, Standing
<1>2. PICK label \in {"seed", C!Begin(q)} :
        catPc' = [catPc EXCEPT ![q] = label] /\ UNCHANGED <<catalog, Uses, C!local, catReply>>
  BY DEF C!CountRows, C!Goto
<1>3. QED BY <1>1, <1>2, BeginStands
          DEF CategoryInv, C!TypeOK, StepKeeps, RowsStay, Standing, C!PCs, C!local

LEMMA SeedDefaultsKeeps ==
  ASSUME C!CategoryData, CategoryInv, NEW q \in CategoryRequests, C!SeedDefaults(q)
  PROVE  StepKeeps(q)
<1>1. catCall[q] \in CallsOnCategories /\ catCall[q].space \in Spaces
  BY CallFields DEF CategoryInv, C!SeedDefaults, Standing
<1>2. /\ \/ catPc' = [catPc EXCEPT ![q] = C!Begin(q)] /\ UNCHANGED catReply
         \/ catPc' = [catPc EXCEPT ![q] = "done"] /\ catReply' = [catReply EXCEPT ![q] = "error"]
      /\ UNCHANGED <<Uses, C!local>>
  BY DEF C!SeedDefaults, C!Goto, C!Answer
<1>3. catalog' \in [C!Ids -> C!Rows \cup {Absent}] /\ RowsStay
  <2>1. CASE UNCHANGED catalog
    BY <2>1 DEF CategoryInv, C!TypeOK, RowsStay
  <2>2. CASE \E c \in SeedIds :
               /\ catalog[c] = Absent
               /\ catalog' = [catalog EXCEPT ![c] =
                    [space |-> catCall[q].space, name |-> DefaultName, look |-> DefaultLook,
                     default |-> TRUE, deleted |-> FALSE]]
    <3>1. PICK c \in SeedIds :
            /\ catalog[c] = Absent
            /\ catalog' = [catalog EXCEPT ![c] =
                 [space |-> catCall[q].space, name |-> DefaultName, look |-> DefaultLook,
                  default |-> TRUE, deleted |-> FALSE]]
      BY <2>2
    <3>2. [space |-> catCall[q].space, name |-> DefaultName, look |-> DefaultLook,
           default |-> TRUE, deleted |-> FALSE] \in C!Rows
      BY <1>1 DEF C!Rows, C!CategoryData
    <3>3. c \in C!Ids
      BY DEF C!Ids
    <3>4. catalog'[c] \in C!Rows /\ \A id \in C!Ids \ {c} : catalog'[id] = catalog[id]
      BY <3>1, <3>2, <3>3 DEF CategoryInv, C!TypeOK
    <3>5. QED BY <3>1, <3>2, <3>3, <3>4 DEF CategoryInv, C!TypeOK, RowsStay
  <2>3. QED BY <2>1, <2>2 DEF C!SeedDefaults
<1>4. QED BY <1>1, <1>2, <1>3, BeginStands
          DEF CategoryInv, C!TypeOK, StepKeeps, Standing, C!PCs, C!Statuses, C!local

LEMMA LookupsKeep ==
  ASSUME C!CategoryData, CategoryInv, NEW q \in CategoryRequests, C!FindById(q) \/ C!Crash(q)
  PROVE  StepKeeps(q)
<1>1. /\ \/ catPc' = [catPc EXCEPT ![q] = "checkName"] /\ UNCHANGED catReply /\ catPc[q] = "byId"
         \/ \E status \in C!Statuses :
              catPc' = [catPc EXCEPT ![q] = "done"] /\ catReply' = [catReply EXCEPT ![q] = status]
      /\ UNCHANGED <<catalog, Uses, C!local>>
  BY DEF C!FindById, C!Crash, C!ResolveReplay, C!Goto, C!Answer, C!Statuses
<1>2. catPc[q] = "byId" => catCall[q] \in CallsOnCategories /\ catCall[q].op = "create"
  BY DEF CategoryInv, Standing
<1>3. QED BY <1>1, <1>2 DEF CategoryInv, C!TypeOK, StepKeeps, RowsStay, Standing, C!PCs, C!local

LEMMA CheckNewNameKeeps ==
  ASSUME C!CategoryData, CategoryInv, NEW q \in CategoryRequests, C!CheckNewName(q)
  PROVE  StepKeeps(q)
<1>1. catCall[q] \in CallsOnCategories /\ catCall[q].op = "create"
  BY DEF CategoryInv, Standing, C!CheckNewName
<1>2. C!NewRow(catCall[q]) \in C!Rows /\ ~C!NewRow(catCall[q]).deleted
  BY <1>1, CallFields DEF C!NewRow, C!Rows
<1>3. /\ \/ /\ catPc' = [catPc EXCEPT ![q] = "done"] /\ catReply' = [catReply EXCEPT ![q] = "conflict"]
            /\ UNCHANGED catEntity
         \/ /\ catPc' = [catPc EXCEPT ![q] = "find"] /\ UNCHANGED catReply
            /\ catEntity' = [catEntity EXCEPT ![q] = C!NewRow(catCall[q])]
      /\ UNCHANGED <<catalog, Uses, catCall, catFound>>
  BY DEF C!CheckNewName, C!Goto, C!Answer
<1>4. QED BY <1>1, <1>2, <1>3
          DEF CategoryInv, C!TypeOK, StepKeeps, RowsStay, Standing, C!PCs, C!Statuses

LEMMA ReadCategoryKeeps ==
  ASSUME C!CategoryData, CategoryInv, NEW q \in CategoryRequests, C!ReadCategory(q)
  PROVE  StepKeeps(q)
<1>1. catCall[q] \in CallsOnCategories /\ catCall[q].op \in {"update", "delete"}
  BY CallFields DEF CategoryInv, Standing, C!ReadCategory
<1>2. UNCHANGED <<catalog, Uses, catCall, catFound>>
  BY DEF C!ReadCategory
<1>3. CASE \E status \in {"notFound", "refused"} :
             /\ catPc' = [catPc EXCEPT ![q] = "done"] /\ catReply' = [catReply EXCEPT ![q] = status]
             /\ UNCHANGED catEntity
  BY <1>2, <1>3 DEF CategoryInv, C!TypeOK, StepKeeps, RowsStay, Standing, C!PCs, C!Statuses
<1>4. CASE /\ catCall[q].id \in C!Live(catCall[q].space)
           /\ catPc' = [catPc EXCEPT ![q] = IF catCall[q].op = "update" THEN "checkName"
                                      ELSE "countUses"]
           /\ UNCHANGED catReply
           /\ catEntity' = [catEntity EXCEPT ![q] = catalog[catCall[q].id]]
  <2>1. catalog[catCall[q].id] \in C!Rows /\ ~catalog[catCall[q].id].deleted
    BY <1>4 DEF CategoryInv, C!TypeOK, C!Live, C!In
  <2>2. QED BY <1>1, <1>2, <1>4, <2>1
            DEF CategoryInv, C!TypeOK, StepKeeps, RowsStay, Standing, C!PCs
<1>5. QED BY <1>3, <1>4 DEF C!ReadCategory, C!Goto, C!Answer

LEMMA CheckChangedNameKeeps ==
  ASSUME C!CategoryData, CategoryInv, NEW q \in CategoryRequests, C!CheckChangedName(q)
  PROVE  StepKeeps(q)
<1>1. /\ catCall[q] \in CallsOnCategories /\ catCall[q].op = "update"
      /\ catEntity[q] \in C!Rows /\ ~catEntity[q].deleted
  BY DEF CategoryInv, Standing, C!CheckChangedName
<1>2. C!Changed(catCall[q], catEntity[q]) \in C!Rows /\ ~C!Changed(catCall[q], catEntity[q]).deleted
  BY <1>1, ChangedRow
<1>3. /\ \/ /\ catPc' = [catPc EXCEPT ![q] = "done"] /\ catReply' = [catReply EXCEPT ![q] = "conflict"]
            /\ UNCHANGED catEntity
         \/ /\ catPc' = [catPc EXCEPT ![q] = "find"] /\ UNCHANGED catReply
            /\ catEntity' = [catEntity EXCEPT ![q] = C!Changed(catCall[q], catEntity[q])]
      /\ UNCHANGED <<catalog, Uses, catCall, catFound>>
  BY DEF C!CheckChangedName, C!Goto, C!Answer
<1>4. QED BY <1>1, <1>2, <1>3
          DEF CategoryInv, C!TypeOK, StepKeeps, RowsStay, Standing, C!PCs, C!Statuses

LEMMA CountUsesKeeps ==
  ASSUME C!CategoryData, CategoryInv, NEW q \in CategoryRequests, C!CountUses(q)
  PROVE  StepKeeps(q)
<1>1. catCall[q] \in CallsOnCategories /\ catCall[q].op = "delete" /\ catEntity[q] \in C!Rows
  BY DEF CategoryInv, Standing, C!CountUses
<1>2. [catEntity[q] EXCEPT !.deleted = TRUE] \in C!Rows
  BY <1>1 DEF C!Rows
<1>3. /\ \/ /\ catPc' = [catPc EXCEPT ![q] = "done"] /\ catReply' = [catReply EXCEPT ![q] = "refused"]
            /\ UNCHANGED catEntity
         \/ /\ catPc' = [catPc EXCEPT ![q] = "find"] /\ UNCHANGED catReply
            /\ catEntity' = [catEntity EXCEPT ![q] = [catEntity[q] EXCEPT !.deleted = TRUE]]
      /\ UNCHANGED <<catalog, Uses, catCall, catFound>>
  BY DEF C!CountUses, C!Goto, C!Answer
<1>4. QED BY <1>1, <1>2, <1>3
          DEF CategoryInv, C!TypeOK, StepKeeps, RowsStay, Standing, C!PCs, C!Statuses

LEMMA FindForSaveKeeps ==
  ASSUME C!CategoryData, CategoryInv, NEW q \in CategoryRequests, C!FindForSave(q)
  PROVE  StepKeeps(q)
<1>1. /\ catCall[q] \in CallsOnCategories /\ catEntity[q] \in C!Rows
      /\ catEntity[q].deleted => catCall[q].op = "delete"
  BY DEF CategoryInv, Standing, C!FindForSave
<1>2. catCall[q].id # NoId => catCall[q].id \in C!Ids
  BY <1>1, CallFields
<1>3. /\ catPc' = [catPc EXCEPT ![q] = "write"]
      /\ catFound' = [catFound EXCEPT ![q] = IF catCall[q].id = NoId THEN Absent
                                       ELSE catalog[catCall[q].id]]
      /\ UNCHANGED <<catalog, Uses, catCall, catEntity, catReply>>
  BY DEF C!FindForSave, C!Goto
<1>4. C!TypeOK' /\ RowsStay
  BY <1>2, <1>3 DEF CategoryInv, C!TypeOK, RowsStay, C!PCs
<1>5. Standing(q)'
  BY <1>1, <1>2, <1>3 DEF CategoryInv, C!TypeOK, Standing
<1>6. QED BY <1>3, <1>4, <1>5 DEF CategoryInv, C!TypeOK, StepKeeps

\* What a save does to the catalog: nothing, or one row that no unique index and
\* no reference of an expense forbids.
LEMMA Saves ==
  ASSUME C!CategoryData, CategoryInv, NEW q \in CategoryRequests, C!Write(q)
  PROVE  \/ UNCHANGED catalog
         \/ \E id \in C!Ids : \E row \in C!Rows :
              /\ ~C!NotUnique(q, id, row) /\ ~C!Stranded(id, row.space)
              /\ catalog' = [catalog EXCEPT ![id] = row]
<1>1. PICK id \in C!SaveIds(q) :
        \/ UNCHANGED catalog
        \/ /\ ~C!NotUnique(q, id, C!SavedRow(q, id)) /\ ~C!Stranded(id, C!SavedRow(q, id).space)
           /\ catalog' = [catalog EXCEPT ![id] = C!SavedRow(q, id)]
  BY DEF C!Write
<1>2. catPc[q] = "write" /\ Standing(q) /\ C!TypeOK /\ catCall[q] \in CallsOnCategories
  BY DEF CategoryInv, C!Write, Standing
<1>3. C!SavedRow(q, id) \in C!Rows
  BY <1>2, SavedRowIsRow
<1>4. id \in C!Ids
  BY <1>2, CallFields DEF C!SaveIds, C!Ids
<1>5. QED BY <1>1, <1>3, <1>4

LEMMA WriteKeeps ==
  ASSUME C!CategoryData, CategoryInv, NEW q \in CategoryRequests, C!Write(q)
  PROVE  StepKeeps(q)
<1>1. catalog' \in [C!Ids -> C!Rows \cup {Absent}]
  BY Saves DEF CategoryInv, C!TypeOK
<1>2. RowsStay
  <2>1. Absent \notin C!Rows
    BY DEF C!CategoryData
  <2>2. QED BY Saves, <2>1 DEF CategoryInv, C!TypeOK, RowsStay
<1>3. /\ \/ /\ catPc' = [catPc EXCEPT ![q] = "byIdAgain"] /\ UNCHANGED catReply
            /\ catCall[q].op = "create" /\ catCall[q].id # NoId
         \/ \E status \in {"ok", "error"} :
              catPc' = [catPc EXCEPT ![q] = "done"] /\ catReply' = [catReply EXCEPT ![q] = status]
      /\ UNCHANGED <<Uses, C!local>>
  BY DEF C!Write, C!Goto, C!Answer
<1>4. catCall[q] \in CallsOnCategories
  BY DEF CategoryInv, Standing, C!Write
<1>5. QED BY <1>1, <1>2, <1>3, <1>4
          DEF CategoryInv, C!TypeOK, StepKeeps, Standing, C!PCs, C!Statuses, C!local

LEMMA StepsKeep ==
  ASSUME C!CategoryData, CategoryInv, NEW q \in CategoryRequests, C!Step(q)
  PROVE  StepKeeps(q)
BY ReceiveKeeps, CountRowsKeeps, SeedDefaultsKeeps, LookupsKeep, CheckNewNameKeeps,
   ReadCategoryKeeps, CheckChangedNameKeeps, CountUsesKeeps, FindForSaveKeeps, WriteKeeps
DEF C!Step

LEMMA CategoryNext ==
  ASSUME C!CategoryData, CategoryInv, [C!Next]_C!vars
  PROVE  CategoryInv'
<1>1. CASE UNCHANGED C!vars
  <2>1. C!TypeOK' /\ RowsStay
    BY <1>1 DEF CategoryInv, C!TypeOK, RowsStay, C!vars
  <2>2. ASSUME NEW r \in CategoryRequests PROVE Standing(r)'
    BY <1>1, <2>1, OthersStand DEF CategoryInv, C!vars
  <2>3. QED BY <2>1, <2>2 DEF CategoryInv
<1>2. CASE C!ChangeUses
  <2>1. C!TypeOK' /\ RowsStay
    BY <1>2 DEF CategoryInv, C!TypeOK, RowsStay, C!ChangeUses, C!local
  <2>2. ASSUME NEW r \in CategoryRequests PROVE Standing(r)'
    BY <1>2, <2>1, OthersStand DEF CategoryInv, C!ChangeUses, C!local
  <2>3. QED BY <2>1, <2>2 DEF CategoryInv
<1>3. ASSUME NEW q \in CategoryRequests, C!Step(q) PROVE CategoryInv'
  <2>1. StepKeeps(q)
    BY <1>3, StepsKeep
  <2>2. ASSUME NEW r \in CategoryRequests \ {q} PROVE Standing(r)'
    BY <2>1, OthersStand DEF CategoryInv, StepKeeps
  <2>3. QED BY <2>1, <2>2 DEF CategoryInv, StepKeeps
<1>4. QED BY <1>1, <1>2, <1>3 DEF C!Next

LEMMA CategoryInvariant ==
  ASSUME C!CategoryData PROVE C!Spec => []CategoryInv
<1>1. C!Init => CategoryInv
  BY CategoryInitInv
<1>2. CategoryInv /\ [C!Next]_C!vars => CategoryInv'
  BY CategoryNext
<1>3. QED BY <1>1, <1>2, PTL DEF C!Spec

\* Every variable of the category service keeps its type.
THEOREM CategoryTypeCorrect ==
  ASSUME C!CategoryData PROVE C!Spec => []C!TypeOK
<1>1. CategoryInv => C!TypeOK
  BY DEF CategoryInv
<1>2. QED BY <1>1, CategoryInvariant, PTL

-----------------------------------------------------------------------------
\* A row written over a catalog of distinct active names, where its own name is
\* free, leaves them distinct.
LEMMA FreeNameKeepsUnique ==
  ASSUME C!TypeOK, C!ActiveNamesUnique, NEW id \in C!Ids, NEW row \in C!Rows,
         catalog' = [catalog EXCEPT ![id] = row],
         ~row.deleted => ~C!NameTaken(row.space, row.name, id)
  PROVE  C!ActiveNamesUnique'
<1>1. SUFFICES ASSUME NEW space \in Spaces, NEW c \in C!Live(space)', NEW d \in C!Live(space)',
                      catalog'[c].name = catalog'[d].name, c # d
               PROVE  FALSE
  BY DEF C!ActiveNamesUnique
<1>2. catalog'[id] = row /\ \A e \in C!Ids \ {id} : catalog'[e] = catalog[e]
  BY DEF C!TypeOK
<1>3. /\ c \in C!Ids /\ catalog'[c] # Absent /\ catalog'[c].space = space /\ ~catalog'[c].deleted
      /\ d \in C!Ids /\ catalog'[d] # Absent /\ catalog'[d].space = space /\ ~catalog'[d].deleted
  BY DEF C!Live, C!In
<1>4. ASSUME NEW e \in C!Ids \ {id}, catalog'[e] # Absent, catalog'[e].space = space,
             ~catalog'[e].deleted
      PROVE  e \in C!Live(space)
  BY <1>2, <1>4 DEF C!Live, C!In
<1>5. CASE c # id /\ d # id
  BY <1>1, <1>2, <1>3, <1>4, <1>5 DEF C!ActiveNamesUnique
<1>6. CASE c = id
  BY <1>1, <1>2, <1>3, <1>4, <1>6 DEF C!NameTaken
<1>7. CASE d = id
  BY <1>1, <1>2, <1>3, <1>4, <1>7 DEF C!NameTaken
<1>8. QED BY <1>5, <1>6, <1>7

LEMMA NamesStayUnique ==
  ASSUME C!CategoryData, CategoryInv, C!ActiveNamesUnique, [C!Next]_C!vars
  PROVE  C!ActiveNamesUnique'
<1>1. CASE UNCHANGED catalog
  BY <1>1 DEF C!ActiveNamesUnique, C!Live, C!In
<1>2. ASSUME NEW q \in CategoryRequests, C!SeedDefaults(q), ~UNCHANGED catalog
      PROVE  C!ActiveNamesUnique'
  <2>1. catCall[q] \in CallsOnCategories /\ catCall[q].space \in Spaces
    BY <1>2, CallFields DEF CategoryInv, C!SeedDefaults, Standing
  <2> DEFINE row == [space |-> catCall[q].space, name |-> DefaultName, look |-> DefaultLook,
                     default |-> TRUE, deleted |-> FALSE]
  <2>2. row \in C!Rows
    BY <2>1 DEF C!Rows, C!CategoryData
  <2>3. PICK c \in SeedIds : catalog' = [catalog EXCEPT ![c] = row]
    BY <1>2 DEF C!SeedDefaults
  <2>4. ~C!NameTaken(row.space, row.name, NoId)
    BY <1>2 DEF C!SeedDefaults
  <2>5. ~C!NameTaken(row.space, row.name, c)
    BY <2>4 DEF C!NameTaken, C!Live, C!In, C!CategoryData
  <2>6. QED BY <2>2, <2>3, <2>5, FreeNameKeepsUnique DEF CategoryInv, C!Ids
<1>3. ASSUME NEW q \in CategoryRequests, C!Write(q), ~UNCHANGED catalog
      PROVE  C!ActiveNamesUnique'
  <2>1. PICK id \in C!Ids, row \in C!Rows :
          ~C!NotUnique(q, id, row) /\ catalog' = [catalog EXCEPT ![id] = row]
    BY <1>3, Saves
  <2>2. QED BY <2>1, FreeNameKeepsUnique DEF CategoryInv, C!NotUnique
<1>4. [C!Next]_C!vars => \/ UNCHANGED catalog
                     \/ \E q \in CategoryRequests : C!SeedDefaults(q) \/ C!Write(q)
  BY DEF C!Next, C!Step, C!vars, C!ChangeUses, C!Receive, C!CountRows, C!FindById, C!CheckNewName,
         C!ReadCategory, C!CheckChangedName, C!CountUses, C!FindForSave, C!Crash
<1>5. QED BY <1>1, <1>2, <1>3, <1>4

\* No two active categories of a space have one name, for any number of requests:
\* a save of a stale entity, a revival of a deleted one and two seedings of the
\* default catalog are stopped by the index alone.
THEOREM NamesUnique ==
  ASSUME C!CategoryData PROVE C!Spec => []C!ActiveNamesUnique
<1>1. C!Init => C!ActiveNamesUnique
  BY DEF C!Init, C!ActiveNamesUnique, C!Live, C!In
<1>2. CategoryInv /\ C!ActiveNamesUnique /\ [C!Next]_C!vars => C!ActiveNamesUnique'
  BY NamesStayUnique
<1>3. QED BY <1>1, <1>2, CategoryInvariant, PTL DEF C!Spec

-----------------------------------------------------------------------------
(***************************************************************************)
(* The two services on one database.                                       *)
(*                                                                         *)
(* The lemmas about the expense service are those of ExpenseServiceProofs, *)
(* for the service whose table of categories is the catalog.               *)
(***************************************************************************)

EP == INSTANCE ExpenseServiceProofs WITH
  Ids <- ExpenseIds,
  categories <- CategoryView,
  CategoryTables <- [Categories -> [space : Spaces, live : BOOLEAN] \cup {Absent}]

\* The constants of the expense service are what its proofs assume of them.
ServiceData ==
  /\ EP!MaxCentsIsPositive /\ EP!SentinelsAreFresh /\ EP!KeepIsNoData /\ EP!AbsentIsNoRow
  /\ EP!CallsAreCalls /\ EP!RoleIsMembership /\ EP!CategoryTablesAreTables

LEMMA ServiceDataHolds == ServiceData
<1>1. EP!MaxCentsIsPositive /\ EP!SentinelsAreFresh
  BY ExpenseDataAssumption DEF E!MaxCentsIsPositive, EP!MaxCentsIsPositive,
     E!SentinelsAreFresh, EP!SentinelsAreFresh
<1>2. EP!RoleIsMembership /\ EP!CategoryTablesAreTables
  BY ExpenseDataAssumption DEF E!RoleIsMembership, EP!RoleIsMembership,
     E!CategoryTablesAreTables, EP!CategoryTablesAreTables
<1>3. EP!KeepIsNoData
  BY ExpenseDataAssumption DEF E!KeepIsNoData, EP!KeepIsNoData,
     E!SplitTypes, EP!SplitTypes, E!Cents, EP!Cents, E!Shares, EP!Shares
<1>4. EP!CallsAreCalls
  BY ExpenseDataAssumption DEF E!CallsAreCalls, EP!CallsAreCalls,
     E!CreateCalls, EP!CreateCalls, E!UpdateCalls, EP!UpdateCalls,
     E!DeleteCalls, EP!DeleteCalls, E!Fields, EP!Fields, E!Patches, EP!Patches,
     E!SplitTypes, EP!SplitTypes, E!Cents, EP!Cents, E!Shares, EP!Shares
<1>5. EP!AbsentIsNoRow
  BY ExpenseDataAssumption DEF E!AbsentIsNoRow, EP!AbsentIsNoRow,
     E!Rows, EP!Rows, E!Aggregates, EP!Aggregates, E!Fields, EP!Fields,
     E!SplitTypes, EP!SplitTypes, E!Cents, EP!Cents, E!Shares, EP!Shares
<1>6. QED
  BY <1>1, <1>2, <1>3, <1>4, <1>5 DEF ServiceData

\* The service of the two names is the same one.
LEMMA SameInit == E!Init <=> EP!Init
  BY DEF E!Init, EP!Init, E!NoShares, EP!NoShares, E!NoReply, EP!NoReply,
         E!Told, EP!Told

LEMMA SameConsistent ==
  ASSUME NEW f, NEW s PROVE E!Consistent(f, s) <=> EP!Consistent(f, s)
<1>1. E!ShareTotal(s) = EP!ShareTotal(s)
  BY DEF E!ShareTotal, EP!ShareTotal, E!FoldFunction, EP!FoldFunction,
         E!FoldFunctionOnSet, EP!FoldFunctionOnSet, E!MapThenFoldSet,
         EP!MapThenFoldSet
<1>2. E!Cardinality(DOMAIN s) = EP!Cardinality(DOMAIN s)
  BY DEF E!Cardinality, EP!Cardinality
<1>3. QED
  BY <1>1, <1>2 DEF E!Consistent, EP!Consistent, E!Balanced, EP!Balanced,
                    E!EvenShares, EP!EvenShares

LEMMA SameLookups ==
  ASSUME NEW q \in Requests
  PROVE  /\ E!Receive(q) <=> EP!Receive(q)
         /\ E!FindById(q) <=> EP!FindById(q)
         /\ E!FindByMutation(q) <=> EP!FindByMutation(q)
         /\ E!ResolveReplay(q) <=> EP!ResolveReplay(q)
         /\ E!FindForSave(q) <=> EP!FindForSave(q)
         /\ E!ReadExpense(q) <=> EP!ReadExpense(q)
         /\ E!ReadSplits(q) <=> EP!ReadSplits(q)
         /\ E!Crash(q) <=> EP!Crash(q)
<1>1. E!Receive(q) <=> EP!Receive(q)
  BY DEF E!Receive, EP!Receive, E!Answer, EP!Answer, E!Told, EP!Told, E!Goto,
         EP!Goto, E!tables, EP!tables
<1>2. E!FindById(q) <=> EP!FindById(q)
  BY DEF E!FindById, EP!FindById, E!At, EP!At, E!Visible, EP!Visible, E!Found,
         EP!Found, E!Goto, EP!Goto, E!NotFoundByAny, EP!NotFoundByAny,
         E!Answer, EP!Answer, E!Told, EP!Told, E!tables, EP!tables
<1>3. E!FindByMutation(q) <=> EP!FindByMutation(q)
  BY DEF E!FindByMutation, EP!FindByMutation, E!At, EP!At, E!WithMutation,
         EP!WithMutation, E!Visible, EP!Visible, E!Found, EP!Found, E!Goto,
         EP!Goto, E!NotFoundByAny, EP!NotFoundByAny, E!Answer, EP!Answer,
         E!Told, EP!Told, E!tables, EP!tables
<1>4. E!ResolveReplay(q) <=> EP!ResolveReplay(q)
  BY DEF E!ResolveReplay, EP!ResolveReplay, E!At, EP!At, E!Answer, EP!Answer,
         E!MatchesCreate, EP!MatchesCreate, E!Ok, EP!Ok, E!Told, EP!Told,
         E!tables, EP!tables, E!context, EP!context
<1>5. E!FindForSave(q) <=> EP!FindForSave(q)
  BY DEF E!FindForSave, EP!FindForSave, E!At, EP!At, E!Goto, EP!Goto,
         E!tables, EP!tables
<1>6. E!ReadExpense(q) <=> EP!ReadExpense(q)
  BY DEF E!ReadExpense, EP!ReadExpense, E!Visible, EP!Visible, E!Answer,
         EP!Answer, E!Told, EP!Told, E!MayMutate, EP!MayMutate, E!Goto,
         EP!Goto, E!tables, EP!tables
<1>7. E!ReadSplits(q) <=> EP!ReadSplits(q)
  BY DEF E!ReadSplits, EP!ReadSplits, E!Goto, EP!Goto, E!tables, EP!tables
<1>8. E!Crash(q) <=> EP!Crash(q)
  BY DEF E!Crash, EP!Crash, E!Answer, EP!Answer, E!Told, EP!Told, E!tables,
         EP!tables, E!context, EP!context
<1>9. QED
  BY <1>1, <1>2, <1>3, <1>4, <1>5, <1>6, <1>7, <1>8

LEMMA SameValidation ==
  ASSUME NEW q \in Requests
  PROVE  /\ E!ValidateCreate(q) <=> EP!ValidateCreate(q)
         /\ E!ValidateUpdate(q) <=> EP!ValidateUpdate(q)
<1>1. E!ValidateCreate(q) <=> EP!ValidateCreate(q)
  BY SameConsistent DEF E!ValidateCreate, EP!ValidateCreate, E!At, EP!At, E!CategoryLive,
         EP!CategoryLive, E!InSpace, EP!InSpace, E!Goto, EP!Goto, E!Answer,
         EP!Answer, E!Told, EP!Told, E!tables, EP!tables, E!context,
         EP!context
<1>2. E!ValidateUpdate(q) <=> EP!ValidateUpdate(q)
  BY SameConsistent DEF E!ValidateUpdate, EP!ValidateUpdate, E!At, EP!At, E!CategoryLive,
         EP!CategoryLive, E!InSpace, EP!InSpace, E!NewFields, EP!NewFields,
         E!Merge, EP!Merge, E!Chosen, EP!Chosen, E!NewShares, EP!NewShares,
         E!Goto, EP!Goto, E!Answer, EP!Answer, E!Told, EP!Told, E!tables,
         EP!tables, E!context, EP!context
<1>3. QED
  BY <1>1, <1>2

LEMMA SameCommits ==
  ASSUME NEW q \in Requests
  PROVE  /\ E!CommitCreate(q) <=> EP!CommitCreate(q)
         /\ E!CommitUpdate(q) <=> EP!CommitUpdate(q)
         /\ E!CommitDelete(q) <=> EP!CommitDelete(q)
<1>1. E!CommitCreate(q) <=> EP!CommitCreate(q)
  BY DEF E!CommitCreate, EP!CommitCreate, E!At, EP!At, E!SaveIds, EP!SaveIds,
         E!Violation, EP!Violation, E!KeyTaken, EP!KeyTaken, E!MutationTaken,
         EP!MutationTaken, E!SavedRow, EP!SavedRow, E!InsertedRow,
         EP!InsertedRow, E!OverwrittenRow, EP!OverwrittenRow, E!SavedColumn,
         EP!SavedColumn, E!SplitsLeftBehind, EP!SplitsLeftBehind,
         E!CategoryElsewhere, EP!CategoryElsewhere, E!InSpace, EP!InSpace,
         E!ParticipantTaken, EP!ParticipantTaken, E!BalancesAfterSave,
         EP!BalancesAfterSave, E!ShareTotal, EP!ShareTotal, E!FoldFunction,
         EP!FoldFunction, E!FoldFunctionOnSet, EP!FoldFunctionOnSet,
         E!MapThenFoldSet, EP!MapThenFoldSet, E!SaveExpense, EP!SaveExpense,
         E!SavedShares, EP!SavedShares, E!Answer, EP!Answer, E!Ok, EP!Ok,
         E!Catch, EP!Catch, E!Goto, EP!Goto, E!Told, EP!Told, E!tables,
         EP!tables
<1>2. E!CommitUpdate(q) <=> EP!CommitUpdate(q)
  BY DEF E!CommitUpdate, EP!CommitUpdate, E!At, EP!At, E!MatchesExpected,
         EP!MatchesExpected, E!Visible, EP!Visible, E!CategoryElsewhere,
         EP!CategoryElsewhere, E!InSpace, EP!InSpace, E!UpdatedRow,
         EP!UpdatedRow, E!NewFields, EP!NewFields, E!Merge, EP!Merge,
         E!Chosen, EP!Chosen, E!BalanceTrigger, EP!BalanceTrigger, E!Balanced,
         EP!Balanced, E!ShareTotal, EP!ShareTotal, E!FoldFunction,
         EP!FoldFunction, E!FoldFunctionOnSet, EP!FoldFunctionOnSet,
         E!MapThenFoldSet, EP!MapThenFoldSet, E!UpdatedShares,
         EP!UpdatedShares, E!Answer, EP!Answer, E!Ok, EP!Ok, E!Told, EP!Told,
         E!tables, EP!tables
<1>3. E!CommitDelete(q) <=> EP!CommitDelete(q)
  BY DEF E!CommitDelete, EP!CommitDelete, E!At, EP!At, E!MatchesExpected,
         EP!MatchesExpected, E!Visible, EP!Visible, E!Tombstone, EP!Tombstone,
         E!Answer, EP!Answer, E!Ok, EP!Ok, E!Told, EP!Told, E!tables,
         EP!tables, E!context, EP!context
<1>4. QED
  BY <1>1, <1>2, <1>3

LEMMA SameChanges == E!ChangeCategories <=> EP!ChangeCategories
  BY DEF E!ChangeCategories, EP!ChangeCategories, E!context, EP!context,
         E!InSpace, EP!InSpace

LEMMA SameNext == [E!Next]_E!vars <=> [EP!Next]_EP!vars
<1>1. ASSUME NEW q \in Requests PROVE E!Handle(q) <=> EP!Handle(q)
  BY SameLookups, SameValidation, SameCommits DEF E!Handle, EP!Handle
<1>2. E!Next <=> EP!Next
  BY <1>1, SameLookups, SameChanges DEF E!Next, EP!Next
<1>3. QED
  BY <1>2 DEF E!vars, EP!vars

-----------------------------------------------------------------------------
\* What is known of the expenses beside that catalog: what ExpenseServiceProofs
\* shows of the service, and that their categories are of their space.
ExpenseInv == EP!TypeInv /\ EP!LedgerInv /\ EP!CategoriesOfTheirSpace

LEMMA ExpenseInitInv == Init => ExpenseInv
<1>1. SUFFICES ASSUME Init PROVE ExpenseInv
  OBVIOUS
<1>2. EP!Init
  BY <1>1, SameInit DEF Init
<1>3. EP!TypeInv /\ EP!LedgerInv
  BY <1>2, EP!TypeInit, EP!LedgerInit, ServiceDataHolds DEF ServiceData
<1>4. EP!CategoriesOfTheirSpace
  BY <1>2 DEF EP!Init, EP!CategoriesOfTheirSpace
<1>5. QED BY <1>3, <1>4 DEF ExpenseInv

LEMMA ExpenseNext ==
  ASSUME ExpenseInv, [E!Next]_E!vars PROVE ExpenseInv'
<1>1. [EP!Next]_EP!vars
  BY SameNext
<1>2. EP!TypeInv /\ EP!LedgerInv /\ EP!CategoriesOfTheirSpace
  BY DEF ExpenseInv
<1>3. EP!TypeInv'
  BY <1>1, <1>2, EP!TypeStep, ServiceDataHolds DEF ServiceData
<1>4. EP!LedgerInv'
  BY <1>1, <1>2, <1>3, EP!LedgerStep, ServiceDataHolds DEF ServiceData
<1>5. EP!CategoriesOfTheirSpace'
  BY <1>1, <1>2, EP!CategoriesKept, ServiceDataHolds DEF ServiceData
<1>6. QED BY <1>3, <1>4, <1>5 DEF ExpenseInv

\* The category an expense names is there, in the space of the expense.
LEMMA NamedCategories ==
  ASSUME ExpenseInv, NEW i \in ExpenseIds, expenses[i] # Absent,
         expenses[i].fields.category # NoCategory
  PROVE  /\ expenses[i].fields.category \in Categories
         /\ expenses[i].space \in Spaces /\ expenses[i].deleted \in BOOLEAN
         /\ catalog[expenses[i].fields.category] # Absent
         /\ catalog[expenses[i].fields.category].space = expenses[i].space
<1>1. expenses[i] \in EP!Rows
  BY DEF ExpenseInv, EP!TypeInv, EP!TypeOK
<1>2. expenses[i].fields.category \in Categories
  BY <1>1 DEF EP!Rows, EP!Fields
<1>3. EP!InSpace(expenses[i].fields.category, expenses[i].space)
  BY DEF ExpenseInv, EP!CategoriesOfTheirSpace
<1>4. QED BY <1>1, <1>2, <1>3 DEF EP!Rows, EP!InSpace, CategoryView

\* The rows of expenses are what the category service takes them for.
UsesFit == Uses \subseteq C!Uses /\ \A u \in Uses : u.category \in C!In(u.space)

LEMMA ExpensesUseTheirSpace == ExpenseInv => UsesFit
<1>1. ASSUME ExpenseInv, NEW u \in Uses
      PROVE  u \in C!Uses /\ u.category \in C!In(u.space)
  <2>1. PICK i \in ExpenseIds :
          /\ expenses[i] # Absent /\ expenses[i].fields.category # NoCategory
          /\ u = [category |-> expenses[i].fields.category, space |-> expenses[i].space,
                  live |-> ~expenses[i].deleted]
    BY DEF Uses
  <2>2. /\ expenses[i].fields.category \in Categories
        /\ expenses[i].space \in Spaces
        /\ catalog[expenses[i].fields.category] # Absent
        /\ catalog[expenses[i].fields.category].space = expenses[i].space
    BY <1>1, <2>1, NamedCategories
  <2>3. QED BY <2>1, <2>2 DEF C!Uses, C!Ids, C!In, Categories
<1>2. QED BY <1>1 DEF UsesFit

-----------------------------------------------------------------------------
(* Each side of a step is a step of the other service's environment.       *)

LEMMA ExpenseStepMaps ==
  ASSUME ExpenseInv, ExpenseStep
  PROVE  E!Next /\ C!ChangeUses
<1>1. E!Next
  BY DEF ExpenseStep, E!Next
<1>2. ExpenseInv'
  BY <1>1, ExpenseNext
<1>3. UsesFit'
  BY <1>2, ExpensesUseTheirSpace, PTL
<1>4. UNCHANGED <<catalog, catPc, C!local, catReply>>
  BY DEF ExpenseStep, categoryVars, C!local
<1>5. \A space : C!In(space)' = C!In(space)
  BY <1>4 DEF C!In
<1>6. QED BY <1>1, <1>3, <1>4, <1>5 DEF UsesFit, C!ChangeUses

\* A category that an expense names is there and stays in its space.
LEMMA UsedStay ==
  ASSUME C!CategoryData, CategoryInv, NEW q \in CategoryRequests, C!Step(q),
         NEW u \in Uses, u.category \in C!In(u.space)
  PROVE  catalog'[u.category] # Absent /\ catalog'[u.category].space = u.space
<1>1. /\ u.category \in C!Ids /\ catalog[u.category] # Absent
      /\ catalog[u.category].space = u.space
  BY DEF C!In
<1>2. catalog'[u.category] # Absent
  BY <1>1, StepsKeep DEF StepKeeps, RowsStay
<1>3. CASE UNCHANGED catalog
  BY <1>1, <1>3
<1>4. CASE C!SeedDefaults(q)
  BY <1>1, <1>4 DEF C!SeedDefaults, C!Ids, CategoryInv, C!TypeOK
<1>5. CASE C!Write(q) /\ ~UNCHANGED catalog
  <2>1. PICK id \in C!Ids : \E row \in C!Rows :
          ~C!Stranded(id, row.space) /\ catalog' = [catalog EXCEPT ![id] = row]
    BY <1>5, Saves
  <2>2. PICK row \in C!Rows :
          ~C!Stranded(id, row.space) /\ catalog' = [catalog EXCEPT ![id] = row]
    BY <2>1
  <2>3. catalog \in [C!Ids -> C!Rows \cup {Absent}]
    BY DEF CategoryInv, C!TypeOK
  <2>4. u.category = id => row.space = u.space
    BY <2>2 DEF C!Stranded
  <2>5. QED BY <1>1, <1>2, <2>2, <2>3, <2>4
<1>6. QED BY <1>2, <1>3, <1>4, <1>5
   DEF C!Step, C!Receive, C!CountRows, C!FindById, C!CheckNewName, C!ReadCategory,
       C!CheckChangedName, C!CountUses, C!FindForSave, C!Crash

LEMMA CategoryStepMaps ==
  ASSUME CategoryInv, ExpenseInv, CategoryStep
  PROVE  C!Next /\ E!ChangeCategories
<1>1. PICK q \in CategoryRequests : C!Step(q)
  BY DEF CategoryStep
<1>2. C!Next
  BY <1>1 DEF C!Next
<1>3. UNCHANGED <<expenses, splits, pc, EP!context, applied, reply>>
  BY DEF CategoryStep, expenseVars, EP!context
<1>4. CategoryView' \in [Categories -> [space : Spaces, live : BOOLEAN] \cup {Absent}]
  <2>1. catalog' \in [C!Ids -> C!Rows \cup {Absent}]
    BY <1>1, StepsKeep, CategoryDataAssumption DEF StepKeeps, C!TypeOK
  <2>2. ASSUME NEW c \in Categories
        PROVE  (IF catalog'[c] = Absent THEN Absent
                ELSE [space |-> catalog'[c].space, live |-> ~catalog'[c].deleted])
                 \in [space : Spaces, live : BOOLEAN] \cup {Absent}
    BY <2>1 DEF C!Rows, C!Ids, Categories
  <2>3. QED BY <2>2 DEF CategoryView
<1>5. ASSUME NEW i \in ExpenseIds, expenses[i] # Absent
      PROVE  EP!InSpace(expenses[i].fields.category, expenses[i].space)'
  <2>1. CASE expenses[i].fields.category = NoCategory
    BY <1>3, <2>1 DEF EP!InSpace
  <2>2. CASE expenses[i].fields.category # NoCategory
    <3> DEFINE c == expenses[i].fields.category
               u == [category |-> c, space |-> expenses[i].space,
                     live |-> ~expenses[i].deleted]
    <3>1. u \in Uses
      BY <1>5, <2>2 DEF Uses
    <3>2. c \in Categories
      BY <1>5, <2>2, NamedCategories
    <3>3. u.category \in C!In(u.space)
      BY <3>1, ExpensesUseTheirSpace DEF UsesFit
    <3>4. catalog'[u.category] # Absent /\ catalog'[u.category].space = u.space
      BY <1>1, <3>1, <3>3, UsedStay, CategoryDataAssumption
    <3>5. CategoryView'[c] = [space |-> catalog'[c].space, live |-> ~catalog'[c].deleted]
      BY <3>2, <3>4 DEF CategoryView
    <3>6. CategoryView'[c] # Absent /\ CategoryView'[c].space = expenses[i].space
      <4>1. CategoryView'[c] \in [space : Spaces, live : BOOLEAN]
        <5>1. catalog'[c] \in C!Rows
          BY <1>1, <3>2, <3>4, StepsKeep, CategoryDataAssumption
             DEF StepKeeps, C!TypeOK, C!Ids, Categories
        <5>2. QED BY <3>5, <5>1 DEF C!Rows
      <4>2. CategoryView'[c] # Absent
        BY <4>1, AbsentIsNoCategory
      <4>3. CategoryView'[c].space = expenses[i].space
        BY <3>4, <3>5
      <4>4. QED BY <4>2, <4>3
    <3>7. QED BY <1>3, <3>6 DEF EP!InSpace
  <2>3. QED BY <2>1, <2>2
<1>6. EP!ChangeCategories
  BY <1>3, <1>4, <1>5 DEF EP!ChangeCategories
<1>7. QED BY <1>2, <1>6, SameChanges

\* What is known of the two services together.
JointInv == CategoryInv /\ ExpenseInv

\* A step of either service is one of the category service with its environment,
\* and one of the expense service with its environment.
LEMMA NextMaps ==
  ASSUME JointInv, [Next]_vars
  PROVE  [C!Next]_C!vars /\ [E!Next]_E!vars
<1>1. CASE ExpenseStep
  BY <1>1, ExpenseStepMaps DEF JointInv, C!Next
<1>2. CASE CategoryStep
  BY <1>2, CategoryStepMaps DEF JointInv, E!Next
<1>3. CASE UNCHANGED vars
  <2>1. UNCHANGED CategoryView /\ UNCHANGED Uses
    BY <1>3 DEF vars, expenseVars, categoryVars, CategoryView, Uses
  <2>2. QED BY <1>3, <2>1
            DEF vars, expenseVars, categoryVars, C!vars, E!vars
<1>4. QED BY <1>1, <1>2, <1>3 DEF Next

LEMMA JointInit == Init => JointInv
BY ExpenseInitInv, CategoryInitInv DEF Init, JointInv

LEMMA JointStep == JointInv /\ [Next]_vars => JointInv'
BY NextMaps, CategoryNext, ExpenseNext, CategoryDataAssumption DEF JointInv

LEMMA JointInvariant == Spec => []JointInv
BY JointInit, JointStep, PTL DEF Spec

\* Whatever the expense service does to its rows is what the category service
\* assumes of them.
THEOREM CategoryAssumptionsHold == Spec => CategorySideHolds
<1>1. Init => C!Init
  BY DEF Init
<1>2. JointInv /\ [Next]_vars => [C!Next]_C!vars
  BY NextMaps
<1>3. QED BY <1>1, <1>2, JointInvariant, PTL DEF Spec, C!Spec, CategorySideHolds

\* Whatever the category service does to its table is what the expense service
\* assumes of it.
THEOREM ExpenseAssumptionsHold == Spec => ExpenseSideHolds
<1>1. Init => E!Init
  BY DEF Init
<1>2. JointInv /\ [Next]_vars => [E!Next]_E!vars
  BY NextMaps
<1>3. QED BY <1>1, <1>2, JointInvariant, PTL DEF Spec, E!Spec, ExpenseSideHolds

\* So the names of active categories are distinct beside the expense service too.
THEOREM ActiveNamesStayUnique == Spec => []ActiveNamesUnique
<1>1. ActiveNamesUnique <=> C!ActiveNamesUnique
  BY DEF ActiveNamesUnique
<1>2. Spec => []C!ActiveNamesUnique
  BY CategoryAssumptionsHold, NamesUnique, CategoryDataAssumption DEF CategorySideHolds
<1>3. QED BY <1>1, <1>2, PTL

-----------------------------------------------------------------------------
(* What a deletion counts is what dangles later, but for the races.        *)

\* A category is going or gone.
Going(c) == catalog[c].deleted \/ Deleting(c)

\* From the count of a deletion on, the live expenses of its category are those
\* that were stored since.
RaceInv ==
  \A c \in Categories : Going(c) =>
    \A i \in ExpenseIds : Live(i) /\ expenses[i].fields.category = c => c \in raced

LEMMA ExpenseStepRaces ==
  ASSUME RaceInv, ExpenseStep PROVE RaceInv'
<1>1. SUFFICES ASSUME NEW c \in Categories, Going(c)', NEW i \in ExpenseIds, Live(i)',
                      expenses'[i].fields.category = c
               PROVE  c \in raced'
  BY DEF RaceInv
<1>2. Going(c)
  BY <1>1 DEF Going, Deleting, ExpenseStep, categoryVars
<1>3. raced' = raced \cup StoredLate
  BY DEF ExpenseStep
<1>4. CASE expenses'[i] = expenses[i]
  BY <1>1, <1>2, <1>3, <1>4 DEF RaceInv, Live
<1>5. CASE expenses'[i] # expenses[i]
  <2>1. c \in StoredLate
    BY <1>1, <1>2, <1>5 DEF StoredLate, Going
  <2>2. QED BY <1>3, <2>1
<1>6. QED BY <1>4, <1>5

\* A category is deleted by a deletion that has counted, and nothing else: a save
\* of a new or a changed entity never writes that mark.
LEMMA OnlyDeletionsDelete ==
  ASSUME CategoryInv, NEW q \in CategoryRequests, C!Step(q), NEW c \in Categories,
         catalog'[c].deleted
  PROVE  Going(c)
<1>1. CASE UNCHANGED catalog
  BY <1>1 DEF Going
<1>2. CASE C!SeedDefaults(q)
  <2>1. catalog'[c] = catalog[c] \/ catalog'[c].deleted = FALSE
    BY <1>2 DEF C!SeedDefaults, CategoryInv, C!TypeOK, C!Ids, Categories
  <2>2. QED BY <2>1 DEF Going
<1>3. CASE C!Write(q) /\ ~UNCHANGED catalog
  <2>1. PICK id \in C!SaveIds(q) : catalog' = [catalog EXCEPT ![id] = C!SavedRow(q, id)]
    BY <1>3 DEF C!Write
  <2>2. catalog'[c] = catalog[c] \/ (c = id /\ catalog'[c] = C!SavedRow(q, c))
    <3>1. c \in DOMAIN catalog
      BY DEF CategoryInv, C!TypeOK, C!Ids, Categories
    <3>2. catalog'[c] = IF c = id THEN C!SavedRow(q, id) ELSE catalog[c]
      BY <2>1, <3>1
    <3>3. QED BY <3>2
  <2>3. catPc[q] = "write" /\ Standing(q)
    BY <1>3 DEF C!Write, CategoryInv
  <2>4. ASSUME c = id, catalog'[c] = C!SavedRow(q, c), ~catalog[c].deleted
        PROVE  catEntity[q].deleted
    <3>1. catEntity[q] \in C!Rows
      BY <2>3 DEF Standing
    <3>2. CASE catFound[q] = Absent
      BY <2>4, <3>2 DEF C!SavedRow
    <3>3. CASE catFound[q] # Absent
      <4>1. "deleted" \in DOMAIN catEntity[q]
        BY <3>1 DEF C!Rows
      <4>2. C!SavedRow(q, c).deleted \in {catEntity[q].deleted, catalog[c].deleted}
        BY <3>3, <4>1 DEF C!SavedRow
      <4>3. QED BY <2>4, <4>2
    <3>4. QED BY <3>2, <3>3
  <2>5. ASSUME c = id, catEntity[q].deleted
        PROVE  Deleting(c)
    <3>1. catCall[q].op = "delete" /\ catCall[q] \in CallsOnCategories
      BY <2>3, <2>5 DEF Standing
    <3>2. catCall[q].id # NoId
      BY <3>1, CallFields, CategoryDataAssumption DEF C!CategoryData
    <3>3. catCall[q].id = c
      BY <2>5, <3>2 DEF C!SaveIds
    <3>4. QED BY <2>3, <3>1, <3>3 DEF Deleting
  <2>6. QED BY <2>2, <2>4, <2>5 DEF Going
<1>4. QED BY <1>1, <1>2, <1>3
   DEF C!Step, C!Receive, C!CountRows, C!FindById, C!CheckNewName, C!ReadCategory,
       C!CheckChangedName, C!CountUses, C!FindForSave, C!Crash

\* A deletion goes ahead only where it has counted no live expense.
LEMMA DeletionsCount ==
  ASSUME CategoryInv, NEW q \in CategoryRequests, C!Step(q), NEW c \in Categories,
         Deleting(c)', ~Deleting(c)
  PROVE  C!Unused(c)
<1>1. PICK r \in CategoryRequests :
        catPc'[r] \in {"find", "write"} /\ catCall'[r].op = "delete" /\ catCall'[r].id = c
  BY DEF Deleting
<1>2. r = q
  BY <1>1, StepsKeep, CategoryDataAssumption DEF StepKeeps, Deleting
<1>3. catPc'[q] \in {"find", "write"} /\ catCall'[q].op = "delete" /\ catCall'[q].id = c
  BY <1>1, <1>2
<1>4. catPc \in [CategoryRequests -> C!PCs]
  BY DEF CategoryInv, C!TypeOK
<1>5. CASE C!Receive(q)
  BY <1>3, <1>4, <1>5 DEF C!Receive, C!Goto
<1>6. CASE C!CountRows(q) \/ C!SeedDefaults(q)
  <2>1. catCall[q] \in CallsOnCategories /\ catPc'[q] \in {"seed", C!Begin(q), "done"}
    BY <1>4, <1>6 DEF C!CountRows, C!SeedDefaults, C!Goto, C!Answer, CategoryInv, Standing
  <2>2. QED BY <1>3, <2>1, BeginStands, CategoryDataAssumption
<1>7. CASE C!FindById(q) \/ C!Crash(q)
  BY <1>3, <1>4, <1>7 DEF C!FindById, C!Crash, C!ResolveReplay, C!Goto, C!Answer
<1>8. CASE C!ReadCategory(q)
  BY <1>3, <1>4, <1>8 DEF C!ReadCategory, C!Goto, C!Answer
<1>9. CASE C!CheckNewName(q) \/ C!CheckChangedName(q)
  BY <1>3, <1>9 DEF C!CheckNewName, C!CheckChangedName
<1>10. CASE C!CountUses(q)
  BY <1>3, <1>4, <1>10 DEF C!CountUses, C!Goto, C!Answer
<1>11. CASE C!FindForSave(q)
  BY <1>3, <1>11 DEF C!FindForSave, Deleting
<1>12. CASE C!Write(q)
  BY <1>3, <1>4, <1>12 DEF C!Write, C!Goto, C!Answer
<1>13. QED BY <1>5, <1>6, <1>7, <1>8, <1>9, <1>10, <1>11, <1>12 DEF C!Step

LEMMA CategoryStepRaces ==
  ASSUME JointInv, RaceInv, CategoryStep PROVE RaceInv'
<1>1. PICK q \in CategoryRequests : C!Step(q)
  BY DEF CategoryStep
<1>2. UNCHANGED expenses /\ UNCHANGED raced
  BY DEF CategoryStep, expenseVars
<1>3. SUFFICES ASSUME NEW c \in Categories, Going(c)', NEW i \in ExpenseIds, Live(i),
                      expenses[i].fields.category = c
               PROVE  c \in raced
  BY <1>2 DEF RaceInv, Live
<1>4. Going(c) \/ C!Unused(c)
  BY <1>1, <1>3, OnlyDeletionsDelete, DeletionsCount DEF Going, JointInv
<1>5. CASE Going(c)
  BY <1>3, <1>5 DEF RaceInv
<1>6. CASE C!Unused(c)
  <2>1. c # NoCategory
    BY ServiceDataHolds DEF ServiceData, EP!SentinelsAreFresh
  <2>2. [category |-> c, space |-> expenses[i].space, live |-> ~expenses[i].deleted] \in Uses
    BY <1>3, <2>1 DEF Uses, Live
  <2>3. QED BY <1>3, <1>6, <2>2 DEF C!Unused, Live
<1>7. QED BY <1>4, <1>5, <1>6

LEMMA RaceStep == JointInv /\ RaceInv /\ [Next]_vars => RaceInv'
<1>1. CASE UNCHANGED vars
  BY <1>1 DEF vars, expenseVars, categoryVars, RaceInv, Going, Deleting, Live
<1>2. QED BY <1>1, ExpenseStepRaces, CategoryStepRaces DEF Next

LEMMA NothingDangles == JointInv /\ RaceInv => DanglingOnlyByRace
<1>1. ASSUME JointInv, RaceInv, NEW i \in ExpenseIds, Dangling(i)
      PROVE  expenses[i].fields.category \in raced
  <2>1. Live(i) /\ expenses[i].fields.category # NoCategory
        /\ catalog[expenses[i].fields.category].deleted
    BY <1>1 DEF Dangling
  <2>2. expenses[i].fields.category \in Categories
    BY <1>1, <2>1, NamedCategories DEF JointInv, Live
  <2>3. QED BY <1>1, <2>1, <2>2 DEF RaceInv, Going
<1>2. QED BY <1>1 DEF DanglingOnlyByRace

\* A live expense is left with a deleted category only where the two services
\* raced, for any number of requests of both: nothing but a deletion that has
\* counted marks a category, although saves write entities that are stale.
THEOREM DanglingNeedsRace == Spec => []DanglingOnlyByRace
<1>1. Init => RaceInv
  BY DEF Init, E!Init, RaceInv, Live
<1>2. JointInv /\ RaceInv /\ [Next]_vars => RaceInv'
  BY RaceStep
<1>3. JointInv /\ RaceInv => DanglingOnlyByRace
  BY NothingDangles
<1>4. QED BY <1>1, <1>2, <1>3, JointInvariant, PTL DEF Spec
=============================================================================
