-------------------------- MODULE GroupMembership --------------------------
(***************************************************************************)
(* The write paths of participant.service.ts and group.service.ts, with    *)
(* ensureParticipantForUser (ledger.service.ts), which each of them begins *)
(* with.  No handler uses a transaction: a deletion, a creation or an      *)
(* update of a group is a chain of saves, each of what it has read.        *)
(*                                                                         *)
(* save is one step, its SELECT and its INSERT or UPDATE.  A row that is   *)
(* committed between the two makes the INSERT fail.  The UPDATE writes the *)
(* columns that differ from the row the SELECT found: those the call has   *)
(* set, and of the others any that a call has changed meanwhile.           *)
(***************************************************************************)
EXTENDS Naturals, FiniteSets

CONSTANTS
  Users, Spaces,
  ClientIds,   \* identifiers of participants that clients name
  SeedIds,     \* identifiers of participants that the database makes up
  GroupIds, Emails,
  Looks,       \* names, colours, currencies and preferences
  UserEmail,   \* the address of each account
  UserLook,
  Stored,      \* the tables that earlier calls may have left
  Requests, Calls,
  NoId, NoUser, NoEmail, NoCall,
  Keep,        \* a field the payload leaves undefined
  Absent       \* there is no row

Ids  == ClientIds \cup SeedIds
Keys == GroupIds \X Ids

Participants == [space : Spaces, user : Users \cup {NoUser}, email : Emails \cup {NoEmail},
                 look : Looks, deleted : BOOLEAN]
Groups       == [space : Spaces, creator : Users, look : Looks, archived : BOOLEAN,
                 deleted : BOOLEAN]
Members      == [role : {"owner", "member"}, status : {"active", "left"}]

Tables == [participants : [Ids -> Participants \cup {Absent}],
           groups : [GroupIds -> Groups \cup {Absent}],
           memberships : [Keys -> Members \cup {Absent}]]

ParticipantCalls ==
  [op : {"addParticipant"}, user : Users, space : Spaces, id : ClientIds \cup {NoId},
   email : Emails \cup {NoEmail}, look : Looks]
    \cup [op : {"editParticipant"}, user : Users, space : Spaces, id : Ids,
          email : Emails \cup {NoEmail, Keep}, look : Looks \cup {Keep}]
    \cup [op : {"dropParticipant"}, user : Users, space : Spaces, id : Ids]

GroupCalls ==
  [op : {"addGroup"}, user : Users, space : Spaces, who : (SUBSET Ids) \ {{}}, look : Looks]
    \cup [op : {"editGroup"}, user : Users, space : Spaces, group : GroupIds,
          who : {Keep} \cup SUBSET Ids, look : Looks \cup {Keep}, archive : BOOLEAN \cup {Keep}]
    \cup [op : {"dropGroup"}, user : Users, space : Spaces, group : GroupIds]

ASSUME GroupData ==
  /\ Calls \subseteq ParticipantCalls \cup GroupCalls /\ NoCall \notin Calls
  /\ Stored \subseteq Tables
  /\ ClientIds \cap SeedIds = {} /\ NoId \notin Ids
  /\ NoUser \notin Users /\ NoEmail \notin Emails
  /\ Keep \notin Emails \cup Looks \cup BOOLEAN
  /\ Absent \notin Participants \cup Groups \cup Members
  /\ UserEmail \in [Users -> Emails] /\ UserLook \in Looks

\* What the foreign keys and the unique index hold of the tables that are there at
\* the start; earlier calls gave every group one owner, and who was deleted has left.
ASSUME StoredRows ==
  \A t \in Stored :
    /\ \A g \in GroupIds : \A p \in Ids : t.memberships[<<g, p>>] # Absent =>
         /\ t.groups[g] # Absent /\ t.participants[p] # Absent
         /\ t.participants[p].space = t.groups[g].space
         /\ t.memberships[<<g, p>>].status = "active" => ~t.participants[p].deleted
    /\ \A g \in GroupIds : t.groups[g] # Absent =>
         \E p \in Ids :
           /\ t.memberships[<<g, p>>] = [role |-> "owner", status |-> "active"]
           /\ t.participants[p].user = t.groups[g].creator
           /\ \A r \in Ids : t.memberships[<<g, r>>] # Absent
                              /\ t.memberships[<<g, r>>].role = "owner" => r = p
    /\ \A p, r \in Ids :
         /\ t.participants[p] # Absent /\ t.participants[r] # Absent /\ p # r
         /\ ~t.participants[p].deleted /\ ~t.participants[r].deleted
         /\ t.participants[p].space = t.participants[r].space
         /\ t.participants[p].email # NoEmail
         => t.participants[p].email # t.participants[r].email

VARIABLES
  participants, groups, memberships,   \* the tables
  pc,         \* pc[q]: the await request q stands at
  call,       \* call[q]: its payload
  me,         \* me[q]: the participant of its user
  at,         \* at[q]: the group it works on
  entity,     \* entity[q]: the participant or group it is to save
  roster,     \* roster[q]: the participants its group is to have
  known,      \* known[q]: the memberships it has read
  reply,      \* reply[q]: what its client was answered
  disturbed,  \* history: requests during which another one changed a table
  raced       \* history: participants that were entered in a group while they
              \* were being deleted, or after they had been

tables == <<participants, groups, memberships>>
local  == <<call, me, at, entity, roster, known>>
vars   == <<tables, local, pc, reply, disturbed, raced>>

PCs == {"idle", "findSelf", "insertSelf", "byId", "checkEmail", "saveParticipant",
        "byIdAgain", "readParticipant", "readGroup", "assertOwner", "validate",
        "insertGroup", "readMembers", "addMembers", "changeMembers", "removeMembers",
        "saveGroup", "leave", "done"}
Statuses == {"none", "ok", "conflict", "notFound", "refused", "error", "lost"}

NoneKnown == [k \in Keys |-> Absent]

GroupTypeOK ==
  /\ participants \in [Ids -> Participants \cup {Absent}]
  /\ groups \in [GroupIds -> Groups \cup {Absent}]
  /\ memberships \in [Keys -> Members \cup {Absent}]
  /\ pc \in [Requests -> PCs]
  /\ call \in [Requests -> Calls \cup {NoCall}]
  /\ me \in [Requests -> Ids \cup {NoId}]
  /\ at \in [Requests -> GroupIds \cup {NoId}]
  /\ entity \in [Requests -> Participants \cup Groups \cup {Absent}]
  /\ roster \in [Requests -> SUBSET Ids]
  /\ known \in [Requests -> [Keys -> Members \cup {Absent}]]
  /\ reply \in [Requests -> Statuses]
  /\ disturbed \subseteq Requests
  /\ raced \subseteq Ids

GroupInit ==
  /\ \E t \in Stored : /\ participants = t.participants
                       /\ groups = t.groups
                       /\ memberships = t.memberships
  /\ pc = [q \in Requests |-> "idle"]
  /\ call = [q \in Requests |-> NoCall]
  /\ me = [q \in Requests |-> NoId]
  /\ at = [q \in Requests |-> NoId]
  /\ entity = [q \in Requests |-> Absent]
  /\ roster = [q \in Requests |-> {}]
  /\ known = [q \in Requests |-> NoneKnown]
  /\ reply = [q \in Requests |-> "none"]
  /\ disturbed = {}
  /\ raced = {}

-----------------------------------------------------------------------------
Goto(q, label) == pc' = [pc EXCEPT ![q] = label] /\ UNCHANGED reply

Answer(q, status) ==
  /\ pc' = [pc EXCEPT ![q] = "done"]
  /\ reply' = [reply EXCEPT ![q] = status]

Op(q)    == call[q].op
Space(q) == call[q].space

In(space)   == {p \in Ids : participants[p] # Absent /\ participants[p].space = space}
Live(space) == {p \in In(space) : ~participants[p].deleted}
Self(q)     == {p \in In(Space(q)) : participants[p].user = call[q].user}

\* Another live participant of the space has the address: what the handlers ask,
\* and UQ_participants_couple_email_active.
EmailTaken(space, email, id) ==
  email # NoEmail /\ \E p \in Live(space) \ {id} : participants[p].email = email

\* What a handler does once it has the participant of its user.
Begin(q) ==
  CASE Op(q) = "addParticipant" ->
         IF call[q].id # NoId THEN "byId"
         ELSE IF call[q].email # NoEmail THEN "checkEmail" ELSE "saveParticipant"
    [] Op(q) \in {"editParticipant", "dropParticipant"} -> "readParticipant"
    [] Op(q) = "addGroup" -> "validate"
    [] OTHER -> "readGroup"

Receive(q) ==
  /\ pc[q] = "idle"
  /\ \E c \in Calls : call' = [call EXCEPT ![q] = c]
  /\ Goto(q, "findSelf")
  /\ UNCHANGED <<tables, me, at, entity, roster, known>>

\* What a creation is to insert: deletedAt and userId are undefined in it.
NewParticipant(c) ==
  [space |-> c.space, user |-> NoUser, email |-> c.email, look |-> c.look, deleted |-> FALSE]

BeginWith(q) ==
  /\ Goto(q, Begin(q))
  /\ entity' = IF Op(q) = "addParticipant"
               THEN [entity EXCEPT ![q] = NewParticipant(call[q])] ELSE entity

\* ensureParticipantForUser takes a deleted participant as it is: the deletedAt it
\* sets to undefined is not written.
FindSelf(q) ==
  /\ pc[q] = "findSelf"
  /\ \/ /\ Self(q) = {}
        /\ Goto(q, "insertSelf")
        /\ UNCHANGED <<me, entity>>
     \/ \E p \in Self(q) : me' = [me EXCEPT ![q] = p] /\ BeginWith(q)
  /\ UNCHANGED <<tables, call, at, roster, known>>

\* UQ_participants_couple_user, and the index on addresses: a guest may have it.
InsertSelf(q) ==
  LET u == call[q].user IN
  /\ pc[q] = "insertSelf"
  /\ \/ /\ Self(q) = {} /\ ~EmailTaken(Space(q), UserEmail[u], NoId)
        /\ \E p \in SeedIds :
             /\ participants[p] = Absent
             /\ participants' = [participants EXCEPT ![p] =
                  [space |-> Space(q), user |-> u, email |-> UserEmail[u],
                   look |-> UserLook, deleted |-> FALSE]]
             /\ me' = [me EXCEPT ![q] = p]
        /\ BeginWith(q)
     \/ /\ Self(q) # {} \/ EmailTaken(Space(q), UserEmail[u], NoId)
        /\ Answer(q, "error")
        /\ UNCHANGED <<participants, me, entity>>
  /\ UNCHANGED <<groups, memberships, call, at, roster, known>>

-----------------------------------------------------------------------------
(* createParticipantForUser                                                *)

\* resolveCreateReplay
ResolveReplay(q) ==
  Answer(q, IF participants[call[q].id] = NewParticipant(call[q]) THEN "ok" ELSE "conflict")

FindById(q) ==
  /\ pc[q] \in {"byId", "byIdAgain"}
  /\ IF participants[call[q].id] # Absent THEN ResolveReplay(q)
     ELSE IF pc[q] = "byIdAgain" THEN Answer(q, "error")
     ELSE Goto(q, IF call[q].email # NoEmail THEN "checkEmail" ELSE "saveParticipant")
  /\ UNCHANGED <<tables, local>>

CheckEmail(q) ==
  /\ pc[q] = "checkEmail"
  /\ IF EmailTaken(Space(q), call[q].email, call[q].id) THEN Answer(q, "conflict")
     ELSE IF /\ Op(q) = "addParticipant"   \* the one that has it is this one
             /\ \E p \in Live(Space(q)) : p = call[q].id /\ participants[p].email = call[q].email
     THEN ResolveReplay(q)
     ELSE Goto(q, "saveParticipant")
  /\ UNCHANGED <<tables, local>>

-----------------------------------------------------------------------------
(* updateParticipantForUser and deleteParticipantForUser                   *)

\* An address that is cleared becomes undefined.
ChangedParticipant(c, row) ==
  IF c.op = "dropParticipant" THEN [row EXCEPT !.deleted = TRUE]
  ELSE [row EXCEPT !.email = IF c.email = Keep THEN @ ELSE c.email,
                   !.look = IF c.look = Keep THEN @ ELSE c.look]

ReadParticipant(q) ==
  LET c == call[q] IN
  /\ pc[q] = "readParticipant"
  /\ IF Op(q) = "dropParticipant" /\ c.id = me[q]
     THEN Answer(q, "refused") /\ UNCHANGED entity
     ELSE IF c.id \notin Live(Space(q))
     THEN Answer(q, "notFound") /\ UNCHANGED entity
     ELSE /\ entity' = [entity EXCEPT ![q] = ChangedParticipant(c, participants[c.id])]
          /\ Goto(q, IF Op(q) = "editParticipant" /\ c.email \notin {Keep, NoEmail}
                     THEN "checkEmail" ELSE "saveParticipant")
  /\ UNCHANGED <<tables, call, me, at, roster, known>>

-----------------------------------------------------------------------------
(* The save of a participant                                               *)

\* The columns a call sets, and those its entity defines: a column that is left or
\* made undefined is not written to a row that is there.
Set(q) ==
  LET c == call[q] IN
  CASE c.op = "addParticipant" -> {"space", "look"} \cup (IF c.email = NoEmail THEN {} ELSE {"email"})
    [] c.op = "editParticipant" -> (IF c.email \in {Keep, NoEmail} THEN {} ELSE {"email"})
                                     \cup (IF c.look = Keep THEN {} ELSE {"look"})
    [] c.op = "dropParticipant" -> {"deleted"}
    [] c.op = "editGroup" -> (IF c.look = Keep THEN {} ELSE {"look"})
                               \cup (IF c.archive = Keep THEN {} ELSE {"archived"})
                               \cup (IF c.archive = TRUE THEN {"deleted"} ELSE {})
    [] OTHER -> {"archived", "deleted"}

Defined(q) ==
  LET c == call[q] IN
  CASE c.op = "addParticipant" -> Set(q)
    [] c.op = "editParticipant" -> {"space", "look", "deleted"}
                                     \cup (IF c.email = NoEmail THEN {} ELSE {"email"})
    [] c.op = "dropParticipant" -> {"space", "email", "look", "deleted"}
    [] OTHER -> {"look", "archived"}
                  \cup (IF c.op = "editGroup" /\ c.archive = FALSE THEN {} ELSE {"deleted"})

Saved(q, row) ==
  {[k \in DOMAIN row |-> IF k \in written THEN entity[q][k] ELSE row[k]] :
     written \in {w \in SUBSET Defined(q) : Set(q) \subseteq w}}

SavedParticipants(q, p) ==
  IF participants[p] = Absent THEN {entity[q]} ELSE Saved(q, participants[p])

SaveIds(q) ==
  IF Op(q) # "addParticipant" \/ call[q].id # NoId THEN {call[q].id}
  ELSE {p \in SeedIds : participants[p] = Absent}

\* Mutant: the database has no index on addresses.
AnyEmail(row, p) == FALSE

EmailViolated(row, p) == ~row.deleted /\ EmailTaken(row.space, row.email, p)

\* Mutant: memberships reference a participant by its id only.
NeverStranded(row, p) == FALSE

\* FK_group_members_participant_couple: who is in a group stays in its space.
Stranded(row, p) ==
  \E g \in GroupIds : memberships[<<g, p>>] # Absent /\ groups[g].space # row.space

Unique(q) == IF Op(q) = "addParticipant" /\ call[q].id # NoId
             THEN Goto(q, "byIdAgain") ELSE Answer(q, "error")

SaveParticipant(q) ==
  /\ pc[q] = "saveParticipant"
  /\ \E p \in SaveIds(q) : \E row \in SavedParticipants(q, p) :
       \/ /\ ~EmailViolated(row, p) /\ ~Stranded(row, p)
          /\ participants' = [participants EXCEPT ![p] = row]
          /\ IF Op(q) = "dropParticipant" THEN Goto(q, "readMembers") ELSE Answer(q, "ok")
       \/ /\ EmailViolated(row, p) \/ (Op(q) = "addParticipant" /\ participants[p] # Absent)
          /\ Unique(q)
          /\ UNCHANGED participants
       \/ /\ Stranded(row, p)
          /\ Answer(q, "error")
          /\ UNCHANGED participants
  /\ UNCHANGED <<groups, memberships, local>>

-----------------------------------------------------------------------------
(* updateGroupForUser and deleteGroupForUser, up to their checks            *)

ChangedGroup(c, row) ==
  IF c.op = "dropGroup" \/ c.archive = TRUE
  THEN [row EXCEPT !.archived = TRUE, !.deleted = TRUE,
                   !.look = IF c.op = "dropGroup" \/ c.look = Keep THEN @ ELSE c.look]
  ELSE [row EXCEPT !.archived = IF c.archive = Keep THEN @ ELSE FALSE,
                   !.look = IF c.look = Keep THEN @ ELSE c.look]

ReadGroup(q) ==
  LET g == call[q].group
      row == groups[g] IN
  /\ pc[q] = "readGroup"
  /\ at' = [at EXCEPT ![q] = g]
  /\ IF row = Absent THEN Answer(q, "notFound") /\ UNCHANGED entity
     ELSE IF row.space # Space(q) \/ row.deleted
     THEN Answer(q, "notFound") /\ UNCHANGED entity
     ELSE /\ entity' = [entity EXCEPT ![q] = ChangedGroup(call[q], row)]
          /\ Goto(q, "assertOwner")
  /\ UNCHANGED <<tables, call, me, roster, known>>

Active(m) == m # Absent /\ m.status = "active"

Owns(m) == Active(m) /\ m.role = "owner"

AssertOwner(q) ==
  /\ pc[q] = "assertOwner"
  /\ IF ~Owns(memberships[<<at[q], me[q]>>]) THEN Answer(q, "refused")
     ELSE Goto(q, IF Op(q) = "editGroup" /\ call[q].who # Keep THEN "validate" ELSE "saveGroup")
  /\ UNCHANGED <<tables, local>>

\* Mutant: the caller is not among the members unless the call names it.
OnlyNamed(q) == call[q].who

Named(q) == call[q].who \cup {me[q]}

\* assertParticipantsBelongToCouple
Validate(q) ==
  /\ pc[q] = "validate"
  /\ IF Named(q) \subseteq Live(Space(q))
     THEN /\ roster' = [roster EXCEPT ![q] = Named(q)]
          /\ Goto(q, IF Op(q) = "addGroup" THEN "insertGroup" ELSE "readMembers")
     ELSE Answer(q, "refused") /\ UNCHANGED roster
  /\ UNCHANGED <<tables, call, me, at, entity, known>>

InsertGroup(q) ==
  /\ pc[q] = "insertGroup"
  /\ \E g \in GroupIds :
       /\ groups[g] = Absent
       /\ groups' = [groups EXCEPT ![g] = [space |-> Space(q), creator |-> call[q].user,
                      look |-> call[q].look, archived |-> FALSE, deleted |-> FALSE]]
       /\ at' = [at EXCEPT ![q] = g]
  /\ Goto(q, "addMembers")
  /\ UNCHANGED <<participants, memberships, call, me, entity, roster, known>>

-----------------------------------------------------------------------------
(* The members of a group.  Each save writes its rows in one transaction.   *)
(* One without rows is not made: here it is a step that changes no table.   *)

\* The rows of a group, or of a deleted participant.
Concerned(q) ==
  IF Op(q) = "dropParticipant" THEN GroupIds \X {call[q].id} ELSE {at[q]} \X Ids

ReadMembers(q) ==
  /\ pc[q] = "readMembers"
  /\ known' = [known EXCEPT ![q] =
       [k \in Keys |-> IF k \in Concerned(q) THEN memberships[k] ELSE Absent]]
  /\ Goto(q, IF Op(q) = "editGroup" THEN "addMembers" ELSE "leave")
  /\ UNCHANGED <<tables, call, me, at, entity, roster>>

Write(rows) ==
  memberships' = [k \in Keys |-> IF k \in DOMAIN rows THEN rows[k] ELSE memberships[k]]

Desired(q, k) == [role |-> IF k[2] = me[q] THEN "owner" ELSE "member", status |-> "active"]
Wanted(q)     == {at[q]} \X roster[q]

Added(q)   == {k \in Wanted(q) : known[q][k] = Absent}
Changed(q) == {k \in Wanted(q) : known[q][k] \notin {Absent, Desired(q, k)}}

\* Mutant: a member that was named once stays.
NoneRemoved(q) == {}

Removed(q) == {k \in Keys \ Wanted(q) : Active(known[q][k])}

\* FK_group_members_participant_couple
Referenced(k) == participants[k[2]].space = groups[k[1]].space

AddMembers(q) ==
  /\ pc[q] = "addMembers"
  /\ \/ /\ \A k \in Added(q) : Referenced(k)
        /\ Write([k \in Added(q) |-> Desired(q, k)])
        /\ IF Op(q) = "addGroup" THEN Answer(q, "ok") ELSE Goto(q, "changeMembers")
     \/ /\ \E k \in Added(q) : memberships[k] # Absent \/ ~Referenced(k)
        /\ Answer(q, "error")
        /\ UNCHANGED memberships
  /\ UNCHANGED <<participants, groups, local>>

ChangeMembers(q) ==
  /\ pc[q] = "changeMembers"
  /\ Write([k \in Changed(q) |-> Desired(q, k)])
  /\ Goto(q, "removeMembers")
  /\ UNCHANGED <<participants, groups, local>>

RemoveMembers(q) ==
  /\ pc[q] = "removeMembers"
  /\ Write([k \in Removed(q) |-> [known[q][k] EXCEPT !.status = "left"]])
  /\ Goto(q, "saveGroup")
  /\ UNCHANGED <<participants, groups, local>>

SaveGroup(q) ==
  /\ pc[q] = "saveGroup"
  /\ \E row \in Saved(q, groups[at[q]]) : groups' = [groups EXCEPT ![at[q]] = row]
  /\ IF Op(q) = "dropGroup" THEN Goto(q, "readMembers") ELSE Answer(q, "ok")
  /\ UNCHANGED <<participants, memberships, local>>

\* Mutant: only the members of a group leave it, not its owner.
MembersLeave(q) == {k \in Keys : known[q][k] # Absent /\ known[q][k].role = "member"}

Leaving(q) == {k \in Keys : known[q][k] # Absent}

Leave(q) ==
  /\ pc[q] = "leave"
  /\ Write([k \in Leaving(q) |-> [known[q][k] EXCEPT !.status = "left"]])
  /\ Answer(q, "ok")
  /\ UNCHANGED <<participants, groups, local>>

-----------------------------------------------------------------------------
\* A statement fails for a reason of its own, its acknowledgement is lost, or the
\* process dies.
Crash(q) ==
  /\ pc[q] \notin {"idle", "done"}
  /\ Answer(q, "lost")
  /\ UNCHANGED <<tables, local>>

Handle(q) ==
  \/ FindSelf(q) \/ InsertSelf(q)
  \/ FindById(q) \/ CheckEmail(q) \/ ReadParticipant(q) \/ SaveParticipant(q)
  \/ ReadGroup(q) \/ AssertOwner(q) \/ Validate(q) \/ InsertGroup(q) \/ ReadMembers(q)
  \/ AddMembers(q) \/ ChangeMembers(q) \/ RemoveMembers(q) \/ SaveGroup(q) \/ Leave(q)

\* The history variables.
Note(q) ==
  /\ disturbed' = IF tables' = tables THEN disturbed
                  ELSE disturbed \cup {r \in Requests \ {q} : pc[r] \notin {"idle", "done"}}
  /\ raced' = raced \cup {p \in Ids : participants[p] # Absent /\ participants[p].deleted
                          /\ \E g \in GroupIds : /\ Active(memberships'[<<g, p>>])
                                                /\ ~Active(memberships[<<g, p>>])}

GroupNext == \E q \in Requests : (Receive(q) \/ Handle(q) \/ Crash(q)) /\ Note(q)

GroupSpec == GroupInit /\ [][GroupNext]_vars

-----------------------------------------------------------------------------
(* Properties                                                              *)

Entered(g) == {p \in Ids : memberships[<<g, p>>] # Absent}
Present(g) == {p \in Ids : Active(memberships[<<g, p>>])}

\* Whatever creations, edits and updates of groups race, nobody is in a group of
\* another space: the foreign keys of migration 009 hold what the checks miss.
MembersOfTheirSpace ==
  \A g \in GroupIds : groups[g] # Absent =>
    \A p \in Entered(g) : participants[p].space = groups[g].space

\* The check of an address and the save are two statements, and a stale save may
\* bring a deleted participant back: no two live ones share an address even so.
ActiveEmailsUnique ==
  \A p, r \in Ids :
    /\ participants[p] # Absent /\ participants[r] # Absent /\ p # r
    /\ ~participants[p].deleted /\ ~participants[r].deleted
    /\ participants[p].space = participants[r].space /\ participants[p].email # NoEmail
    => participants[p].email # participants[r].email

\* Through all creations and updates, a group has one owner, its creator, and keeps
\* it until the group or that participant is deleted; only a creation that has not
\* come to its second save, or never does, leaves it without.
GroupsKeepOwner ==
  \A g \in GroupIds : groups[g] # Absent =>
    LET owners == {p \in Entered(g) : memberships[<<g, p>>].role = "owner"} IN
    /\ \/ /\ Cardinality(owners) = 1
          /\ \A p \in owners : participants[p].user = groups[g].creator
       \/ /\ Entered(g) = {}
          /\ \E q \in Requests : at[q] = g /\ Op(q) = "addGroup" /\ reply[q] # "ok"
    /\ \A p \in owners \ Present(g) :
         \E q \in Requests : /\ pc[q] # "idle"
                           /\ \/ Op(q) = "dropGroup" /\ call[q].group = g
                              \/ Op(q) = "dropParticipant" /\ call[q].id = p

\* The three saves of an update, with no other call in between, leave the members
\* it named and nobody else.
UndisturbedUpdateSyncs ==
  [][\A q \in Requests :
       /\ pc[q] # "done" /\ reply'[q] = "ok" /\ q \notin disturbed
       /\ Op(q) = "addGroup" \/ (Op(q) = "editGroup" /\ call[q].who # Keep)
       => {p \in Ids : Active(memberships'[<<at[q], p>>])} = call[q].who \cup {me[q]}]_vars

\* A deleted participant is active in a group only if it was entered there while
\* it was deleted, or if its deletion is under way or was cut short.
DepartedOnlyByRace ==
  \A g \in GroupIds : \A p \in Present(g) :
    participants[p].deleted =>
      \/ p \in raced
      \/ \E q \in Requests : /\ pc[q] # "idle" /\ Op(q) = "dropParticipant" /\ call[q].id = p
                            /\ (pc[q] \in {"readMembers", "leave"} \/ reply[q] = "lost")

\* 'delete group: isArchived = true, soft delete' (GUIDE-API_CODE.md): a group
\* whose deletion was answered is deleted.
DeletedGroupsStay ==
  \A q \in Requests : reply[q] = "ok" /\ Op(q) = "dropGroup" => groups[call[q].group].deleted
=============================================================================
