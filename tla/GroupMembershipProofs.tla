------------------------ MODULE GroupMembershipProofs ------------------------
(***************************************************************************)
(* Type correctness and safety of groups and participants, for all sets of *)
(* users, spaces, requests and calls: members belong to the space of their *)
(* group, addresses are unique, groups keep their owner, and who is        *)
(* deleted stays in a group only by a race.                                *)
(***************************************************************************)
EXTENDS GroupMembership, FiniteSetTheorems, TLAPS

\* The operations that come to an await.
OpsAt(label) ==
  CASE label \in {"byId", "byIdAgain"} -> {"addParticipant"}
    [] label = "checkEmail" -> {"addParticipant", "editParticipant"}
    [] label = "readParticipant" -> {"editParticipant", "dropParticipant"}
    [] label = "saveParticipant" -> {"addParticipant", "editParticipant", "dropParticipant"}
    [] label \in {"readGroup", "assertOwner", "saveGroup"} -> {"editGroup", "dropGroup"}
    [] label \in {"validate", "addMembers"} -> {"addGroup", "editGroup"}
    [] label = "insertGroup" -> {"addGroup"}
    [] label \in {"changeMembers", "removeMembers"} -> {"editGroup"}
    [] label = "readMembers" -> {"editGroup", "dropGroup", "dropParticipant"}
    [] label = "leave" -> {"dropGroup", "dropParticipant"}
    [] OTHER -> {"addParticipant", "editParticipant", "dropParticipant", "addGroup",
                 "editGroup", "dropGroup"}

\* Who the caller is, and what a call of a participant is to save.
Calling(q) ==
  /\ pc[q] # "done" => reply[q] = "none"
  /\ pc[q] \notin {"idle", "done"} => call[q] \in Calls /\ Op(q) \in OpsAt(pc[q])
  /\ pc[q] \notin {"idle", "findSelf", "insertSelf", "done"} =>
       me[q] \in Ids /\ participants[me[q]] # Absent /\ participants[me[q]].user = call[q].user
  /\ pc[q] \in {"byId", "byIdAgain"} => call[q].id # NoId
  /\ pc[q] \in {"byId", "checkEmail", "saveParticipant"} =>
       /\ entity[q] \in Participants
       /\ Op(q) # "addParticipant" => participants[call[q].id] # Absent
       /\ Op(q) # "dropParticipant" => ~entity[q].deleted

\* The group a call works on.
Working(q) ==
  /\ /\ pc[q] \in {"assertOwner", "validate", "readMembers", "addMembers", "changeMembers",
                   "removeMembers", "saveGroup", "leave"}
     /\ Op(q) \in {"editGroup", "dropGroup"}
     =>
       /\ at[q] = call[q].group /\ at[q] \in GroupIds
       /\ groups[at[q]] # Absent /\ entity[q] \in Groups
  /\ pc[q] = "addMembers" /\ Op(q) = "addGroup" =>
       /\ at[q] \in GroupIds /\ groups[at[q]] # Absent
       /\ groups[at[q]].creator = call[q].user
       /\ me[q] \in roster[q]
  /\ \/ pc[q] \notin {"readMembers", "addMembers", "changeMembers", "removeMembers", "saveGroup",
                      "leave", "done"}
     \/ Op(q) = "addGroup"
     => known[q] = NoneKnown
  /\ pc[q] = "validate" /\ Op(q) = "editGroup" => call[q].who # Keep
  /\ pc[q] = "insertGroup" => me[q] \in roster[q]
  /\ \A p \in roster[q] : participants[p] # Absent

OwnerOf(g, p) == memberships[<<g, p>>] # Absent /\ memberships[<<g, p>>].role = "owner"

\* What a call has read of the members, and that it is its owner who updates a group.
Reading(q) ==
  /\ \A g \in GroupIds : \A p \in Ids : known[q][<<g, p>>] # Absent =>
       /\ memberships[<<g, p>>] # Absent /\ memberships[<<g, p>>].role = known[q][<<g, p>>].role
       /\ pc[q] \notin {"idle", "done"} =>
            IF Op(q) = "dropParticipant" THEN p = call[q].id ELSE g = at[q]
  /\ pc[q] # "idle" /\ Op(q) = "editGroup" =>
       /\ pc[q] \in {"validate", "readMembers", "addMembers", "changeMembers", "removeMembers"} =>
            OwnerOf(at[q], me[q])
       /\ pc[q] \in {"readMembers", "addMembers", "changeMembers", "removeMembers"} =>
            me[q] \in roster[q]
       /\ pc[q] \in {"addMembers", "changeMembers", "removeMembers"} =>
            known[q][<<at[q], me[q]>>] # Absent

Standing(q) == Calling(q) /\ Working(q) /\ Reading(q)

\* A creation has the group it has inserted to itself.
FoundingInv ==
  \A q \in Requests : pc[q] = "addMembers" /\ Op(q) = "addGroup" =>
    /\ Entered(at[q]) = {}
    /\ \A r \in Requests \ {q} : pc[r] = "addMembers" /\ Op(r) = "addGroup" => at[r] # at[q]

ReferenceInv ==
  \A g \in GroupIds : \A p \in Ids : memberships[<<g, p>>] # Absent =>
    /\ groups[g] # Absent /\ participants[p] # Absent
    /\ participants[p].space = groups[g].space

OwnerInv ==
  \A g \in GroupIds : groups[g] # Absent =>
    \/ \E p \in Ids : /\ OwnerOf(g, p) /\ participants[p].user = groups[g].creator
                      /\ \A r \in Ids : OwnerOf(g, r) => r = p
    \/ /\ Entered(g) = {}
       /\ \E q \in Requests : /\ pc[q] \in {"addMembers", "done"} /\ at[q] = g
                             /\ Op(q) = "addGroup" /\ reply[q] # "ok"

OwnersLeave ==
  \A g \in GroupIds : \A p \in Ids : OwnerOf(g, p) /\ ~Active(memberships[<<g, p>>]) =>
    \E q \in Requests : /\ pc[q] # "idle"
                       /\ \/ Op(q) = "dropGroup" /\ call[q].group = g
                          \/ Op(q) = "dropParticipant" /\ call[q].id = p

\* The deletion that is to end the membership of a deleted participant.
Ends(q, g, p) ==
  /\ pc[q] # "idle" /\ Op(q) = "dropParticipant" /\ call[q].id = p
  /\ \/ pc[q] = "readMembers"
     \/ pc[q] = "leave" /\ known[q][<<g, p>>] # Absent
     \/ pc[q] = "done" /\ reply[q] = "lost"

DepartInv ==
  \A g \in GroupIds : \A p \in Ids :
    Active(memberships[<<g, p>>]) /\ participants[p].deleted =>
      p \in raced \/ \E q \in Requests : Ends(q, g, p)

GroupInv ==
  /\ GroupTypeOK
  /\ \A q \in Requests : Standing(q)
  /\ FoundingInv
  /\ ReferenceInv
  /\ ActiveEmailsUnique
  /\ OwnerInv
  /\ OwnersLeave
  /\ DepartInv
-----------------------------------------------------------------------------
(* Lemmas on calls, rows and steps.                                        *)

\* The fields of a call.
LEMMA CallFields ==
  ASSUME NEW c \in Calls
  PROVE  /\ c.user \in Users /\ c.space \in Spaces
         /\ c.op \in {"addParticipant", "editParticipant", "dropParticipant", "addGroup",
                      "editGroup", "dropGroup"}
         /\ c.op = "addParticipant" =>
              c.id \in ClientIds \cup {NoId} /\ c.email \in Emails \cup {NoEmail} /\ c.look \in Looks
         /\ c.op = "editParticipant" =>
              /\ c.id \in Ids /\ c.email \in Emails \cup {NoEmail, Keep}
              /\ c.look \in Looks \cup {Keep}
         /\ c.op = "dropParticipant" => c.id \in Ids
         /\ c.op = "addGroup" => c.who \in SUBSET Ids /\ c.look \in Looks
         /\ c.op = "editGroup" =>
              /\ c.group \in GroupIds /\ c.who \in {Keep} \cup SUBSET Ids
              /\ c.look \in Looks \cup {Keep} /\ c.archive \in BOOLEAN \cup {Keep}
         /\ c.op = "dropGroup" => c.group \in GroupIds
PROOF
  BY GroupData DEF ParticipantCalls, GroupCalls

\* A save that writes some columns of a participant leaves a participant.
LEMMA MixedParticipant ==
  ASSUME NEW row \in Participants, NEW e \in Participants, NEW W
  PROVE  [k \in DOMAIN row |-> IF k \in W THEN e[k] ELSE row[k]] \in Participants
PROOF
  <1> DEFINE new == [k \in DOMAIN row |-> IF k \in W THEN e[k] ELSE row[k]]
  <1>1. DOMAIN row = {"space", "user", "email", "look", "deleted"}
    BY DEF Participants
  <1>2. new = [space |-> new.space, user |-> new.user, email |-> new.email,
               look |-> new.look, deleted |-> new.deleted]
    BY <1>1
  <1>3. /\ new.space \in Spaces /\ new.user \in Users \cup {NoUser}
        /\ new.email \in Emails \cup {NoEmail} /\ new.look \in Looks /\ new.deleted \in BOOLEAN
    BY <1>1 DEF Participants
  <1> HIDE DEF new
  <1>4. new \in Participants
    BY <1>2, <1>3 DEF Participants
  <1> QED
    BY <1>4 DEF new

\* So does one of a group.
LEMMA MixedGroup ==
  ASSUME NEW row \in Groups, NEW e \in Groups, NEW W
  PROVE  [k \in DOMAIN row |-> IF k \in W THEN e[k] ELSE row[k]] \in Groups
PROOF
  <1> DEFINE new == [k \in DOMAIN row |-> IF k \in W THEN e[k] ELSE row[k]]
  <1>1. DOMAIN row = {"space", "creator", "look", "archived", "deleted"}
    BY DEF Groups
  <1>2. new = [space |-> new.space, creator |-> new.creator, look |-> new.look,
               archived |-> new.archived, deleted |-> new.deleted]
    BY <1>1
  <1>3. /\ new.space \in Spaces /\ new.creator \in Users /\ new.look \in Looks
        /\ new.archived \in BOOLEAN /\ new.deleted \in BOOLEAN
    BY <1>1 DEF Groups
  <1> HIDE DEF new
  <1>4. new \in Groups
    BY <1>2, <1>3 DEF Groups
  <1> QED
    BY <1>4 DEF new

\* The rows a save of a participant may leave: its user stays, and only a deletion
\* deletes it.
LEMMA SavedParticipantFields ==
  ASSUME NEW q \in Requests, NEW row \in Participants, entity[q] \in Participants,
         Op(q) \in {"addParticipant", "editParticipant", "dropParticipant"},
         NEW new \in Saved(q, row)
  PROVE  /\ new \in Participants
         /\ new.user = row.user
         /\ new.deleted => row.deleted \/ entity[q].deleted
PROOF
  <1>1. PICK W \in SUBSET Defined(q) :
          new = [k \in DOMAIN row |-> IF k \in W THEN entity[q][k] ELSE row[k]]
    BY DEF Saved
  <1>2. "user" \notin W
    BY DEF Defined, Set, Op
  <1>3. DOMAIN row = {"space", "user", "email", "look", "deleted"}
    BY DEF Participants
  <1>4. new.user = row.user /\ new.deleted = IF "deleted" \in W THEN entity[q].deleted ELSE row.deleted
    BY <1>1, <1>2, <1>3
  <1>5. new \in Participants
    BY <1>1, MixedParticipant
  <1> QED
    BY <1>4, <1>5

\* A save of a group leaves its space and its creator.
LEMMA SavedGroupFields ==
  ASSUME NEW q \in Requests, NEW row \in Groups, entity[q] \in Groups,
         Op(q) \in {"editGroup", "dropGroup"},
         NEW new \in Saved(q, row)
  PROVE  new \in Groups /\ new.space = row.space /\ new.creator = row.creator
PROOF
  <1>1. PICK W \in SUBSET Defined(q) :
          new = [k \in DOMAIN row |-> IF k \in W THEN entity[q][k] ELSE row[k]]
    BY DEF Saved
  <1>2. "space" \notin W /\ "creator" \notin W
    BY DEF Defined, Op
  <1>3. DOMAIN row = {"space", "creator", "look", "archived", "deleted"}
    BY DEF Groups
  <1>4. new.space = row.space /\ new.creator = row.creator
    BY <1>1, <1>2, <1>3
  <1>5. new \in Groups
    BY <1>1, MixedGroup
  <1> QED
    BY <1>4, <1>5

\* No row is removed; a participant keeps its user, a group its space and creator, a
\* member the role it entered with.
Grow ==
  /\ \A p \in Ids : participants[p] # Absent =>
       participants'[p] # Absent /\ participants'[p].user = participants[p].user
  /\ \A g \in GroupIds : groups[g] # Absent =>
       /\ groups'[g] # Absent
       /\ groups'[g].space = groups[g].space /\ groups'[g].creator = groups[g].creator
  /\ \A g \in GroupIds : \A p \in Ids : memberships[<<g, p>>] # Absent =>
       memberships'[<<g, p>>] # Absent /\ memberships'[<<g, p>>].role = memberships[<<g, p>>].role

\* A step of q is no step of r.
Framed(r) ==
  /\ pc'[r] = pc[r] /\ call'[r] = call[r] /\ me'[r] = me[r] /\ at'[r] = at[r]
  /\ entity'[r] = entity[r] /\ roster'[r] = roster[r] /\ known'[r] = known[r]
  /\ reply'[r] = reply[r]

\* What one request knows stays true while another one works.
LEMMA OthersStand ==
  ASSUME GroupTypeOK, NEW r \in Requests, Standing(r), Framed(r), Grow
  PROVE  Standing(r)'
PROOF
  <1> USE DEF Framed
  <1>1. Calling(r)'
    <2>1. pc[r] \notin {"idle", "done"} => call[r] \in Calls /\ Op(r) \in OpsAt(pc[r])
      BY DEF Standing, Calling
    <2>2. pc[r] \in {"byId", "checkEmail", "saveParticipant"} /\ Op(r) # "addParticipant" =>
            call[r].id \in Ids
      BY <2>1, CallFields DEF OpsAt, Op
    <2> QED
      BY <2>2 DEF Standing, Calling, Grow, Op, OpsAt
  <1>2. Working(r)'
    BY DEF Standing, Working, Grow, Op, GroupTypeOK
  <1>3. Reading(r)'
    <2>1. pc[r] \in {"validate", "readMembers", "addMembers", "changeMembers", "removeMembers"}
            /\ Op(r) = "editGroup" => at[r] \in GroupIds /\ me[r] \in Ids
      BY DEF Standing, Working, Calling
    <2> QED
      BY <2>1 DEF Standing, Reading, Grow, Op, OwnerOf
  <1> QED
    BY <1>1, <1>2, <1>3 DEF Standing

\* The history variables keep their types.
LEMMA NoteTyped ==
  ASSUME GroupTypeOK, NEW q \in Requests, Note(q)
  PROVE  disturbed' \subseteq Requests /\ raced' \subseteq Ids
PROOF
  BY DEF GroupTypeOK, Note

-----------------------------------------------------------------------------
(* Each action keeps the types, its request stands where it says, and the  *)
(* tables grow.                                                            *)

\* What every action of q is to be shown to do.
Kept(q) ==
  /\ GroupTypeOK' /\ Standing(q)' /\ Grow
  /\ \A r \in Requests \ {q} : Framed(r)

LEMMA ReceiveKept ==
  ASSUME GroupTypeOK, NEW q \in Requests, Standing(q), Receive(q), Note(q)
  PROVE  Kept(q)
PROOF
  <1>1. PICK c \in Calls : call' = [call EXCEPT ![q] = c]
    BY DEF Receive
  <1>2. GroupTypeOK'
    BY <1>1, NoteTyped DEF GroupTypeOK, Receive, Goto, tables, PCs
  <1>3. call'[q] = c /\ pc'[q] = "findSelf" /\ reply'[q] = "none" /\ known'[q] = NoneKnown
        /\ UNCHANGED <<tables, me, at, entity, roster, known>>
    BY <1>1 DEF GroupTypeOK, Receive, Goto, Standing, Calling, Working
  <1>4. Grow /\ \A r \in Requests \ {q} : Framed(r)
    BY <1>1 DEF GroupTypeOK, Receive, Goto, tables, Grow, Framed
  <1>5. Calling(q)'
    BY <1>3, CallFields DEF Calling, OpsAt, Op
  <1>6. Working(q)'
    BY <1>3 DEF Standing, Working, tables
  <1>7. Reading(q)'
    BY <1>3 DEF Reading, NoneKnown, Keys
  <1> QED
    BY <1>2, <1>4, <1>5, <1>6, <1>7 DEF Kept, Standing

\* A request that is answered knows what it knew.
LEMMA DoneStands ==
  ASSUME GroupTypeOK, NEW q \in Requests, Standing(q), Grow,
         pc'[q] = "done", call'[q] = call[q], roster'[q] = roster[q], known'[q] = known[q],
         pc[q] # "idle"
  PROVE  Standing(q)'
PROOF
  <1>1. Calling(q)'
    BY DEF Calling, OpsAt
  <1>2. Working(q)'
    BY DEF Standing, Working, Grow, GroupTypeOK, Op
  <1>3. Reading(q)'
    BY DEF Standing, Reading, Grow, Op
  <1> QED
    BY <1>1, <1>2, <1>3 DEF Standing

\* What a creation inserts.
LEMMA NewParticipantTyped ==
  ASSUME NEW c \in Calls, c.op = "addParticipant"
  PROVE  NewParticipant(c) \in Participants /\ ~NewParticipant(c).deleted
PROOF
  BY CallFields DEF NewParticipant, Participants

\* With the participant of its user a request is ready for its operation.
LEMMA BeginStands ==
  ASSUME GroupTypeOK, NEW q \in Requests, Standing(q), pc[q] \in {"findSelf", "insertSelf"},
         BeginWith(q), Grow, UNCHANGED <<call, at, roster, known>>,
         me'[q] \in Ids, participants'[me'[q]] # Absent,
         participants'[me'[q]].user = call[q].user
  PROVE  /\ Standing(q)'
         /\ pc' \in [Requests -> PCs] /\ UNCHANGED reply
         /\ entity' \in [Requests -> Participants \cup Groups \cup {Absent}]
         /\ \A r \in Requests \ {q} : pc'[r] = pc[r] /\ entity'[r] = entity[r]
PROOF
  <1>1. call[q] \in Calls /\ reply[q] = "none"
    BY DEF Standing, Calling
  <1>2. /\ pc' = [pc EXCEPT ![q] = Begin(q)] /\ UNCHANGED reply
        /\ Begin(q) \in PCs
    BY DEF BeginWith, Goto, Begin, PCs
  <1>3. /\ Op(q) = "addParticipant" => entity' = [entity EXCEPT ![q] = NewParticipant(call[q])]
        /\ Op(q) # "addParticipant" => entity' = entity
    BY DEF BeginWith
  <1>4. Op(q) = "addParticipant" =>
          NewParticipant(call[q]) \in Participants /\ ~NewParticipant(call[q]).deleted
    BY <1>1, NewParticipantTyped DEF Op
  <1>5. /\ pc' \in [Requests -> PCs]
        /\ entity' \in [Requests -> Participants \cup Groups \cup {Absent}]
        /\ \A r \in Requests \ {q} : pc'[r] = pc[r] /\ entity'[r] = entity[r]
    BY <1>2, <1>3, <1>4 DEF GroupTypeOK
  <1>6. pc'[q] = Begin(q)
    BY <1>2 DEF GroupTypeOK
  <1>7. Calling(q)'
    <2>1. CASE Op(q) = "addParticipant"
      <3>1. entity'[q] \in Participants /\ ~entity'[q].deleted
        BY <2>1, <1>3, <1>4 DEF GroupTypeOK
      <3>2. pc'[q] \in {"byId", "checkEmail", "saveParticipant"}
            /\ (pc'[q] = "byId" => call[q].id # NoId)
        BY <2>1, <1>6 DEF Begin
      <3> QED
        BY <2>1, <1>1, <1>2, <3>1, <3>2 DEF Calling, OpsAt, Op
    <2>2. CASE Op(q) \in {"editParticipant", "dropParticipant"}
      BY <2>2, <1>1, <1>2, <1>6 DEF Calling, OpsAt, Op, Begin
    <2>3. CASE Op(q) \in {"addGroup", "editGroup", "dropGroup"}
      BY <2>3, <1>1, <1>2, <1>6 DEF Calling, OpsAt, Op, Begin
    <2> QED
      BY <2>1, <2>2, <2>3, <1>1, CallFields DEF Op
  <1>8. pc'[q] \notin {"idle", "assertOwner", "readMembers", "addMembers", "changeMembers",
                       "removeMembers", "saveGroup", "leave", "insertGroup", "done"}
        /\ (pc'[q] = "validate" => Op(q) = "addGroup")
    BY <1>6, <1>1, CallFields DEF Begin, Op
  <1>9. Working(q)'
    BY <1>8 DEF Standing, Working, Grow, GroupTypeOK, Op
  <1>10. Reading(q)'
    BY <1>8 DEF Standing, Reading, Grow, Op
  <1> QED
    BY <1>2, <1>5, <1>7, <1>9, <1>10 DEF Standing

LEMMA FindSelfKept ==
  ASSUME GroupTypeOK, NEW q \in Requests, Standing(q), FindSelf(q), Note(q)
  PROVE  Kept(q)
PROOF
  <1>1. Grow
    BY DEF FindSelf, tables, Grow
  <1>2. CASE Goto(q, "insertSelf") /\ UNCHANGED <<me, entity>>
    <2>1. GroupTypeOK'
      BY <1>2, NoteTyped DEF GroupTypeOK, FindSelf, Goto, tables, PCs
    <2>2. pc'[q] = "insertSelf" /\ UNCHANGED reply /\ UNCHANGED <<tables, local>>
      BY <1>2 DEF GroupTypeOK, FindSelf, Goto, local
    <2>3. Standing(q)'
      <3>1. Calling(q)'
        BY <2>2 DEF FindSelf, Standing, Calling, OpsAt, Op, tables, local
      <3>2. Working(q)'
        BY <2>2 DEF FindSelf, Standing, Working, Op, tables, local
      <3>3. Reading(q)'
        BY <2>2 DEF FindSelf, Standing, Reading, Op, tables, local
      <3> QED
        BY <3>1, <3>2, <3>3 DEF Standing
    <2>4. \A r \in Requests \ {q} : Framed(r)
      BY <1>2 DEF GroupTypeOK, FindSelf, Goto, Framed
    <2> QED
      BY <1>1, <2>1, <2>3, <2>4 DEF Kept
  <1>3. ASSUME NEW p \in Self(q), me' = [me EXCEPT ![q] = p], BeginWith(q)
        PROVE  Kept(q)
    <2>1. /\ p \in Ids /\ participants[p] # Absent /\ participants[p].user = call[q].user
          /\ me'[q] = p /\ UNCHANGED <<tables, call, at, roster, known>> /\ pc[q] = "findSelf"
      BY <1>3 DEF FindSelf, Self, In, GroupTypeOK
    <2>2. /\ Standing(q)'
          /\ pc' \in [Requests -> PCs] /\ UNCHANGED reply
          /\ entity' \in [Requests -> Participants \cup Groups \cup {Absent}]
          /\ \A r \in Requests \ {q} : pc'[r] = pc[r] /\ entity'[r] = entity[r]
      BY <1>1, <1>3, <2>1, BeginStands DEF tables
    <2>3. GroupTypeOK'
      BY <1>3, <2>1, <2>2, NoteTyped DEF GroupTypeOK, tables
    <2>4. \A r \in Requests \ {q} : Framed(r)
      BY <1>3, <2>1, <2>2 DEF GroupTypeOK, Framed
    <2> QED
      BY <1>1, <2>2, <2>3, <2>4 DEF Kept
  <1> QED
    BY <1>2, <1>3 DEF FindSelf

LEMMA InsertSelfKept ==
  ASSUME GroupTypeOK, NEW q \in Requests, Standing(q), InsertSelf(q), Note(q)
  PROVE  Kept(q)
PROOF
  <1>1. call[q] \in Calls /\ call[q].user \in Users /\ Space(q) \in Spaces
    BY CallFields DEF InsertSelf, Standing, Calling, Space
  <1>2. ASSUME NEW p \in SeedIds, participants[p] = Absent,
               participants' = [participants EXCEPT ![p] =
                 [space |-> Space(q), user |-> call[q].user, email |-> UserEmail[call[q].user],
                  look |-> UserLook, deleted |-> FALSE]],
               me' = [me EXCEPT ![q] = p], BeginWith(q)
        PROVE  Kept(q)
    <2> DEFINE row == [space |-> Space(q), user |-> call[q].user,
                       email |-> UserEmail[call[q].user], look |-> UserLook, deleted |-> FALSE]
    <2>1. row \in Participants /\ row # Absent /\ row.user = call[q].user
      <3>1. UserEmail[call[q].user] \in Emails
        BY <1>1, GroupData
      <3>2. row \in Participants
        BY <1>1, <3>1, GroupData DEF Participants
      <3> QED
        BY <3>2, GroupData
    <2> HIDE DEF row
    <2>2. p \in Ids /\ participants'[p] = row /\ me'[q] = p
          /\ UNCHANGED <<groups, memberships, call, at, roster, known>>
          /\ participants' \in [Ids -> Participants \cup {Absent}]
          /\ \A r \in Ids : r # p => participants'[r] = participants[r]
      BY <1>2, <2>1 DEF GroupTypeOK, InsertSelf, Ids, row
    <2>3. Grow
      BY <1>2, <2>2 DEF Grow
    <2>4. /\ Standing(q)'
          /\ pc' \in [Requests -> PCs] /\ UNCHANGED reply
          /\ entity' \in [Requests -> Participants \cup Groups \cup {Absent}]
          /\ \A r \in Requests \ {q} : pc'[r] = pc[r] /\ entity'[r] = entity[r]
      BY <1>2, <2>1, <2>2, <2>3, BeginStands DEF InsertSelf
    <2>5. GroupTypeOK'
      BY <1>2, <2>2, <2>4, NoteTyped DEF GroupTypeOK
    <2>6. \A r \in Requests \ {q} : Framed(r)
      BY <1>2, <2>2, <2>4 DEF GroupTypeOK, Framed
    <2> QED
      BY <2>3, <2>4, <2>5, <2>6 DEF Kept
  <1>3. CASE Answer(q, "error") /\ UNCHANGED <<participants, me, entity>>
    <2>1. GroupTypeOK'
      BY <1>3, NoteTyped DEF GroupTypeOK, InsertSelf, Answer, PCs, Statuses
    <2>2. Grow
      BY <1>3 DEF InsertSelf, Grow
    <2>3. Standing(q)'
      BY <1>3, <2>2, DoneStands DEF InsertSelf, Answer, GroupTypeOK
    <2>4. \A r \in Requests \ {q} : Framed(r)
      BY <1>3 DEF GroupTypeOK, InsertSelf, Answer, Framed
    <2> QED
      BY <2>1, <2>2, <2>3, <2>4 DEF Kept
  <1> QED
    BY <1>2, <1>3 DEF InsertSelf

\* An answer that changes nothing else.
LEMMA AnswerKept ==
  ASSUME GroupTypeOK, NEW q \in Requests, Standing(q), Note(q), pc[q] # "idle",
         NEW s \in Statuses, Answer(q, s), UNCHANGED <<tables, local>>
  PROVE  Kept(q)
PROOF
  <1>1. GroupTypeOK'
    BY NoteTyped DEF GroupTypeOK, Answer, PCs, tables, local
  <1>2. Grow /\ \A r \in Requests \ {q} : Framed(r)
    BY DEF Grow, Framed, Answer, GroupTypeOK, tables, local
  <1>3. Standing(q)'
    BY <1>2, DoneStands DEF Answer, GroupTypeOK, local
  <1> QED
    BY <1>1, <1>2, <1>3 DEF Kept

\* A step on that changes nothing else.
LEMMA GotoKept ==
  ASSUME GroupTypeOK, NEW q \in Requests, Note(q), NEW l \in PCs, Goto(q, l),
         UNCHANGED <<tables, local>>
  PROVE  /\ GroupTypeOK' /\ Grow /\ \A r \in Requests \ {q} : Framed(r)
         /\ pc'[q] = l /\ UNCHANGED reply
         /\ UNCHANGED <<participants, groups, memberships>>
         /\ UNCHANGED <<call, me, at, entity, roster, known>>
PROOF
  <1>1. GroupTypeOK'
    BY NoteTyped DEF GroupTypeOK, Goto, tables, local
  <1> QED
    BY <1>1 DEF Grow, Framed, Goto, GroupTypeOK, tables, local

LEMMA FindByIdKept ==
  ASSUME GroupTypeOK, NEW q \in Requests, Standing(q), FindById(q), Note(q)
  PROVE  Kept(q)
PROOF
  <1>1. pc[q] # "idle" /\ UNCHANGED <<tables, local>>
    BY DEF FindById
  <1>2. ASSUME NEW s \in Statuses, Answer(q, s) PROVE Kept(q)
    BY <1>1, <1>2, AnswerKept
  <1>3. ASSUME NEW l \in {"checkEmail", "saveParticipant"}, Goto(q, l), pc[q] = "byId"
        PROVE  Kept(q)
    <2>1. l \in PCs
      BY DEF PCs
    <2>2. /\ GroupTypeOK' /\ Grow /\ \A r \in Requests \ {q} : Framed(r)
          /\ pc'[q] = l /\ UNCHANGED reply
          /\ UNCHANGED <<participants, groups, memberships>>
          /\ UNCHANGED <<call, me, at, entity, roster, known>>
      BY <1>1, <1>3, <2>1, GotoKept
    <2>3. Calling(q)'
      BY <1>3, <2>2 DEF Standing, Calling, OpsAt, Op
    <2>4. Working(q)'
      BY <1>3, <2>2 DEF Standing, Working, Op
    <2>5. Reading(q)'
      BY <1>3, <2>2 DEF Standing, Reading, Op
    <2> QED
      BY <2>2, <2>3, <2>4, <2>5 DEF Kept, Standing
  <1> QED
    BY <1>2, <1>3 DEF FindById, ResolveReplay, Statuses

LEMMA CheckEmailKept ==
  ASSUME GroupTypeOK, NEW q \in Requests, Standing(q), CheckEmail(q), Note(q)
  PROVE  Kept(q)
PROOF
  <1>1. pc[q] = "checkEmail" /\ UNCHANGED <<tables, local>>
    BY DEF CheckEmail
  <1>2. ASSUME NEW s \in Statuses, Answer(q, s) PROVE Kept(q)
    BY <1>1, <1>2, AnswerKept
  <1>3. ASSUME Goto(q, "saveParticipant")
        PROVE  Kept(q)
    <2>1. "saveParticipant" \in PCs
      BY DEF PCs
    <2>2. /\ GroupTypeOK' /\ Grow /\ \A r \in Requests \ {q} : Framed(r)
          /\ pc'[q] = "saveParticipant" /\ UNCHANGED reply
          /\ UNCHANGED <<participants, groups, memberships>>
          /\ UNCHANGED <<call, me, at, entity, roster, known>>
      BY <1>1, <1>3, <2>1, GotoKept
    <2>3. Calling(q)'
      BY <1>1, <2>2 DEF Standing, Calling, OpsAt, Op
    <2>4. Working(q)'
      BY <1>1, <2>2 DEF Standing, Working, Op
    <2>5. Reading(q)'
      BY <1>1, <2>2 DEF Standing, Reading, Op
    <2> QED
      BY <2>2, <2>3, <2>4, <2>5 DEF Kept, Standing
  <1> QED
    BY <1>2, <1>3 DEF CheckEmail, ResolveReplay, Statuses

LEMMA CrashKept ==
  ASSUME GroupTypeOK, NEW q \in Requests, Standing(q), Crash(q), Note(q)
  PROVE  Kept(q)
PROOF
  BY AnswerKept DEF Crash, Statuses

LEMMA AssertOwnerKept ==
  ASSUME GroupTypeOK, NEW q \in Requests, Standing(q), AssertOwner(q), Note(q)
  PROVE  Kept(q)
PROOF
  <1>1. pc[q] = "assertOwner" /\ UNCHANGED <<tables, local>>
    BY DEF AssertOwner
  <1>2. ASSUME NEW s \in Statuses, Answer(q, s) PROVE Kept(q)
    BY <1>1, <1>2, AnswerKept
  <1>3. ASSUME NEW l \in {"validate", "saveGroup"}, Goto(q, l), Owns(memberships[<<at[q], me[q]>>]),
               l = "validate" => Op(q) = "editGroup" /\ call[q].who # Keep
        PROVE  Kept(q)
    <2>1. l \in PCs
      BY DEF PCs
    <2>2. /\ GroupTypeOK' /\ Grow /\ \A r \in Requests \ {q} : Framed(r)
          /\ pc'[q] = l /\ UNCHANGED reply
          /\ UNCHANGED <<participants, groups, memberships>>
          /\ UNCHANGED <<call, me, at, entity, roster, known>>
      BY <1>1, <1>3, <2>1, GotoKept
    <2>3. Calling(q)'
      BY <1>1, <1>3, <2>2 DEF Standing, Calling, OpsAt, Op
    <2>4. Working(q)'
      BY <1>1, <1>3, <2>2 DEF Standing, Working, Op
    <2>5. Reading(q)'
      BY <1>1, <1>3, <2>2 DEF Standing, Reading, Op, OwnerOf, Owns, Active
    <2> QED
      BY <2>2, <2>3, <2>4, <2>5 DEF Kept, Standing
  <1> QED
    BY <1>1, <1>2, <1>3 DEF AssertOwner, Statuses

LEMMA ReadParticipantKept ==
  ASSUME GroupTypeOK, NEW q \in Requests, Standing(q), ReadParticipant(q), Note(q)
  PROVE  Kept(q)
PROOF
  <1>1. /\ pc[q] = "readParticipant" /\ UNCHANGED <<tables, call, me, at, roster, known>>
        /\ call[q] \in Calls /\ Op(q) \in {"editParticipant", "dropParticipant"}
    BY DEF ReadParticipant, Standing, Calling, OpsAt
  <1>2. ASSUME NEW s \in Statuses, Answer(q, s), UNCHANGED entity PROVE Kept(q)
    BY <1>1, <1>2, AnswerKept DEF local
  <1>3. ASSUME call[q].id \in Live(Space(q)),
               entity' = [entity EXCEPT ![q] = ChangedParticipant(call[q], participants[call[q].id])],
               NEW l \in {"checkEmail", "saveParticipant"}, Goto(q, l),
               l = "checkEmail" => Op(q) = "editParticipant"
        PROVE  Kept(q)
    <2> DEFINE new == ChangedParticipant(call[q], participants[call[q].id])
    <2>1. /\ call[q].id \in Ids /\ participants[call[q].id] \in Participants
          /\ participants[call[q].id] # Absent /\ ~participants[call[q].id].deleted
      BY <1>3 DEF Live, In, GroupTypeOK
    <2>2. new \in Participants /\ (Op(q) # "dropParticipant" => ~new.deleted)
      <3>1. CASE Op(q) = "dropParticipant"
        BY <3>1, <2>1 DEF ChangedParticipant, Participants, Op
      <3>2. CASE Op(q) = "editParticipant"
        BY <3>2, <2>1, <1>1, CallFields DEF ChangedParticipant, Participants, Op
      <3> QED
        BY <3>1, <3>2, <1>1
    <2> HIDE DEF new
    <2>3. /\ pc'[q] = l /\ entity'[q] = new /\ UNCHANGED reply
          /\ pc' \in [Requests -> PCs]
          /\ entity' \in [Requests -> Participants \cup Groups \cup {Absent}]
          /\ \A r \in Requests \ {q} : pc'[r] = pc[r] /\ entity'[r] = entity[r]
      BY <1>3, <2>2 DEF GroupTypeOK, Goto, PCs, new
    <2>4. GroupTypeOK'
      BY <1>1, <2>3, NoteTyped DEF GroupTypeOK, tables
    <2>5. Grow /\ \A r \in Requests \ {q} : Framed(r)
      BY <1>1, <2>3 DEF Grow, Framed, tables
    <2>6. Calling(q)'
      BY <1>1, <1>3, <2>1, <2>2, <2>3 DEF Standing, Calling, OpsAt, Op, tables
    <2>7. Working(q)'
      BY <1>1, <1>3, <2>3 DEF Standing, Working, Op, tables
    <2>8. Reading(q)'
      BY <1>1, <1>3, <2>3 DEF Standing, Reading, Op, tables
    <2> QED
      BY <2>4, <2>5, <2>6, <2>7, <2>8 DEF Kept, Standing
  <1> QED
    BY <1>2, <1>3 DEF ReadParticipant, Statuses

\* The row a save of a participant writes.
LEMMA SavedParticipantsFields ==
  ASSUME GroupTypeOK, NEW q \in Requests, Standing(q), pc[q] = "saveParticipant",
         NEW p \in SaveIds(q), NEW row \in SavedParticipants(q, p)
  PROVE  /\ p \in Ids /\ row \in Participants /\ row # Absent
         /\ participants[p] # Absent => row.user = participants[p].user
         /\ participants[p] = Absent => Op(q) = "addParticipant"
         /\ row.deleted => Op(q) = "dropParticipant" \/ (participants[p] # Absent
                                                         /\ participants[p].deleted)
         /\ Op(q) = "dropParticipant" => p = call[q].id
PROOF
  <1>1. /\ call[q] \in Calls /\ Op(q) \in {"addParticipant", "editParticipant", "dropParticipant"}
        /\ entity[q] \in Participants
        /\ Op(q) # "addParticipant" => participants[call[q].id] # Absent
        /\ Op(q) # "dropParticipant" => ~entity[q].deleted
    BY DEF Standing, Calling, OpsAt
  <1>2. /\ p \in Ids
        /\ Op(q) # "addParticipant" => p = call[q].id
    BY <1>1, CallFields DEF SaveIds, Op, Ids
  <1>3. CASE participants[p] = Absent
    BY <1>1, <1>2, <1>3, GroupData DEF SavedParticipants
  <1>4. CASE participants[p] # Absent
    <2>1. participants[p] \in Participants /\ row \in Saved(q, participants[p])
      BY <1>2, <1>4 DEF GroupTypeOK, SavedParticipants
    <2>2. /\ row \in Participants /\ row.user = participants[p].user
          /\ row.deleted => participants[p].deleted \/ entity[q].deleted
      BY <1>1, <2>1, SavedParticipantFields
    <2> QED
      BY <1>1, <1>2, <1>4, <2>2, GroupData
  <1> QED
    BY <1>3, <1>4

LEMMA SaveParticipantKept ==
  ASSUME GroupTypeOK, NEW q \in Requests, Standing(q), SaveParticipant(q), Note(q)
  PROVE  Kept(q)
PROOF
  <1>1. /\ pc[q] = "saveParticipant" /\ UNCHANGED <<groups, memberships, local>>
        /\ call[q] \in Calls
    BY DEF SaveParticipant, Standing, Calling
  <1>2. ASSUME NEW s \in Statuses, Answer(q, s), UNCHANGED participants PROVE Kept(q)
    BY <1>1, <1>2, AnswerKept DEF tables
  <1>3. ASSUME Goto(q, "byIdAgain"), Op(q) = "addParticipant", call[q].id # NoId,
               UNCHANGED participants
        PROVE  Kept(q)
    <2>1. "byIdAgain" \in PCs /\ UNCHANGED <<tables, local>>
      BY <1>1, <1>3 DEF PCs, tables
    <2>2. /\ GroupTypeOK' /\ Grow /\ \A r \in Requests \ {q} : Framed(r)
          /\ pc'[q] = "byIdAgain" /\ UNCHANGED reply
          /\ UNCHANGED <<participants, groups, memberships>>
          /\ UNCHANGED <<call, me, at, entity, roster, known>>
      BY <1>3, <2>1, GotoKept
    <2>3. Calling(q)'
      BY <1>1, <1>3, <2>2 DEF Standing, Calling, OpsAt, Op
    <2>4. Working(q)'
      BY <1>1, <1>3, <2>2 DEF Standing, Working, Op
    <2>5. Reading(q)'
      BY <1>1, <1>3, <2>2 DEF Standing, Reading, Op
    <2> QED
      BY <2>2, <2>3, <2>4, <2>5 DEF Kept, Standing
  <1>4. ASSUME NEW p \in SaveIds(q), NEW row \in SavedParticipants(q, p),
               participants' = [participants EXCEPT ![p] = row],
               IF Op(q) = "dropParticipant" THEN Goto(q, "readMembers") ELSE Answer(q, "ok")
        PROVE  Kept(q)
    <2>1. /\ p \in Ids /\ row \in Participants /\ row # Absent
          /\ participants[p] # Absent => row.user = participants[p].user
      BY <1>1, <1>4, SavedParticipantsFields
    <2>2. /\ participants' \in [Ids -> Participants \cup {Absent}]
          /\ participants'[p] = row /\ \A r \in Ids : r # p => participants'[r] = participants[r]
      BY <1>4, <2>1 DEF GroupTypeOK
    <2>3. Grow
      BY <1>1, <2>1, <2>2 DEF Grow
    <2>4. GroupTypeOK'
      BY <1>1, <1>4, <2>2, NoteTyped DEF GroupTypeOK, local, Goto, Answer, PCs, Statuses
    <2>5. \A r \in Requests \ {q} : Framed(r)
      BY <1>1, <1>4 DEF GroupTypeOK, Framed, local, Goto, Answer
    <2>6. CASE Op(q) # "dropParticipant"
      <3>1. Standing(q)'
        BY <1>1, <1>4, <2>3, <2>6, DoneStands DEF Answer, GroupTypeOK, local
      <3> QED
        BY <2>3, <2>4, <2>5, <3>1 DEF Kept
    <2>7. CASE Op(q) = "dropParticipant"
      <3>1. pc'[q] = "readMembers" /\ UNCHANGED reply /\ UNCHANGED <<groups, memberships>>
            /\ UNCHANGED <<call, me, at, entity, roster, known>>
        BY <1>1, <1>4, <2>7 DEF Goto, GroupTypeOK, local
      <3>2. Calling(q)'
        BY <1>1, <2>3, <2>7, <3>1 DEF Standing, Calling, OpsAt, Op, Grow
      <3>3. Working(q)'
        BY <1>1, <2>3, <2>7, <3>1 DEF Standing, Working, Op, Grow, GroupTypeOK
      <3>4. Reading(q)'
        BY <1>1, <2>7, <3>1 DEF Standing, Reading, Op
      <3> QED
        BY <2>3, <2>4, <2>5, <3>2, <3>3, <3>4 DEF Kept, Standing
    <2> QED
      BY <2>6, <2>7
  <1> QED
    BY <1>2, <1>3, <1>4 DEF SaveParticipant, Unique, Statuses

LEMMA ReadGroupKept ==
  ASSUME GroupTypeOK, NEW q \in Requests, Standing(q), ReadGroup(q), Note(q)
  PROVE  Kept(q)
PROOF
  <1> DEFINE g == call[q].group
  <1>1. /\ pc[q] = "readGroup" /\ UNCHANGED <<tables, call, me, roster, known>>
        /\ call[q] \in Calls /\ Op(q) \in {"editGroup", "dropGroup"}
        /\ g \in GroupIds /\ at' = [at EXCEPT ![q] = g]
    BY CallFields DEF ReadGroup, Standing, Calling, OpsAt, Op
  <1>2. Grow
    BY <1>1 DEF Grow, tables
  <1>3. CASE Answer(q, "notFound") /\ UNCHANGED entity
    <2>1. GroupTypeOK'
      BY <1>1, <1>3, NoteTyped DEF GroupTypeOK, tables, Answer, PCs, Statuses
    <2>2. \A r \in Requests \ {q} : Framed(r)
      BY <1>1, <1>3 DEF GroupTypeOK, Framed, Answer
    <2>3. Standing(q)'
      BY <1>1, <1>2, <1>3, DoneStands DEF Answer, GroupTypeOK
    <2> QED
      BY <1>2, <2>1, <2>2, <2>3 DEF Kept
  <1>4. ASSUME groups[g] # Absent,
               entity' = [entity EXCEPT ![q] = ChangedGroup(call[q], groups[g])],
               Goto(q, "assertOwner")
        PROVE  Kept(q)
    <2> DEFINE new == ChangedGroup(call[q], groups[g])
    <2>1. new \in Groups
      <3>1. groups[g] \in Groups
        BY <1>1, <1>4 DEF GroupTypeOK
      <3>2. CASE Op(q) = "dropGroup"
        BY <3>1, <3>2 DEF ChangedGroup, Groups, Op
      <3>3. CASE Op(q) = "editGroup"
        BY <1>1, <3>1, <3>3, CallFields DEF ChangedGroup, Groups, Op
      <3> QED
        BY <1>1, <3>2, <3>3
    <2> HIDE DEF new
    <2>2. /\ pc'[q] = "assertOwner" /\ entity'[q] = new /\ UNCHANGED reply /\ at'[q] = g
          /\ pc' \in [Requests -> PCs]
          /\ entity' \in [Requests -> Participants \cup Groups \cup {Absent}]
          /\ at' \in [Requests -> GroupIds \cup {NoId}]
          /\ \A r \in Requests \ {q} : pc'[r] = pc[r] /\ entity'[r] = entity[r] /\ at'[r] = at[r]
      BY <1>1, <1>4, <2>1 DEF GroupTypeOK, Goto, PCs, new
    <2>3. GroupTypeOK'
      BY <1>1, <2>2, NoteTyped DEF GroupTypeOK, tables
    <2>4. \A r \in Requests \ {q} : Framed(r)
      BY <1>1, <2>2 DEF Framed
    <2>5. Calling(q)'
      BY <1>1, <2>2 DEF Standing, Calling, OpsAt, Op, tables
    <2>6. Working(q)'
      BY <1>1, <1>4, <2>1, <2>2 DEF Standing, Working, Op, tables
    <2>7. Reading(q)'
      <3>1. known'[q] = NoneKnown
        BY <1>1 DEF Standing, Working
      <3> QED
        BY <1>1, <2>2, <3>1 DEF Reading, NoneKnown, Keys, Op
    <2> QED
      BY <1>2, <2>3, <2>4, <2>5, <2>6, <2>7 DEF Kept, Standing
  <1> QED
    BY <1>3, <1>4 DEF ReadGroup

LEMMA ValidateKept ==
  ASSUME GroupTypeOK, NEW q \in Requests, Standing(q), Validate(q), Note(q)
  PROVE  Kept(q)
PROOF
  <1>1. /\ pc[q] = "validate" /\ UNCHANGED <<tables, call, me, at, entity, known>>
        /\ call[q] \in Calls /\ Op(q) \in {"addGroup", "editGroup"}
        /\ me[q] \in Ids /\ known[q] = NoneKnown
    BY DEF Validate, Standing, Calling, Working, OpsAt
  <1>2. CASE Answer(q, "refused") /\ UNCHANGED roster
    BY <1>1, <1>2, AnswerKept DEF local, Statuses
  <1>3. ASSUME Named(q) \subseteq Live(Space(q)), roster' = [roster EXCEPT ![q] = Named(q)],
               Goto(q, IF Op(q) = "addGroup" THEN "insertGroup" ELSE "readMembers")
        PROVE  Kept(q)
    <2>1. /\ Named(q) \in SUBSET Ids /\ \A p \in Named(q) : participants[p] # Absent
          /\ me[q] \in Named(q)
      BY <1>3 DEF Live, In, Named
    <2>2. /\ roster' \in [Requests -> SUBSET Ids] /\ pc' \in [Requests -> PCs] /\ UNCHANGED reply
          /\ pc'[q] = IF Op(q) = "addGroup" THEN "insertGroup" ELSE "readMembers"
          /\ roster'[q] = Named(q)
          /\ \A r \in Requests \ {q} : pc'[r] = pc[r] /\ roster'[r] = roster[r]
      BY <1>3, <2>1 DEF GroupTypeOK, Goto, PCs
    <2>3. GroupTypeOK'
      BY <1>1, <2>2, NoteTyped DEF GroupTypeOK, tables
    <2>4. Grow /\ \A r \in Requests \ {q} : Framed(r)
      BY <1>1, <2>2 DEF Grow, Framed, tables
    <2>5. Calling(q)'
      BY <1>1, <2>2 DEF Standing, Calling, OpsAt, Op, tables
    <2>6. Working(q)'
      BY <1>1, <2>1, <2>2 DEF Standing, Working, Op, tables
    <2>7. Reading(q)'
      BY <1>1, <2>1, <2>2 DEF Standing, Reading, NoneKnown, Keys, Op, OwnerOf, tables
    <2> QED
      BY <2>3, <2>4, <2>5, <2>6, <2>7 DEF Kept, Standing
  <1> QED
    BY <1>2, <1>3 DEF Validate

LEMMA InsertGroupKept ==
  ASSUME GroupTypeOK, NEW q \in Requests, Standing(q), InsertGroup(q), Note(q)
  PROVE  Kept(q)
PROOF
  <1>1. /\ pc[q] = "insertGroup" /\ Goto(q, "addMembers")
        /\ UNCHANGED <<participants, memberships, call, me, entity, roster, known>>
        /\ call[q] \in Calls /\ Op(q) = "addGroup"
        /\ known[q] = NoneKnown /\ me[q] \in roster[q]
    BY DEF InsertGroup, Standing, Calling, Working, OpsAt
  <1> DEFINE row == [space |-> Space(q), creator |-> call[q].user, look |-> call[q].look,
                     archived |-> FALSE, deleted |-> FALSE]
  <1>2. PICK g \in GroupIds : /\ groups[g] = Absent /\ groups' = [groups EXCEPT ![g] = row]
                              /\ at' = [at EXCEPT ![q] = g]
    BY DEF InsertGroup
  <1>3. row \in Groups /\ row # Absent /\ row.creator = call[q].user
    <2>1. /\ call[q].space \in Spaces /\ call[q].user \in Users /\ call[q].look \in Looks
      BY <1>1, CallFields DEF Op
    <2>2. row \in Groups
      BY <2>1 DEF Groups, Space
    <2> QED
      BY <2>2, GroupData
  <1> HIDE DEF row
  <1>4. /\ groups' \in [GroupIds -> Groups \cup {Absent}] /\ groups'[g] = row
        /\ \A h \in GroupIds : h # g => groups'[h] = groups[h]
        /\ at' \in [Requests -> GroupIds \cup {NoId}] /\ at'[q] = g
        /\ pc' \in [Requests -> PCs] /\ pc'[q] = "addMembers" /\ UNCHANGED reply
        /\ \A r \in Requests \ {q} : pc'[r] = pc[r] /\ at'[r] = at[r]
    BY <1>1, <1>2, <1>3 DEF GroupTypeOK, Goto, PCs
  <1>5. GroupTypeOK'
    BY <1>1, <1>4, NoteTyped DEF GroupTypeOK
  <1>6. Grow /\ \A r \in Requests \ {q} : Framed(r)
    BY <1>1, <1>2, <1>4 DEF Grow, Framed
  <1>7. Calling(q)'
    BY <1>1, <1>4 DEF Standing, Calling, OpsAt, Op
  <1>8. Working(q)'
    BY <1>1, <1>3, <1>4 DEF Standing, Working, Op
  <1>9. Reading(q)'
    BY <1>1, <1>4 DEF Reading, NoneKnown, Keys, Op
  <1> QED
    BY <1>5, <1>6, <1>7, <1>8, <1>9 DEF Kept, Standing

LEMMA ReadMembersKept ==
  ASSUME GroupTypeOK, NEW q \in Requests, Standing(q), ReadMembers(q), Note(q)
  PROVE  Kept(q)
PROOF
  <1> DEFINE l == IF Op(q) = "editGroup" THEN "addMembers" ELSE "leave"
             K == [k \in Keys |-> IF k \in Concerned(q) THEN memberships[k] ELSE Absent]
  <1>1. /\ pc[q] = "readMembers" /\ UNCHANGED <<tables, call, me, at, entity, roster>>
        /\ Goto(q, l) /\ known' = [known EXCEPT ![q] = K]
        /\ call[q] \in Calls /\ Op(q) \in {"editGroup", "dropGroup", "dropParticipant"}
    BY DEF ReadMembers, Standing, Calling, OpsAt
  <1>2. K \in [Keys -> Members \cup {Absent}]
    BY DEF GroupTypeOK
  <1>3. \A g \in GroupIds : \A p \in Ids :
          /\ K[<<g, p>>] # Absent =>
               /\ K[<<g, p>>] = memberships[<<g, p>>]
               /\ IF Op(q) = "dropParticipant" THEN p = call[q].id ELSE g = at[q]
          /\ Op(q) # "dropParticipant" /\ g = at[q] => K[<<g, p>>] = memberships[<<g, p>>]
    BY DEF Concerned, Keys
  <1> HIDE DEF K
  <1>4. /\ known' \in [Requests -> [Keys -> Members \cup {Absent}]] /\ known'[q] = K
        /\ pc' \in [Requests -> PCs] /\ pc'[q] = l /\ UNCHANGED reply
        /\ \A r \in Requests \ {q} : pc'[r] = pc[r] /\ known'[r] = known[r]
    BY <1>1, <1>2 DEF GroupTypeOK, Goto, PCs
  <1>5. GroupTypeOK'
    BY <1>1, <1>4, NoteTyped DEF GroupTypeOK, tables
  <1>6. Grow /\ \A r \in Requests \ {q} : Framed(r)
    BY <1>1, <1>4 DEF Grow, Framed, tables
  <1>7. Calling(q)'
    BY <1>1, <1>4 DEF Standing, Calling, OpsAt, Op, tables
  <1>8. Working(q)'
    BY <1>1, <1>4 DEF Standing, Working, Op, tables
  <1>9. Reading(q)'
    <2>1. Op(q) = "editGroup" => /\ OwnerOf(at[q], me[q]) /\ me[q] \in roster[q]
                                 /\ at[q] \in GroupIds /\ me[q] \in Ids
      BY <1>1 DEF Standing, Reading, Working, Calling
    <2>2. Op(q) = "editGroup" => K[<<at[q], me[q]>>] # Absent
      BY <1>3, <2>1 DEF OwnerOf
    <2> QED
      BY <1>1, <1>3, <1>4, <2>1, <2>2 DEF Reading, OwnerOf, Op, tables
  <1> QED
    BY <1>5, <1>6, <1>7, <1>8, <1>9 DEF Kept, Standing

LEMMA SaveGroupKept ==
  ASSUME GroupTypeOK, NEW q \in Requests, Standing(q), SaveGroup(q), Note(q)
  PROVE  Kept(q)
PROOF
  <1>1. /\ pc[q] = "saveGroup" /\ UNCHANGED <<participants, memberships, local>>
        /\ IF Op(q) = "dropGroup" THEN Goto(q, "readMembers") ELSE Answer(q, "ok")
        /\ call[q] \in Calls /\ Op(q) \in {"editGroup", "dropGroup"}
        /\ at[q] \in GroupIds /\ groups[at[q]] # Absent /\ entity[q] \in Groups
    BY DEF SaveGroup, Standing, Calling, Working, OpsAt
  <1>2. PICK row \in Saved(q, groups[at[q]]) : groups' = [groups EXCEPT ![at[q]] = row]
    BY DEF SaveGroup
  <1>3. groups[at[q]] \in Groups
    BY <1>1 DEF GroupTypeOK
  <1>4. /\ row \in Groups /\ row # Absent
        /\ row.space = groups[at[q]].space /\ row.creator = groups[at[q]].creator
    BY <1>1, <1>2, <1>3, SavedGroupFields, GroupData
  <1>5. /\ groups' \in [GroupIds -> Groups \cup {Absent}] /\ groups'[at[q]] = row
        /\ \A h \in GroupIds : h # at[q] => groups'[h] = groups[h]
    BY <1>1, <1>2, <1>4 DEF GroupTypeOK
  <1>6. GroupTypeOK'
    BY <1>1, <1>5, NoteTyped DEF GroupTypeOK, local, Goto, Answer, PCs, Statuses
  <1>7. Grow
    BY <1>1, <1>4, <1>5 DEF Grow
  <1>8. \A r \in Requests \ {q} : Framed(r)
    BY <1>1 DEF GroupTypeOK, Framed, local, Goto, Answer
  <1>9. CASE Op(q) = "editGroup"
    <2>1. Standing(q)'
      BY <1>1, <1>7, <1>9, DoneStands DEF Answer, GroupTypeOK, local
    <2> QED
      BY <1>6, <1>7, <1>8, <2>1 DEF Kept
  <1>10. CASE Op(q) = "dropGroup"
    <2>1. /\ pc'[q] = "readMembers" /\ UNCHANGED reply /\ UNCHANGED <<participants, memberships>>
          /\ UNCHANGED <<call, me, at, entity, roster, known>>
      BY <1>1, <1>10 DEF Goto, GroupTypeOK, local
    <2>2. Calling(q)'
      BY <1>1, <1>10, <2>1 DEF Standing, Calling, OpsAt, Op
    <2>3. Working(q)'
      BY <1>1, <1>4, <1>5, <1>10, <2>1 DEF Standing, Working, Op
    <2>4. Reading(q)'
      BY <1>1, <1>10, <2>1 DEF Standing, Reading, Op
    <2> QED
      BY <1>6, <1>7, <1>8, <2>2, <2>3, <2>4 DEF Kept, Standing
  <1> QED
    BY <1>1, <1>9, <1>10

-----------------------------------------------------------------------------
(* The saves of members.                                                   *)

\* The caller of an update is the only owner of the group.
LEMMA OnlyOwner ==
  ASSUME GroupTypeOK, OwnerInv, NEW q \in Requests, Standing(q), Op(q) = "editGroup",
         pc[q] \in {"addMembers", "changeMembers", "removeMembers"}
  PROVE  /\ OwnerOf(at[q], me[q])
         /\ \A p \in Ids : OwnerOf(at[q], p) => p = me[q]
PROOF
  <1>1. /\ OwnerOf(at[q], me[q]) /\ at[q] \in GroupIds /\ groups[at[q]] # Absent /\ me[q] \in Ids
    BY DEF Standing, Calling, Working, Reading
  <1>2. Entered(at[q]) # {}
    BY <1>1 DEF Entered, OwnerOf
  <1> QED
    BY <1>1, <1>2 DEF OwnerInv

\* A save of members, of rows that keep the roles there are, keeps the rest.
LEMMA WriteGrows ==
  ASSUME GroupTypeOK, NEW rows, Write(rows), DOMAIN rows \subseteq Keys,
         UNCHANGED <<participants, groups>>,
         \A k \in DOMAIN rows : /\ rows[k] \in Members
                                /\ memberships[k] # Absent => rows[k].role = memberships[k].role
  PROVE  /\ Grow
         /\ memberships' \in [Keys -> Members \cup {Absent}]
         /\ \A k \in Keys : k \in DOMAIN rows => memberships'[k] = rows[k]
         /\ \A k \in Keys : k \notin DOMAIN rows => memberships'[k] = memberships[k]
PROOF
  <1>1. \A k \in Keys : memberships'[k] = IF k \in DOMAIN rows THEN rows[k] ELSE memberships[k]
    BY DEF Write
  <1>2. memberships' \in [Keys -> Members \cup {Absent}]
    BY DEF Write, GroupTypeOK
  <1>3. \A k \in Keys : memberships[k] # Absent =>
          memberships'[k] # Absent /\ memberships'[k].role = memberships[k].role
    BY <1>1, GroupData
  <1>4. \A g \in GroupIds : \A p \in Ids : <<g, p>> \in Keys
    BY DEF Keys
  <1>5. Grow
    BY <1>3, <1>4 DEF Grow
  <1> QED
    BY <1>1, <1>2, <1>5

\* The rows an update or a creation writes for those who are to be in the group.
LEMMA DesiredRows ==
  ASSUME GroupTypeOK, NEW q \in Requests, Standing(q), NEW k \in Wanted(q), at[q] \in GroupIds
  PROVE  /\ k \in Keys /\ k = <<at[q], k[2]>> /\ k[2] \in roster[q] /\ k[2] \in Ids
         /\ participants[k[2]] # Absent
         /\ Desired(q, k) \in Members
         /\ Desired(q, k).role = IF k[2] = me[q] THEN "owner" ELSE "member"
         /\ Active(Desired(q, k))
PROOF
  <1>1. k \in Keys /\ k = <<at[q], k[2]>> /\ k[2] \in roster[q] /\ k[2] \in Ids
    BY DEF Wanted, Keys, GroupTypeOK
  <1>2. Desired(q, k) \in Members /\ Desired(q, k).status = "active"
        /\ Desired(q, k).role = IF k[2] = me[q] THEN "owner" ELSE "member"
    BY DEF Desired, Members
  <1>3. participants[k[2]] # Absent
    BY <1>1 DEF Standing, Working
  <1> QED
    BY <1>1, <1>2, <1>3, GroupData DEF Active

\* They keep the roles there are.
LEMMA DesiredRoles ==
  ASSUME GroupTypeOK, OwnerInv, FoundingInv, NEW q \in Requests, Standing(q),
         pc[q] \in {"addMembers", "changeMembers"}, Op(q) \in {"addGroup", "editGroup"},
         Op(q) = "addGroup" => pc[q] = "addMembers",
         NEW k \in Wanted(q), memberships[k] # Absent
  PROVE  Desired(q, k).role = memberships[k].role
PROOF
  <1>1. at[q] \in GroupIds
    BY DEF Standing, Working
  <1>2. k \in Keys /\ k = <<at[q], k[2]>> /\ k[2] \in Ids
        /\ Desired(q, k).role = IF k[2] = me[q] THEN "owner" ELSE "member"
    BY <1>1, DesiredRows
  <1>3. k[2] \in Entered(at[q])
    BY <1>2 DEF Entered
  <1>4. Op(q) = "editGroup" /\ pc[q] \in {"addMembers", "changeMembers"}
    BY <1>3 DEF FoundingInv
  <1>5. OwnerOf(at[q], me[q]) /\ \A p \in Ids : OwnerOf(at[q], p) => p = me[q]
    BY <1>4, OnlyOwner
  <1>6. memberships[k].role \in {"owner", "member"}
    BY <1>2 DEF GroupTypeOK, Members
  <1> QED
    BY <1>2, <1>5, <1>6 DEF OwnerOf

\* The first save of a creation, or of the members of an update.
LEMMA AddMembersWrites ==
  ASSUME GroupTypeOK, OwnerInv, FoundingInv, NEW q \in Requests, Standing(q), AddMembers(q),
         ~Answer(q, "error")
  PROVE  /\ Grow /\ memberships' \in [Keys -> Members \cup {Absent}]
         /\ UNCHANGED <<participants, groups, local>>
         /\ IF Op(q) = "addGroup" THEN Answer(q, "ok") ELSE Goto(q, "changeMembers")
         /\ \A g \in GroupIds : \A p \in Ids :
              \/ /\ memberships'[<<g, p>>] = memberships[<<g, p>>]
                 /\ Op(q) = "addGroup" => g # at[q] \/ p \notin roster[q]
              \/ /\ g = at[q] /\ p \in roster[q] /\ Active(memberships'[<<g, p>>])
                 /\ memberships'[<<g, p>>].role = IF p = me[q] THEN "owner" ELSE "member"
                 /\ participants[p] # Absent /\ participants[p].space = groups[g].space
PROOF
  <1> DEFINE rows == [k \in Added(q) |-> Desired(q, k)]
  <1>1. /\ \A k \in Added(q) : Referenced(k)
        /\ Write(rows) /\ UNCHANGED <<participants, groups, local>>
        /\ IF Op(q) = "addGroup" THEN Answer(q, "ok") ELSE Goto(q, "changeMembers")
        /\ pc[q] = "addMembers" /\ Op(q) \in {"addGroup", "editGroup"}
    BY DEF AddMembers, Standing, Calling, OpsAt
  <1>2. at[q] \in GroupIds
    BY <1>1 DEF Standing, Working
  <1>3. \A k \in Added(q) :
          /\ k \in Keys /\ k = <<at[q], k[2]>> /\ k[2] \in roster[q] /\ participants[k[2]] # Absent
          /\ Desired(q, k) \in Members /\ Active(Desired(q, k))
          /\ Desired(q, k).role = IF k[2] = me[q] THEN "owner" ELSE "member"
          /\ memberships[k] # Absent => Desired(q, k).role = memberships[k].role
          /\ participants[k[2]].space = groups[k[1]].space
    <2> TAKE k \in Added(q)
    <2>1. k \in Wanted(q) /\ Referenced(k)
      BY <1>1 DEF Added
    <2>2. memberships[k] # Absent => Desired(q, k).role = memberships[k].role
      BY <1>1, <2>1, DesiredRoles
    <2> QED
      BY <1>2, <2>1, <2>2, DesiredRows DEF Referenced
  <1>4. DOMAIN rows = Added(q) /\ \A k \in Added(q) : rows[k] = Desired(q, k)
    OBVIOUS
  <1> HIDE DEF rows
  <1>5. /\ Grow
        /\ memberships' \in [Keys -> Members \cup {Absent}]
        /\ \A k \in Keys : k \in Added(q) => memberships'[k] = Desired(q, k)
        /\ \A k \in Keys : k \notin Added(q) => memberships'[k] = memberships[k]
    BY <1>1, <1>3, <1>4, WriteGrows
  <1>6. ASSUME NEW g \in GroupIds, NEW p \in Ids
        PROVE  \/ /\ memberships'[<<g, p>>] = memberships[<<g, p>>]
                  /\ Op(q) = "addGroup" => g # at[q] \/ p \notin roster[q]
               \/ /\ g = at[q] /\ p \in roster[q] /\ Active(memberships'[<<g, p>>])
                  /\ memberships'[<<g, p>>].role = IF p = me[q] THEN "owner" ELSE "member"
                  /\ participants[p] # Absent /\ participants[p].space = groups[g].space
    <2> DEFINE k == <<g, p>>
    <2>1. k \in Keys /\ k[1] = g /\ k[2] = p
      BY DEF Keys
    <2>2. CASE k \in Added(q)
      BY <1>3, <1>5, <2>1, <2>2
    <2>3. CASE k \notin Added(q)
      <3>1. Op(q) = "addGroup" => known[q][k] = Absent
        BY <2>1 DEF Standing, Working, NoneKnown
      <3>2. Op(q) = "addGroup" => k \notin Wanted(q)
        BY <2>3, <3>1 DEF Added
      <3> QED
        BY <1>5, <2>1, <2>3, <3>2 DEF Wanted
    <2> QED
      BY <2>2, <2>3
  <1> QED
    BY <1>1, <1>5, <1>6

LEMMA AddMembersKept ==
  ASSUME GroupTypeOK, OwnerInv, FoundingInv, NEW q \in Requests, Standing(q), AddMembers(q), Note(q)
  PROVE  Kept(q)
PROOF
  <1>1. /\ pc[q] = "addMembers" /\ UNCHANGED <<participants, groups, local>>
        /\ Op(q) \in {"addGroup", "editGroup"}
    BY DEF AddMembers, Standing, Calling, OpsAt
  <1>2. ASSUME Answer(q, "error"), UNCHANGED memberships PROVE Kept(q)
    BY <1>1, <1>2, AnswerKept DEF Statuses, tables
  <1>3. ASSUME Grow, memberships' \in [Keys -> Members \cup {Absent}],
               IF Op(q) = "addGroup" THEN Answer(q, "ok") ELSE Goto(q, "changeMembers")
        PROVE  Kept(q)
    <2>1. GroupTypeOK'
      BY <1>1, <1>3, NoteTyped DEF GroupTypeOK, local, Goto, Answer, PCs, Statuses
    <2>2. \A r \in Requests \ {q} : Framed(r)
      BY <1>1, <1>3 DEF GroupTypeOK, Framed, local, Goto, Answer
    <2>3. CASE Op(q) = "addGroup"
      <3>1. Standing(q)'
        BY <1>1, <1>3, <2>3, DoneStands DEF Answer, GroupTypeOK, local
      <3> QED
        BY <1>3, <2>1, <2>2, <3>1 DEF Kept
    <2>4. CASE Op(q) = "editGroup"
      <3>1. /\ pc'[q] = "changeMembers" /\ UNCHANGED reply /\ UNCHANGED <<participants, groups>>
            /\ UNCHANGED <<call, me, at, entity, roster, known>>
        BY <1>1, <1>3, <2>4 DEF Goto, GroupTypeOK, local
      <3>2. Calling(q)'
        BY <1>1, <2>4, <3>1 DEF Standing, Calling, OpsAt, Op
      <3>3. Working(q)'
        BY <1>1, <2>4, <3>1 DEF Standing, Working, Op
      <3>4. Reading(q)'
        <4>1. at[q] \in GroupIds /\ me[q] \in Ids
          BY <1>1, <2>4 DEF Standing, Working, Calling
        <4> QED
          BY <1>1, <1>3, <2>4, <3>1, <4>1 DEF Standing, Reading, Op, Grow, OwnerOf
      <3> QED
        BY <1>3, <2>1, <2>2, <3>2, <3>3, <3>4 DEF Kept, Standing
    <2> QED
      BY <1>1, <2>3, <2>4
  <1>4. CASE ~Answer(q, "error")
    BY <1>3, <1>4, AddMembersWrites
  <1>5. CASE Answer(q, "error")
    BY <1>2, <1>5 DEF AddMembers, Goto, Answer, GroupTypeOK
  <1> QED
    BY <1>4, <1>5

LEMMA ChangeMembersWrites ==
  ASSUME GroupTypeOK, OwnerInv, FoundingInv, NEW q \in Requests, Standing(q), ChangeMembers(q)
  PROVE  /\ Grow /\ memberships' \in [Keys -> Members \cup {Absent}]
         /\ \A g \in GroupIds : \A p \in Ids :
              \/ memberships'[<<g, p>>] = memberships[<<g, p>>]
              \/ Active(memberships'[<<g, p>>]) /\ memberships[<<g, p>>] # Absent
PROOF
  <1> DEFINE rows == [k \in Changed(q) |-> Desired(q, k)]
  <1>1. /\ Write(rows) /\ UNCHANGED <<participants, groups, local>>
        /\ pc[q] = "changeMembers" /\ Op(q) = "editGroup" /\ at[q] \in GroupIds
    BY DEF ChangeMembers, Standing, Calling, Working, OpsAt
  <1>2. \A k \in Changed(q) :
          /\ k \in Keys /\ memberships[k] # Absent
          /\ Desired(q, k) \in Members /\ Active(Desired(q, k))
          /\ Desired(q, k).role = memberships[k].role
    <2> TAKE k \in Changed(q)
    <2>1. k \in Wanted(q) /\ known[q][k] # Absent
      BY DEF Changed
    <2>2. k \in Keys /\ k = <<at[q], k[2]>> /\ k[2] \in Ids
      BY <1>1, <2>1, DesiredRows
    <2>3. memberships[k] # Absent
      BY <1>1, <2>1, <2>2 DEF Standing, Reading
    <2>4. Op(q) = "editGroup" /\ pc[q] = "changeMembers"
      BY <1>1
    <2>5. Desired(q, k).role = memberships[k].role
      BY <2>1, <2>3, <2>4, DesiredRoles
    <2> QED
      BY <1>1, <2>1, <2>2, <2>3, <2>5, DesiredRows
  <1>3. DOMAIN rows = Changed(q) /\ \A k \in Changed(q) : rows[k] = Desired(q, k)
    OBVIOUS
  <1> HIDE DEF rows
  <1>4. /\ Grow
        /\ memberships' \in [Keys -> Members \cup {Absent}]
        /\ \A k \in Keys : k \in Changed(q) => memberships'[k] = Desired(q, k)
        /\ \A k \in Keys : k \notin Changed(q) => memberships'[k] = memberships[k]
    BY <1>1, <1>2, <1>3, WriteGrows
  <1>5. \A g \in GroupIds : \A p \in Ids : <<g, p>> \in Keys
    BY DEF Keys
  <1>6. \A k \in Keys : \/ memberships'[k] = memberships[k]
                        \/ Active(memberships'[k]) /\ memberships[k] # Absent
    BY <1>2, <1>4
  <1> QED
    BY <1>4, <1>5, <1>6

LEMMA ChangeMembersKept ==
  ASSUME GroupTypeOK, OwnerInv, FoundingInv, NEW q \in Requests, Standing(q), ChangeMembers(q),
         Note(q)
  PROVE  Kept(q)
PROOF
  <1>1. /\ pc[q] = "changeMembers" /\ UNCHANGED <<participants, groups, local>>
        /\ Op(q) = "editGroup" /\ Goto(q, "removeMembers")
        /\ at[q] \in GroupIds /\ me[q] \in Ids
    BY DEF ChangeMembers, Standing, Calling, Working, OpsAt
  <1>2. Grow /\ memberships' \in [Keys -> Members \cup {Absent}]
    BY ChangeMembersWrites
  <1>3. /\ pc'[q] = "removeMembers" /\ UNCHANGED reply /\ UNCHANGED <<participants, groups>>
        /\ UNCHANGED <<call, me, at, entity, roster, known>>
    BY <1>1 DEF Goto, GroupTypeOK, local
  <1>4. GroupTypeOK'
    BY <1>1, <1>2, <1>3, NoteTyped DEF GroupTypeOK, Goto, PCs
  <1>5. \A r \in Requests \ {q} : Framed(r)
    BY <1>1, <1>3 DEF GroupTypeOK, Framed, Goto
  <1>6. Calling(q)'
    BY <1>1, <1>3 DEF Standing, Calling, OpsAt, Op
  <1>7. Working(q)'
    BY <1>1, <1>3 DEF Standing, Working, Op
  <1>8. Reading(q)'
    BY <1>1, <1>2, <1>3 DEF Standing, Reading, Op, Grow, OwnerOf
  <1> QED
    BY <1>2, <1>4, <1>5, <1>6, <1>7, <1>8 DEF Kept, Standing

\* A row that was read, with its member gone.
LEMMA LeftRow ==
  ASSUME GroupTypeOK, NEW q \in Requests, Standing(q), NEW k \in Keys, known[q][k] # Absent,
         NEW row, row = [known[q][k] EXCEPT !.status = "left"]
  PROVE  /\ row \in Members /\ ~Active(row)
         /\ memberships[k] # Absent /\ row.role = memberships[k].role
PROOF
  <1>1. known[q][k] \in Members
    BY DEF GroupTypeOK
  <1>2. PICK g \in GroupIds, p \in Ids : k = <<g, p>>
    BY DEF Keys
  <1>3. memberships[k] # Absent /\ memberships[k].role = known[q][k].role
    BY <1>2 DEF Standing, Reading
  <1> QED
    BY <1>1, <1>3 DEF Members, Active

LEMMA RemoveMembersWrites ==
  ASSUME GroupTypeOK, NEW q \in Requests, Standing(q), RemoveMembers(q)
  PROVE  /\ Grow /\ memberships' \in [Keys -> Members \cup {Absent}]
         /\ \A g \in GroupIds : \A p \in Ids :
              \/ memberships'[<<g, p>>] = memberships[<<g, p>>]
              \/ /\ ~Active(memberships'[<<g, p>>]) /\ memberships[<<g, p>>] # Absent
                 /\ g = at[q] /\ p # me[q]
PROOF
  <1> DEFINE rows == [k \in Removed(q) |-> [known[q][k] EXCEPT !.status = "left"]]
  <1>1. /\ Write(rows) /\ UNCHANGED <<participants, groups, local>>
        /\ pc[q] = "removeMembers" /\ Op(q) = "editGroup" /\ at[q] \in GroupIds
        /\ me[q] \in roster[q]
    BY DEF RemoveMembers, Standing, Calling, Working, Reading, OpsAt
  <1>2. \A k \in Removed(q) : k \in Keys /\ known[q][k] # Absent /\ k \notin Wanted(q)
    BY DEF Removed, Active
  <1>3. DOMAIN rows = Removed(q)
        /\ \A k \in Removed(q) : rows[k] = [known[q][k] EXCEPT !.status = "left"]
    OBVIOUS
  <1> HIDE DEF rows
  <1>4. \A k \in Removed(q) : /\ rows[k] \in Members /\ ~Active(rows[k])
                             /\ memberships[k] # Absent /\ rows[k].role = memberships[k].role
    BY <1>2, <1>3, LeftRow
  <1>5. /\ Grow
        /\ memberships' \in [Keys -> Members \cup {Absent}]
        /\ \A k \in Keys : k \in Removed(q) => memberships'[k] = rows[k]
        /\ \A k \in Keys : k \notin Removed(q) => memberships'[k] = memberships[k]
    BY <1>1, <1>2, <1>3, <1>4, WriteGrows
  <1>6. ASSUME NEW g \in GroupIds, NEW p \in Ids, <<g, p>> \in Removed(q)
        PROVE  g = at[q] /\ p # me[q]
    <2>1. g = at[q]
      BY <1>1, <1>2, <1>6 DEF Standing, Reading
    <2> QED
      BY <1>1, <1>2, <1>6, <2>1 DEF Wanted
  <1>7. \A g \in GroupIds : \A p \in Ids : <<g, p>> \in Keys
    BY DEF Keys
  <1> QED
    BY <1>4, <1>5, <1>6, <1>7

LEMMA RemoveMembersKept ==
  ASSUME GroupTypeOK, NEW q \in Requests, Standing(q), RemoveMembers(q), Note(q)
  PROVE  Kept(q)
PROOF
  <1>1. /\ pc[q] = "removeMembers" /\ UNCHANGED <<participants, groups, local>>
        /\ Op(q) = "editGroup" /\ Goto(q, "saveGroup")
        /\ at[q] \in GroupIds /\ me[q] \in Ids
    BY DEF RemoveMembers, Standing, Calling, Working, OpsAt
  <1>2. Grow /\ memberships' \in [Keys -> Members \cup {Absent}]
    BY RemoveMembersWrites
  <1>3. /\ pc'[q] = "saveGroup" /\ UNCHANGED reply /\ UNCHANGED <<participants, groups>>
        /\ UNCHANGED <<call, me, at, entity, roster, known>>
    BY <1>1 DEF Goto, GroupTypeOK, local
  <1>4. GroupTypeOK'
    BY <1>1, <1>2, <1>3, NoteTyped DEF GroupTypeOK, Goto, PCs
  <1>5. \A r \in Requests \ {q} : Framed(r)
    BY <1>1, <1>3 DEF GroupTypeOK, Framed, Goto
  <1>6. Calling(q)'
    BY <1>1, <1>3 DEF Standing, Calling, OpsAt, Op
  <1>7. Working(q)'
    BY <1>1, <1>3 DEF Standing, Working, Op
  <1>8. Reading(q)'
    BY <1>1, <1>2, <1>3 DEF Standing, Reading, Op, Grow
  <1> QED
    BY <1>2, <1>4, <1>5, <1>6, <1>7, <1>8 DEF Kept, Standing

LEMMA LeaveWrites ==
  ASSUME GroupTypeOK, NEW q \in Requests, Standing(q), Leave(q)
  PROVE  /\ Grow /\ memberships' \in [Keys -> Members \cup {Absent}]
         /\ \A g \in GroupIds : \A p \in Ids :
              /\ known[q][<<g, p>>] # Absent => ~Active(memberships'[<<g, p>>])
              /\ \/ memberships'[<<g, p>>] = memberships[<<g, p>>]
                 \/ /\ ~Active(memberships'[<<g, p>>]) /\ memberships[<<g, p>>] # Absent
                    /\ \/ Op(q) = "dropGroup" /\ call[q].group = g
                       \/ Op(q) = "dropParticipant" /\ call[q].id = p
PROOF
  <1> DEFINE rows == [k \in Leaving(q) |-> [known[q][k] EXCEPT !.status = "left"]]
  <1>1. /\ Write(rows) /\ UNCHANGED <<participants, groups, local>>
        /\ pc[q] = "leave" /\ Op(q) \in {"dropGroup", "dropParticipant"}
        /\ Op(q) = "dropGroup" => at[q] = call[q].group
    BY DEF Leave, Standing, Calling, Working, OpsAt
  <1>2. Leaving(q) = {k \in Keys : known[q][k] # Absent}
    BY DEF Leaving
  <1>3. DOMAIN rows = Leaving(q)
        /\ \A k \in Leaving(q) : rows[k] = [known[q][k] EXCEPT !.status = "left"]
    OBVIOUS
  <1> HIDE DEF rows
  <1>4. \A k \in Leaving(q) : /\ rows[k] \in Members /\ ~Active(rows[k])
                             /\ memberships[k] # Absent /\ rows[k].role = memberships[k].role
    BY <1>2, <1>3, LeftRow
  <1>5. /\ Grow
        /\ memberships' \in [Keys -> Members \cup {Absent}]
        /\ \A k \in Keys : k \in Leaving(q) => memberships'[k] = rows[k]
        /\ \A k \in Keys : k \notin Leaving(q) => memberships'[k] = memberships[k]
    BY <1>1, <1>2, <1>3, <1>4, WriteGrows
  <1>6. ASSUME NEW g \in GroupIds, NEW p \in Ids, <<g, p>> \in Leaving(q)
        PROVE  \/ Op(q) = "dropGroup" /\ call[q].group = g
               \/ Op(q) = "dropParticipant" /\ call[q].id = p
    BY <1>1, <1>2, <1>6 DEF Standing, Reading
  <1>7. \A g \in GroupIds : \A p \in Ids : <<g, p>> \in Keys
    BY DEF Keys
  <1> QED
    BY <1>2, <1>4, <1>5, <1>6, <1>7

LEMMA LeaveKept ==
  ASSUME GroupTypeOK, NEW q \in Requests, Standing(q), Leave(q), Note(q)
  PROVE  Kept(q)
PROOF
  <1>1. Grow /\ memberships' \in [Keys -> Members \cup {Absent}]
    BY LeaveWrites
  <1>2. GroupTypeOK'
    BY <1>1, NoteTyped DEF GroupTypeOK, Leave, Answer, PCs, Statuses, local
  <1>3. \A r \in Requests \ {q} : Framed(r)
    BY DEF GroupTypeOK, Framed, Leave, Answer, local
  <1>4. Standing(q)'
    BY <1>1, DoneStands DEF Leave, Answer, GroupTypeOK, local
  <1> QED
    BY <1>1, <1>2, <1>3, <1>4 DEF Kept

\* Every step keeps the types and what the requests know, and the tables grow.
LEMMA StepKept ==
  ASSUME GroupTypeOK, OwnerInv, FoundingInv, NEW q \in Requests, Standing(q),
         Receive(q) \/ Handle(q) \/ Crash(q), Note(q)
  PROVE  Kept(q)
PROOF
  BY ReceiveKept, FindSelfKept, InsertSelfKept, FindByIdKept, CheckEmailKept, ReadParticipantKept,
     SaveParticipantKept, ReadGroupKept, AssertOwnerKept, ValidateKept, InsertGroupKept,
     ReadMembersKept, AddMembersKept, ChangeMembersKept, RemoveMembersKept, SaveGroupKept,
     LeaveKept, CrashKept DEF Handle

-----------------------------------------------------------------------------
(* What the steps do to the tables.                                        *)

\* Only a creation that has inserted its group comes to its second save.
LEMMA FoundingStep ==
  ASSUME GroupTypeOK, NEW q \in Requests, Standing(q), Receive(q) \/ Handle(q) \/ Crash(q),
         pc'[q] = "addMembers", Op(q)' = "addGroup"
  PROVE  InsertGroup(q)
PROOF
  <1> USE DEF GroupTypeOK, Goto, Answer
  <1>1. ~Receive(q) /\ ~Crash(q)
    BY DEF Receive, Crash
  <1>2. ~FindSelf(q) /\ ~InsertSelf(q)
    BY DEF FindSelf, InsertSelf, BeginWith, Begin
  <1>3. ~FindById(q) /\ ~CheckEmail(q) /\ ~ReadParticipant(q)
    BY DEF FindById, CheckEmail, ReadParticipant, ResolveReplay
  <1>4. ~SaveParticipant(q)
    BY DEF SaveParticipant, Unique
  <1>5. ~ReadGroup(q) /\ ~AssertOwner(q) /\ ~Validate(q)
    BY DEF ReadGroup, AssertOwner, Validate
  <1>6. ~ReadMembers(q)
    BY DEF ReadMembers, Op
  <1>7. ~AddMembers(q) /\ ~ChangeMembers(q) /\ ~RemoveMembers(q) /\ ~SaveGroup(q) /\ ~Leave(q)
    BY DEF AddMembers, ChangeMembers, RemoveMembers, SaveGroup, Leave
  <1> QED
    BY <1>1, <1>2, <1>3, <1>4, <1>5, <1>6, <1>7 DEF Handle

\* Memberships are written by four saves.
LEMMA MembershipStep ==
  ASSUME GroupTypeOK, NEW q \in Requests, Receive(q) \/ Handle(q) \/ Crash(q), ~UNCHANGED memberships
  PROVE  /\ UNCHANGED <<participants, groups, local>>
         /\ \/ (AddMembers(q) /\ ~Answer(q, "error")) \/ ChangeMembers(q)
            \/ RemoveMembers(q) \/ Leave(q)
PROOF
  <1> USE DEF tables, local
  <1>1. ~Receive(q) /\ ~Crash(q) /\ ~FindSelf(q) /\ ~InsertSelf(q)
    BY DEF Receive, Crash, FindSelf, InsertSelf
  <1>2. ~FindById(q) /\ ~CheckEmail(q) /\ ~ReadParticipant(q) /\ ~SaveParticipant(q)
    BY DEF FindById, CheckEmail, ReadParticipant, SaveParticipant
  <1>3. ~ReadGroup(q) /\ ~AssertOwner(q) /\ ~Validate(q) /\ ~InsertGroup(q) /\ ~ReadMembers(q)
        /\ ~SaveGroup(q)
    BY DEF ReadGroup, AssertOwner, Validate, InsertGroup, ReadMembers, SaveGroup
  <1>4. AddMembers(q) => ~Answer(q, "error")
    BY DEF AddMembers, Answer, Goto, GroupTypeOK
  <1> QED
    BY <1>1, <1>2, <1>3, <1>4 DEF Handle, AddMembers, ChangeMembers, RemoveMembers, Leave

\* Groups come into being by InsertGroup.
LEMMA GroupStep ==
  ASSUME GroupTypeOK, NEW q \in Requests, Standing(q), Receive(q) \/ Handle(q) \/ Crash(q),
         NEW g \in GroupIds, groups[g] = Absent, groups'[g] # Absent
  PROVE  InsertGroup(q) /\ at'[q] = g
PROOF
  <1>1. ~UNCHANGED groups
    OBVIOUS
  <1>2. ~Receive(q) /\ ~Crash(q) /\ ~FindSelf(q) /\ ~InsertSelf(q)
    BY <1>1 DEF Receive, Crash, FindSelf, InsertSelf, tables
  <1>3. ~FindById(q) /\ ~CheckEmail(q) /\ ~ReadParticipant(q) /\ ~SaveParticipant(q)
    BY <1>1 DEF FindById, CheckEmail, ReadParticipant, SaveParticipant, tables
  <1>4. ~ReadGroup(q) /\ ~AssertOwner(q) /\ ~Validate(q) /\ ~ReadMembers(q)
    BY <1>1 DEF ReadGroup, AssertOwner, Validate, ReadMembers, tables
  <1>5. ~AddMembers(q) /\ ~ChangeMembers(q) /\ ~RemoveMembers(q) /\ ~Leave(q)
    BY <1>1 DEF AddMembers, ChangeMembers, RemoveMembers, Leave
  <1>6. ~SaveGroup(q)
    <2> SUFFICES ASSUME SaveGroup(q) PROVE FALSE
      OBVIOUS
    <2>1. at[q] \in GroupIds /\ groups[at[q]] # Absent
      BY DEF SaveGroup, Standing, Calling, Working, OpsAt
    <2> QED
      BY <2>1 DEF SaveGroup, GroupTypeOK
  <1>7. InsertGroup(q)
    BY <1>2, <1>3, <1>4, <1>5, <1>6 DEF Handle
  <1> QED
    BY <1>7 DEF InsertGroup, GroupTypeOK

\* A step writes at most one participant, and what it writes has passed the indexes.
LEMMA ParticipantStep ==
  ASSUME GroupTypeOK, ReferenceInv, NEW q \in Requests, Standing(q),
         Receive(q) \/ Handle(q) \/ Crash(q), ~UNCHANGED participants
  PROVE  /\ UNCHANGED <<groups, memberships>>
         /\ pc[q] \in {"insertSelf", "saveParticipant"}
         /\ \E p \in Ids : \E row \in Participants :
              /\ participants' = [participants EXCEPT ![p] = row]
              /\ ~row.deleted => ~EmailTaken(row.space, row.email, p)
              /\ \A g \in GroupIds : memberships[<<g, p>>] # Absent => groups[g].space = row.space
              /\ row.deleted =>
                   \/ Op(q) = "dropParticipant" /\ p = call[q].id /\ pc'[q] = "readMembers"
                   \/ participants[p] # Absent /\ participants[p].deleted
PROOF
  <1>1. ~Receive(q) /\ ~Crash(q) /\ ~FindSelf(q)
    BY DEF Receive, Crash, FindSelf, tables
  <1>2. ~FindById(q) /\ ~CheckEmail(q) /\ ~ReadParticipant(q)
    BY DEF FindById, CheckEmail, ReadParticipant, tables
  <1>3. ~ReadGroup(q) /\ ~AssertOwner(q) /\ ~Validate(q) /\ ~ReadMembers(q) /\ ~InsertGroup(q)
    BY DEF ReadGroup, AssertOwner, Validate, ReadMembers, InsertGroup, tables
  <1>4. ~AddMembers(q) /\ ~ChangeMembers(q) /\ ~RemoveMembers(q) /\ ~Leave(q) /\ ~SaveGroup(q)
    BY DEF AddMembers, ChangeMembers, RemoveMembers, Leave, SaveGroup
  <1>5. CASE InsertSelf(q)
    <2>1. /\ ~EmailTaken(Space(q), UserEmail[call[q].user], NoId)
          /\ UNCHANGED <<groups, memberships>> /\ pc[q] = "insertSelf"
          /\ call[q] \in Calls /\ call[q].user \in Users /\ Space(q) \in Spaces
      BY <1>5, CallFields DEF InsertSelf, Standing, Calling, Space
    <2> DEFINE row == [space |-> Space(q), user |-> call[q].user,
                       email |-> UserEmail[call[q].user], look |-> UserLook, deleted |-> FALSE]
    <2>2. PICK p \in SeedIds : /\ participants[p] = Absent
                               /\ participants' = [participants EXCEPT ![p] = row]
      BY <1>5 DEF InsertSelf
    <2>3. row \in Participants
      <3>1. UserEmail[call[q].user] \in Emails /\ UserLook \in Looks
        BY <2>1, GroupData
      <3> QED
        BY <2>1, <3>1 DEF Participants
    <2>4. ~EmailTaken(Space(q), UserEmail[call[q].user], p)
      BY <2>1, <2>2, GroupData DEF EmailTaken, Live, In, Ids
    <2>5. row.space = Space(q) /\ row.email = UserEmail[call[q].user] /\ ~row.deleted
      OBVIOUS
    <2> HIDE DEF row
    <2>6. p \in Ids /\ \A g \in GroupIds : memberships[<<g, p>>] = Absent
      BY <2>2 DEF Ids, ReferenceInv
    <2> QED
      BY <2>1, <2>2, <2>3, <2>4, <2>5, <2>6
  <1>6. CASE SaveParticipant(q)
    <2>1. UNCHANGED <<groups, memberships>> /\ pc[q] = "saveParticipant"
      BY <1>6 DEF SaveParticipant
    <2>2. PICK p \in SaveIds(q) : \E row \in SavedParticipants(q, p) :
            /\ ~EmailViolated(row, p) /\ ~Stranded(row, p)
            /\ participants' = [participants EXCEPT ![p] = row]
            /\ Op(q) = "dropParticipant" => Goto(q, "readMembers")
      BY <1>6 DEF SaveParticipant
    <2>3. PICK row \in SavedParticipants(q, p) :
            /\ ~EmailViolated(row, p) /\ ~Stranded(row, p)
            /\ participants' = [participants EXCEPT ![p] = row]
            /\ Op(q) = "dropParticipant" => Goto(q, "readMembers")
      BY <2>2
    <2>4. /\ p \in Ids /\ row \in Participants
          /\ row.deleted => Op(q) = "dropParticipant" \/ (participants[p] # Absent
                                                          /\ participants[p].deleted)
          /\ Op(q) = "dropParticipant" => p = call[q].id
      BY <2>1, <2>3, SavedParticipantsFields
    <2>5. Op(q) = "dropParticipant" => pc'[q] = "readMembers"
      BY <2>3 DEF Goto, GroupTypeOK
    <2> QED
      BY <2>1, <2>3, <2>4, <2>5 DEF EmailViolated, Stranded
  <1> QED
    BY <1>1, <1>2, <1>3, <1>4, <1>5, <1>6 DEF Handle

-----------------------------------------------------------------------------
(* Every step keeps the invariant.                                         *)

LEMMA FoundingKept ==
  ASSUME GroupInv, NEW q \in Requests, Receive(q) \/ Handle(q) \/ Crash(q), Kept(q)
  PROVE  FoundingInv'
PROOF
  <1> DEFINE Founding(r) == pc[r] = "addMembers" /\ Op(r) = "addGroup"
  <1>1. ASSUME NEW r \in Requests \ {q}, Founding(r)'
        PROVE  /\ Founding(r) /\ Entered(at[r]) = {} /\ at'[r] = at[r]
               /\ at[r] \in GroupIds /\ groups[at[r]] # Absent /\ Entered(at[r])' = {}
    <2>1. Founding(r) /\ at'[r] = at[r]
      BY <1>1 DEF Kept, Framed, Op
    <2>2. Entered(at[r]) = {} /\ at[r] \in GroupIds /\ groups[at[r]] # Absent
      BY <2>1 DEF GroupInv, FoundingInv, Standing, Working
    <2>3. ASSUME NEW p \in Ids, memberships'[<<at[r], p>>] # Absent
          PROVE  FALSE
      <3>1. memberships[<<at[r], p>>] = Absent
        BY <2>2 DEF Entered
      <3>2. ~UNCHANGED memberships
        BY <2>3, <3>1
      <3>3. (AddMembers(q) /\ ~Answer(q, "error")) \/ ChangeMembers(q) \/ RemoveMembers(q) \/ Leave(q)
        BY <3>2, MembershipStep DEF GroupInv
      <3>4. ~ChangeMembers(q)
        BY <2>2, <2>3, <3>1, ChangeMembersWrites DEF GroupInv
      <3>5. ~RemoveMembers(q)
        BY <2>2, <2>3, <3>1, RemoveMembersWrites DEF GroupInv
      <3>6. ~Leave(q)
        BY <2>2, <2>3, <3>1, LeaveWrites DEF GroupInv
      <3>7. AddMembers(q) /\ ~Answer(q, "error")
        BY <3>3, <3>4, <3>5, <3>6
      <3>8. at[r] = at[q]
        BY <2>2, <2>3, <3>1, <3>7, AddMembersWrites DEF GroupInv
      <3>9. pc[q] = "addMembers" /\ Op(q) \in {"addGroup", "editGroup"}
        BY <3>7 DEF AddMembers, GroupInv, Standing, Calling, OpsAt
      <3>10. Op(q) # "addGroup"
        BY <1>1, <2>1, <3>8, <3>9 DEF GroupInv, FoundingInv
      <3>11. OwnerOf(at[q], me[q]) /\ me[q] \in Ids
        BY <3>9, <3>10 DEF GroupInv, Standing, Reading, Calling
      <3> QED
        BY <2>2, <3>8, <3>11 DEF Entered, OwnerOf
    <2> QED
      BY <2>1, <2>2, <2>3 DEF Entered
  <1>2. ASSUME Founding(q)'
        PROVE  /\ Entered(at[q])' = {}
               /\ \A r \in Requests \ {q} : Founding(r)' => at'[r] # at'[q]
    <2>1. InsertGroup(q)
      BY <1>2, FoundingStep DEF GroupInv
    <2>2. PICK g \in GroupIds : groups[g] = Absent /\ at'[q] = g /\ UNCHANGED memberships
      BY <2>1 DEF InsertGroup, GroupInv, GroupTypeOK
    <2>3. Entered(at[q])' = {}
      BY <2>2 DEF Entered, GroupInv, ReferenceInv
    <2> QED
      BY <1>1, <2>2, <2>3
  <1> QED
    BY <1>1, <1>2 DEF FoundingInv, GroupInv, FoundingInv

LEMMA ReferenceKept ==
  ASSUME GroupInv, NEW q \in Requests, Receive(q) \/ Handle(q) \/ Crash(q), Kept(q)
  PROVE  ReferenceInv'
PROOF
  <1> SUFFICES ASSUME NEW g \in GroupIds, NEW p \in Ids, memberships'[<<g, p>>] # Absent
               PROVE  /\ groups'[g] # Absent /\ participants'[p] # Absent
                      /\ participants'[p].space = groups'[g].space
    BY DEF ReferenceInv
  <1>1. CASE memberships[<<g, p>>] # Absent
    <2>1. /\ groups[g] # Absent /\ participants[p] # Absent
          /\ participants[p].space = groups[g].space
      BY <1>1 DEF GroupInv, ReferenceInv
    <2>2. /\ groups'[g] # Absent /\ participants'[p] # Absent /\ groups'[g].space = groups[g].space
      BY <2>1 DEF Kept, Grow
    <2>3. CASE UNCHANGED participants
      BY <2>1, <2>2, <2>3
    <2>4. CASE ~UNCHANGED participants
      <3>1. PICK r \in Ids : \E row \in Participants :
              /\ participants' = [participants EXCEPT ![r] = row]
              /\ \A h \in GroupIds : memberships[<<h, r>>] # Absent => groups[h].space = row.space
        BY <2>4, ParticipantStep DEF GroupInv
      <3> QED
        BY <1>1, <2>1, <2>2, <3>1 DEF GroupInv, GroupTypeOK
    <2> QED
      BY <2>3, <2>4
  <1>2. CASE memberships[<<g, p>>] = Absent
    <2>1. /\ UNCHANGED <<participants, groups>>
          /\ (AddMembers(q) /\ ~Answer(q, "error")) \/ ChangeMembers(q) \/ RemoveMembers(q) \/ Leave(q)
      BY <1>2, MembershipStep DEF GroupInv
    <2>2. AddMembers(q) /\ ~Answer(q, "error")
      BY <1>2, <2>1, ChangeMembersWrites, RemoveMembersWrites, LeaveWrites DEF GroupInv
    <2>3. participants[p] # Absent /\ participants[p].space = groups[g].space /\ g = at[q]
      BY <1>2, <2>2, AddMembersWrites DEF GroupInv
    <2>4. groups[at[q]] # Absent
      BY <2>2 DEF AddMembers, GroupInv, Standing, Calling, Working, OpsAt
    <2> QED
      BY <2>1, <2>3, <2>4
  <1> QED
    BY <1>1, <1>2

LEMMA EmailsKept ==
  ASSUME GroupInv, NEW q \in Requests, Receive(q) \/ Handle(q) \/ Crash(q)
  PROVE  ActiveEmailsUnique'
PROOF
  <1>1. CASE UNCHANGED participants
    BY <1>1 DEF GroupInv, ActiveEmailsUnique
  <1>2. CASE ~UNCHANGED participants
    <2>1. PICK p \in Ids : \E row \in Participants :
            /\ participants' = [participants EXCEPT ![p] = row]
            /\ ~row.deleted => ~EmailTaken(row.space, row.email, p)
      BY <1>2, ParticipantStep DEF GroupInv
    <2>2. PICK row \in Participants :
            /\ participants' = [participants EXCEPT ![p] = row]
            /\ ~row.deleted => ~EmailTaken(row.space, row.email, p)
      BY <2>1
    <2>3. participants'[p] = row /\ \A r \in Ids : r # p => participants'[r] = participants[r]
      BY <2>2 DEF GroupInv, GroupTypeOK
    <2>4. ASSUME ~row.deleted, row.email # NoEmail, NEW r \in Ids, r # p, participants[r] # Absent,
                 ~participants[r].deleted, participants[r].space = row.space
          PROVE  participants[r].email # row.email
      BY <2>2, <2>4 DEF EmailTaken, Live, In
    <2> QED
      BY <2>3, <2>4 DEF GroupInv, ActiveEmailsUnique
  <1> QED
    BY <1>1, <1>2

\* A new owner of a group is the one whose creation has just named its members.
LEMMA NewOwner ==
  ASSUME GroupInv, NEW q \in Requests, Receive(q) \/ Handle(q) \/ Crash(q), Kept(q),
         NEW g \in GroupIds, NEW p \in Ids, memberships[<<g, p>>] = Absent,
         memberships'[<<g, p>>] # Absent
  PROVE  /\ AddMembers(q) /\ ~Answer(q, "error") /\ g = at[q] /\ pc[q] = "addMembers"
         /\ Op(q) \in {"addGroup", "editGroup"}
         /\ OwnerOf(g, p)' => p = me[q]
         /\ Op(q) = "editGroup" => OwnerOf(g, me[q]) /\ ~OwnerOf(g, p)'
PROOF
  <1>1. (AddMembers(q) /\ ~Answer(q, "error")) \/ ChangeMembers(q) \/ RemoveMembers(q) \/ Leave(q)
    BY MembershipStep DEF GroupInv
  <1>2. AddMembers(q) /\ ~Answer(q, "error")
    BY <1>1, ChangeMembersWrites, RemoveMembersWrites, LeaveWrites DEF GroupInv
  <1>3. g = at[q] /\ memberships'[<<g, p>>].role = IF p = me[q] THEN "owner" ELSE "member"
    BY <1>2, AddMembersWrites DEF GroupInv
  <1>4. pc[q] = "addMembers" /\ Op(q) \in {"addGroup", "editGroup"}
    BY <1>2 DEF AddMembers, GroupInv, Standing, Calling, OpsAt
  <1>5. Op(q) = "editGroup" => OwnerOf(g, me[q])
    BY <1>3, <1>4 DEF GroupInv, Standing, Reading
  <1> QED
    BY <1>2, <1>3, <1>4, <1>5 DEF OwnerOf

LEMMA OwnerKept ==
  ASSUME GroupInv, NEW q \in Requests, Receive(q) \/ Handle(q) \/ Crash(q), Kept(q)
  PROVE  OwnerInv'
PROOF
  <1> DEFINE Owned(g, p) == /\ OwnerOf(g, p) /\ participants[p].user = groups[g].creator
                            /\ \A r \in Ids : OwnerOf(g, r) => r = p
             Founds(g, r) == /\ pc[r] \in {"addMembers", "done"} /\ at[r] = g
                             /\ Op(r) = "addGroup" /\ reply[r] # "ok"
  <1> SUFFICES ASSUME NEW g \in GroupIds, groups'[g] # Absent
               PROVE  \/ \E p \in Ids : Owned(g, p)'
                      \/ Entered(g)' = {} /\ \E r \in Requests : Founds(g, r)'
    BY DEF OwnerInv
  <1>1. CASE groups[g] = Absent
    <2>1. InsertGroup(q) /\ at'[q] = g
      BY <1>1, GroupStep DEF GroupInv
    <2>2. /\ UNCHANGED <<memberships, call, reply>> /\ pc'[q] = "addMembers"
          /\ Op(q) = "addGroup" /\ reply[q] = "none"
      BY <2>1 DEF InsertGroup, Goto, GroupInv, GroupTypeOK, Standing, Calling, OpsAt
    <2>3. Founds(g, q)'
      BY <2>1, <2>2 DEF Op
    <2>4. Entered(g)' = {}
      BY <1>1, <2>2 DEF Entered, GroupInv, ReferenceInv
    <2> QED
      BY <2>3, <2>4
  <1>2. ASSUME groups[g] # Absent, NEW p \in Ids, Owned(g, p)
        PROVE  Owned(g, p)'
    <2>1. OwnerOf(g, p)'
      BY <1>2 DEF OwnerOf, Kept, Grow
    <2>2. participants[p] # Absent
      BY <1>2 DEF OwnerOf, GroupInv, ReferenceInv
    <2>3. participants'[p].user = groups'[g].creator
      BY <1>2, <2>2 DEF Kept, Grow
    <2>4. ASSUME NEW r \in Ids, OwnerOf(g, r)' PROVE r = p
      <3>1. CASE memberships[<<g, r>>] # Absent
        <4>1. OwnerOf(g, r)
          BY <2>4, <3>1 DEF OwnerOf, Kept, Grow
        <4> QED
          BY <1>2, <4>1
      <3>2. CASE memberships[<<g, r>>] = Absent
        <4>1. memberships'[<<g, r>>] # Absent
          BY <2>4 DEF OwnerOf
        <4>2. /\ g = at[q] /\ pc[q] = "addMembers" /\ Op(q) \in {"addGroup", "editGroup"}
              /\ Op(q) = "editGroup" => ~OwnerOf(g, r)'
          BY <3>2, <4>1, NewOwner
        <4>3. Entered(g) = {}
          BY <2>4, <4>2 DEF GroupInv, FoundingInv
        <4> QED
          BY <1>2, <4>3 DEF Entered, OwnerOf
      <3> QED
        BY <3>1, <3>2
    <2> QED
      BY <2>1, <2>3, <2>4
  <1>3. ASSUME groups[g] # Absent, Entered(g) = {}, NEW r \in Requests, Founds(g, r),
               Entered(g)' # {}
        PROVE  \E p \in Ids : Owned(g, p)'
    <2>1. PICK p \in Ids : memberships'[<<g, p>>] # Absent
      BY <1>3 DEF Entered
    <2>2. \A s \in Ids : memberships[<<g, s>>] = Absent
      BY <1>3 DEF Entered
    <2>3. /\ AddMembers(q) /\ ~Answer(q, "error") /\ g = at[q] /\ pc[q] = "addMembers"
          /\ Op(q) \in {"addGroup", "editGroup"}
          /\ Op(q) = "editGroup" => OwnerOf(g, me[q])
      BY <2>1, <2>2, NewOwner
    <2>4. PICK m \in Ids : m = me[q]
      BY <2>3 DEF GroupInv, Standing, Calling
    <2>5. Op(q) = "addGroup"
      BY <2>2, <2>3, <2>4 DEF OwnerOf
    <2>6. /\ m \in roster[q] /\ participants[m].user = call[q].user
          /\ groups[g].creator = call[q].user
      BY <2>3, <2>4, <2>5 DEF GroupInv, Standing, Calling, Working
    <2>7. /\ UNCHANGED <<participants, groups>>
          /\ memberships'[<<g, m>>].role = "owner" /\ Active(memberships'[<<g, m>>])
      BY <2>3, <2>4, <2>5, <2>6, AddMembersWrites DEF GroupInv
    <2>8. OwnerOf(g, m)'
      BY <2>7 DEF OwnerOf, Active
    <2>9. ASSUME NEW s \in Ids, OwnerOf(g, s)' PROVE s = m
      BY <2>2, <2>4, <2>9, NewOwner DEF OwnerOf
    <2>10. participants'[m].user = groups'[g].creator
      BY <2>6, <2>7
    <2> QED
      BY <2>8, <2>9, <2>10
  <1>4. ASSUME groups[g] # Absent, Entered(g) = {}, NEW r \in Requests, Founds(g, r),
               Entered(g)' = {}
        PROVE  Founds(g, r)'
    <2>1. CASE r # q
      BY <1>4, <2>1 DEF Kept, Framed, Op
    <2>2. CASE r = q
      <3> USE DEF GroupInv, GroupTypeOK, Goto, Answer
      <3>1. pc[q] = "addMembers"
        <4>1. pc[q] # "done"
          BY DEF Receive, Crash, Handle, FindSelf, InsertSelf, FindById, CheckEmail,
             ReadParticipant, SaveParticipant, ReadGroup, AssertOwner, Validate, InsertGroup,
             ReadMembers, AddMembers, ChangeMembers, RemoveMembers, SaveGroup, Leave
        <4> QED
          BY <1>4, <2>2, <4>1
      <3>2. AddMembers(q) \/ Crash(q)
        BY <3>1 DEF Receive, Crash, Handle, FindSelf, InsertSelf, FindById, CheckEmail,
           ReadParticipant, SaveParticipant, ReadGroup, AssertOwner, Validate, InsertGroup,
           ReadMembers, AddMembers, ChangeMembers, RemoveMembers, SaveGroup, Leave
      <3>3. UNCHANGED local
        BY <3>2 DEF AddMembers, Crash
      <3>4. CASE Answer(q, "error") \/ Crash(q)
        BY <1>4, <2>2, <3>3, <3>4 DEF Crash, Op, local
      <3>5. CASE AddMembers(q) /\ ~Answer(q, "error")
        <4>1. me[q] \in Ids /\ me[q] \in roster[q] /\ at[q] = g
          BY <1>4, <2>2, <3>1 DEF Standing, Calling, Working
        <4>2. Active(memberships'[<<g, me[q]>>])
          BY <1>4, <2>2, <3>5, <4>1, AddMembersWrites
        <4> QED
          BY <1>4, <4>1, <4>2 DEF Active, Entered
      <3> QED
        BY <3>2, <3>4, <3>5
    <2> QED
      BY <2>1, <2>2
  <1> QED
    BY <1>1, <1>2, <1>3, <1>4 DEF GroupInv, OwnerInv

LEMMA BusyStep ==
  ASSUME GroupTypeOK, NEW q \in Requests, Receive(q) \/ Handle(q) \/ Crash(q)
  PROVE  /\ pc[q] # "done" /\ pc'[q] # "idle"
         /\ pc[q] # "idle" => call'[q] = call[q]
PROOF
  <1> USE DEF GroupTypeOK, Goto, Answer, local
  <1>1. ASSUME Receive(q) \/ Crash(q)
        PROVE  pc[q] # "done" /\ pc'[q] # "idle" /\ (pc[q] # "idle" => call'[q] = call[q])
    BY <1>1 DEF Receive, Crash
  <1>2. ASSUME FindSelf(q) \/ InsertSelf(q)
        PROVE  pc[q] # "done" /\ pc'[q] # "idle" /\ call'[q] = call[q]
    BY <1>2 DEF FindSelf, InsertSelf, BeginWith, Begin
  <1>3. ASSUME FindById(q) \/ CheckEmail(q) \/ ReadParticipant(q) \/ SaveParticipant(q)
        PROVE  pc[q] # "done" /\ pc'[q] # "idle" /\ call'[q] = call[q]
    BY <1>3 DEF FindById, CheckEmail, ReadParticipant, SaveParticipant, ResolveReplay, Unique
  <1>4. ASSUME ReadGroup(q) \/ AssertOwner(q) \/ Validate(q) \/ InsertGroup(q) \/ ReadMembers(q)
        PROVE  pc[q] # "done" /\ pc'[q] # "idle" /\ call'[q] = call[q]
    BY <1>4 DEF ReadGroup, AssertOwner, Validate, InsertGroup, ReadMembers
  <1>5. ASSUME \/ AddMembers(q) \/ ChangeMembers(q) \/ RemoveMembers(q) \/ SaveGroup(q)
               \/ Leave(q)
        PROVE  pc[q] # "done" /\ pc'[q] # "idle" /\ call'[q] = call[q]
    BY <1>5 DEF AddMembers, ChangeMembers, RemoveMembers, SaveGroup, Leave
  <1> QED
    BY <1>1, <1>2, <1>3, <1>4, <1>5 DEF Handle

LEMMA OwnersLeaveKept ==
  ASSUME GroupInv, NEW q \in Requests, Receive(q) \/ Handle(q) \/ Crash(q), Kept(q)
  PROVE  OwnersLeave'
PROOF
  <1> DEFINE Ending(r, g, p) == /\ pc[r] # "idle"
                                /\ \/ Op(r) = "dropGroup" /\ call[r].group = g
                                   \/ Op(r) = "dropParticipant" /\ call[r].id = p
  <1> SUFFICES ASSUME NEW g \in GroupIds, NEW p \in Ids,
                      OwnerOf(g, p)', ~Active(memberships'[<<g, p>>])
               PROVE  \E r \in Requests : Ending(r, g, p)'
    BY DEF OwnersLeave
  <1>1. ASSUME NEW r \in Requests, Ending(r, g, p) PROVE Ending(r, g, p)'
    <2>1. pc'[r] # "idle" /\ call'[r] = call[r]
      BY <1>1, BusyStep DEF GroupInv, Kept, Framed
    <2> QED
      BY <1>1, <2>1 DEF Op
  <1>2. CASE memberships'[<<g, p>>] = memberships[<<g, p>>]
    <2>1. PICK r \in Requests : Ending(r, g, p)
      BY <1>2 DEF GroupInv, OwnersLeave, OwnerOf
    <2> QED
      BY <1>1, <2>1
  <1>3. CASE memberships'[<<g, p>>] # memberships[<<g, p>>]
    <2>1. (AddMembers(q) /\ ~Answer(q, "error")) \/ ChangeMembers(q) \/ RemoveMembers(q) \/ Leave(q)
      BY <1>3, MembershipStep DEF GroupInv
    <2>2. ~(AddMembers(q) /\ ~Answer(q, "error"))
      BY <1>3, AddMembersWrites DEF GroupInv
    <2>3. ~ChangeMembers(q)
      BY <1>3, ChangeMembersWrites DEF GroupInv
    <2>4. ~RemoveMembers(q)
      <3> SUFFICES ASSUME RemoveMembers(q) PROVE FALSE
        OBVIOUS
      <3>1. memberships[<<g, p>>] # Absent /\ g = at[q] /\ p # me[q]
        BY <1>3, RemoveMembersWrites DEF GroupInv
      <3>2. OwnerOf(g, p)
        BY <3>1 DEF Kept, Grow, OwnerOf
      <3>3. pc[q] = "removeMembers" /\ Op(q) = "editGroup"
        BY DEF RemoveMembers, GroupInv, Standing, Calling, OpsAt
      <3> QED
        BY <3>1, <3>2, <3>3, OnlyOwner DEF GroupInv
    <2>5. Leave(q)
      BY <2>1, <2>2, <2>3, <2>4
    <2>6. Ending(q, g, p)
      BY <1>3, <2>5, LeaveWrites DEF GroupInv, Leave
    <2> QED
      BY <1>1, <2>6
  <1> QED
    BY <1>2, <1>3

LEMMA DepartKept ==
  ASSUME GroupInv, NEW q \in Requests, Receive(q) \/ Handle(q) \/ Crash(q), Note(q), Kept(q),
         ReferenceInv'
  PROVE  DepartInv'
PROOF
  <1> SUFFICES ASSUME NEW g \in GroupIds, NEW p \in Ids,
                      Active(memberships'[<<g, p>>]), participants'[p].deleted
               PROVE  p \in raced' \/ \E r \in Requests : Ends(r, g, p)'
    BY DEF DepartInv
  <1>1. ASSUME NEW r \in Requests, Ends(r, g, p),
               ~(pc[q] \in {"insertSelf", "saveParticipant"} /\ r = q)
        PROVE  Ends(r, g, p)'
    <2>1. CASE r # q
      BY <1>1, <2>1 DEF Kept, Framed, Ends, Op
    <2>2. CASE r = q
      <3> USE DEF GroupInv, GroupTypeOK, Goto, Answer, local
      <3>1. pc[q] \in {"readMembers", "leave"} /\ Op(q) = "dropParticipant" /\ call[q].id = p
        BY <1>1, <2>2, BusyStep DEF Ends
      <3>2. ReadMembers(q) \/ Leave(q) \/ Crash(q)
        BY <3>1 DEF Receive, Crash, Handle, FindSelf, InsertSelf, FindById, CheckEmail,
           ReadParticipant, SaveParticipant, ReadGroup, AssertOwner, Validate, InsertGroup,
           ReadMembers, AddMembers, ChangeMembers, RemoveMembers, SaveGroup, Leave
      <3>3. CASE Crash(q)
        BY <2>2, <3>1, <3>3 DEF Crash, Ends, Op
      <3>4. CASE ReadMembers(q)
        <4>1. /\ pc'[q] = "leave" /\ call'[q] = call[q]
              /\ known'[q] = [k \in Keys |-> IF k \in Concerned(q) THEN memberships[k] ELSE Absent]
          BY <3>1, <3>4 DEF ReadMembers
        <4>2. <<g, p>> \in Keys /\ <<g, p>> \in Concerned(q)
          BY <3>1 DEF Keys, Concerned
        <4>3. memberships[<<g, p>>] # Absent
          BY <3>4 DEF ReadMembers, tables, Active
        <4>4. known'[q][<<g, p>>] # Absent
          BY <4>1, <4>2, <4>3
        <4> QED
          BY <2>2, <3>1, <4>1, <4>4 DEF Ends, Op
      <3>5. CASE Leave(q)
        BY <1>1, <2>2, <3>5, LeaveWrites DEF Leave, Ends
      <3> QED
        BY <3>2, <3>3, <3>4, <3>5
    <2> QED
      BY <2>1, <2>2
  <1>2. raced \subseteq raced'
    BY DEF Note
  <1>3. CASE UNCHANGED participants
    <2>1. CASE Active(memberships[<<g, p>>])
      <3>1. p \in raced \/ \E r \in Requests : Ends(r, g, p)
        BY <1>3, <2>1 DEF GroupInv, DepartInv
      <3>2. ASSUME NEW r \in Requests, Ends(r, g, p) PROVE Ends(r, g, p)'
        <4>1. ~(pc[q] \in {"insertSelf", "saveParticipant"} /\ r = q)
          BY <3>2 DEF Ends
        <4> QED
          BY <1>1, <3>2, <4>1
      <3> QED
        BY <1>2, <3>1, <3>2
    <2>2. CASE ~Active(memberships[<<g, p>>])
      <3>1. participants[p] # Absent
        BY <1>3 DEF Active, ReferenceInv
      <3> QED
        BY <1>3, <2>2, <3>1 DEF Note
    <2> QED
      BY <2>1, <2>2
  <1>4. CASE ~UNCHANGED participants
    <2>1. /\ UNCHANGED <<groups, memberships>> /\ pc[q] \in {"insertSelf", "saveParticipant"}
          /\ \E s \in Ids : \E row \in Participants :
               /\ participants' = [participants EXCEPT ![s] = row]
               /\ row.deleted =>
                    \/ Op(q) = "dropParticipant" /\ s = call[q].id /\ pc'[q] = "readMembers"
                    \/ participants[s] # Absent /\ participants[s].deleted
      BY <1>4, ParticipantStep DEF GroupInv
    <2>2. \/ Op(q) = "dropParticipant" /\ p = call[q].id /\ pc'[q] = "readMembers"
          \/ participants[p].deleted
      BY <2>1 DEF GroupInv, GroupTypeOK
    <2>3. CASE Op(q) = "dropParticipant" /\ p = call[q].id /\ pc'[q] = "readMembers"
      <3>1. call'[q] = call[q]
        BY <2>1, BusyStep DEF GroupInv
      <3>2. Ends(q, g, p)'
        BY <2>3, <3>1 DEF Ends, Op
      <3> QED
        BY <3>2
    <2>4. CASE participants[p].deleted
      <3>1. p \in raced \/ \E r \in Requests : Ends(r, g, p)
        BY <2>1, <2>4 DEF GroupInv, DepartInv
      <3>2. ASSUME NEW r \in Requests, Ends(r, g, p) PROVE Ends(r, g, p)'
        <4>1. r # q
          BY <2>1, <3>2 DEF Ends
        <4> QED
          BY <1>1, <3>2, <4>1
      <3> QED
        BY <1>2, <3>1, <3>2
    <2> QED
      BY <2>2, <2>3, <2>4
  <1> QED
    BY <1>3, <1>4

-----------------------------------------------------------------------------
(* Theorems.                                                               *)

LEMMA InitInv == GroupInit => GroupInv
PROOF
  <1> SUFFICES ASSUME GroupInit PROVE GroupInv
    OBVIOUS
  <1>1. PICK t \in Stored : /\ participants = t.participants /\ groups = t.groups
                            /\ memberships = t.memberships
    BY DEF GroupInit
  <1>2. GroupTypeOK
    <2>1. t \in Tables
      BY GroupData
    <2>2. /\ participants \in [Ids -> Participants \cup {Absent}]
          /\ groups \in [GroupIds -> Groups \cup {Absent}]
          /\ memberships \in [Keys -> Members \cup {Absent}]
      BY <1>1, <2>1 DEF Tables
    <2> QED
      BY <2>2 DEF GroupInit, GroupTypeOK, PCs, Statuses, NoneKnown
  <1>3. \A q \in Requests : pc[q] = "idle" /\ reply[q] = "none" /\ known[q] = NoneKnown
                            /\ roster[q] = {}
    BY DEF GroupInit
  <1>4. \A q \in Requests : Standing(q)
    <2> TAKE q \in Requests
    <2>1. Calling(q)
      BY <1>3 DEF Calling
    <2>2. Working(q)
      BY <1>3 DEF Working
    <2>3. Reading(q)
      BY <1>3 DEF Reading, NoneKnown, Keys
    <2> QED
      BY <2>1, <2>2, <2>3 DEF Standing
  <1>5. FoundingInv
    BY <1>3 DEF FoundingInv
  <1>6. ReferenceInv
    BY <1>1, StoredRows DEF ReferenceInv
  <1>7. ActiveEmailsUnique
    BY <1>1, StoredRows DEF ActiveEmailsUnique
  <1>8. OwnerInv
    <2> SUFFICES ASSUME NEW g \in GroupIds, groups[g] # Absent
                 PROVE  \E p \in Ids : /\ OwnerOf(g, p) /\ participants[p].user = groups[g].creator
                                       /\ \A r \in Ids : OwnerOf(g, r) => r = p
      BY DEF OwnerInv
    <2>1. PICK p \in Ids :
            /\ memberships[<<g, p>>] = [role |-> "owner", status |-> "active"]
            /\ participants[p].user = groups[g].creator
            /\ \A r \in Ids : memberships[<<g, r>>] # Absent
                              /\ memberships[<<g, r>>].role = "owner" => r = p
      BY <1>1, StoredRows
    <2>2. [role |-> "owner", status |-> "active"] \in Members
      BY DEF Members
    <2>3. memberships[<<g, p>>] # Absent /\ memberships[<<g, p>>].role = "owner"
      BY <2>1, <2>2, GroupData
    <2> QED
      BY <2>1, <2>3 DEF OwnerOf
  <1>9. OwnersLeave
    <2> SUFFICES ASSUME NEW g \in GroupIds, NEW p \in Ids, OwnerOf(g, p)
                 PROVE  Active(memberships[<<g, p>>])
      BY DEF OwnersLeave
    <2>1. groups[g] # Absent
      BY <1>6 DEF ReferenceInv, OwnerOf
    <2>2. PICK r \in Ids :
            /\ memberships[<<g, r>>] = [role |-> "owner", status |-> "active"]
            /\ memberships[<<g, p>>] # Absent /\ memberships[<<g, p>>].role = "owner" => p = r
      BY <1>1, <2>1, StoredRows
    <2> QED
      BY <2>2 DEF OwnerOf, Active
  <1>10. DepartInv
    BY <1>1, StoredRows DEF DepartInv, Active
  <1> QED
    BY <1>2, <1>4, <1>5, <1>6, <1>7, <1>8, <1>9, <1>10 DEF GroupInv

LEMMA NextInv == GroupInv /\ [GroupNext]_vars => GroupInv'
PROOF
  <1> SUFFICES ASSUME GroupInv, [GroupNext]_vars PROVE GroupInv'
    OBVIOUS
  <1>1. ASSUME NEW q \in Requests, Receive(q) \/ Handle(q) \/ Crash(q), Note(q)
        PROVE  GroupInv'
    <2>1. Kept(q)
      BY <1>1, StepKept DEF GroupInv
    <2>2. GroupTypeOK' /\ Standing(q)'
      BY <2>1 DEF Kept
    <2>3. \A r \in Requests : Standing(r)'
      BY <2>1, <2>2, OthersStand DEF Kept, GroupInv
    <2>4. FoundingInv' /\ ReferenceInv' /\ OwnerInv' /\ OwnersLeave' /\ ActiveEmailsUnique'
      BY <1>1, <2>1, FoundingKept, ReferenceKept, OwnerKept, OwnersLeaveKept, EmailsKept
    <2>5. DepartInv'
      BY <1>1, <2>1, <2>4, DepartKept
    <2> QED
      BY <2>2, <2>3, <2>4, <2>5 DEF GroupInv
  <1>2. CASE UNCHANGED vars
    <2> USE <1>2 DEF vars, tables, local
    <2>1. GroupTypeOK' /\ FoundingInv' /\ ReferenceInv' /\ ActiveEmailsUnique'
      BY DEF GroupInv, GroupTypeOK, FoundingInv, Op, Entered, ReferenceInv, ActiveEmailsUnique
    <2>2. \A q \in Requests : Standing(q)'
      <3> TAKE q \in Requests
      <3>1. Framed(q) /\ Grow
        BY DEF Framed, Grow
      <3> QED
        BY <3>1, OthersStand DEF GroupInv
    <2>3. OwnerInv'
      BY DEF GroupInv, OwnerInv, OwnerOf, Entered, Op
    <2>4. OwnersLeave'
      BY DEF GroupInv, OwnersLeave, OwnerOf, Op, Active
    <2>5. DepartInv'
      BY DEF GroupInv, DepartInv, Ends, Op, Active
    <2> QED
      BY <2>1, <2>2, <2>3, <2>4, <2>5 DEF GroupInv
  <1> QED
    BY <1>1, <1>2 DEF GroupNext

\* The invariant that the theorems below are drawn from.
THEOREM GroupInvariant == GroupSpec => []GroupInv
PROOF
  BY InitInv, NextInv, PTL DEF GroupSpec

\* Every row keeps the columns of its table and every request the types of what it
\* has read, through all creations, updates and deletions that race.
THEOREM GroupTypeCorrect == GroupSpec => []GroupTypeOK
PROOF
  <1>1. GroupInv => GroupTypeOK
    BY DEF GroupInv
  <1> QED
    BY <1>1, GroupInvariant, PTL

\* Nobody is in a group of another space.
THEOREM MembersStayInSpace == GroupSpec => []MembersOfTheirSpace
PROOF
  <1>1. GroupInv => MembersOfTheirSpace
    BY DEF GroupInv, ReferenceInv, MembersOfTheirSpace, Entered
  <1> QED
    BY <1>1, GroupInvariant, PTL

\* No two live participants of a space have one address, however the checks of it
\* and the saves interleave.
THEOREM EmailsStayUnique == GroupSpec => []ActiveEmailsUnique
PROOF
  <1>1. GroupInv => ActiveEmailsUnique
    BY DEF GroupInv
  <1> QED
    BY <1>1, GroupInvariant, PTL

\* A group has its creator for its one owner until it or that participant is deleted.
THEOREM OwnersStay == GroupSpec => []GroupsKeepOwner
PROOF
  <1>1. GroupInv => GroupsKeepOwner
    <2> SUFFICES ASSUME GroupInv, NEW g \in GroupIds, groups[g] # Absent
                 PROVE  LET owners == {p \in Entered(g) : memberships[<<g, p>>].role = "owner"} IN
                        /\ \/ /\ Cardinality(owners) = 1
                              /\ \A p \in owners : participants[p].user = groups[g].creator
                           \/ /\ Entered(g) = {}
                              /\ \E q \in Requests : at[q] = g /\ Op(q) = "addGroup" /\ reply[q] # "ok"
                        /\ \A p \in owners \ Present(g) :
                             \E q \in Requests :
                               /\ pc[q] # "idle"
                               /\ \/ Op(q) = "dropGroup" /\ call[q].group = g
                                  \/ Op(q) = "dropParticipant" /\ call[q].id = p
      BY DEF GroupsKeepOwner
    <2> DEFINE owners == {p \in Entered(g) : memberships[<<g, p>>].role = "owner"}
    <2>1. owners = {p \in Ids : OwnerOf(g, p)}
      BY DEF Entered, OwnerOf
    <2>2. ASSUME NEW p \in owners \ Present(g)
          PROVE  \E q \in Requests : /\ pc[q] # "idle"
                                    /\ \/ Op(q) = "dropGroup" /\ call[q].group = g
                                       \/ Op(q) = "dropParticipant" /\ call[q].id = p
      BY <2>1 DEF GroupInv, OwnersLeave, Present
    <2>3. ASSUME NEW p \in Ids, OwnerOf(g, p), participants[p].user = groups[g].creator,
                 \A r \in Ids : OwnerOf(g, r) => r = p
          PROVE  Cardinality(owners) = 1 /\ \A r \in owners : participants[r].user = groups[g].creator
      <3>1. owners = {p}
        BY <2>1, <2>3
      <3>2. Cardinality(owners) = 1
        BY <3>1, FS_Singleton
      <3> QED
        BY <2>3, <3>1, <3>2
    <2>4. \/ Cardinality(owners) = 1 /\ \A p \in owners : participants[p].user = groups[g].creator
          \/ /\ Entered(g) = {}
             /\ \E q \in Requests : at[q] = g /\ Op(q) = "addGroup" /\ reply[q] # "ok"
      BY <2>3 DEF GroupInv, OwnerInv
    <2> QED
      BY <2>2, <2>4
  <1> QED
    BY <1>1, GroupInvariant, PTL

\* Who is deleted is active in a group only by a race, or because its deletion is
\* under way or was cut short.
THEOREM DepartedLeave == GroupSpec => []DepartedOnlyByRace
PROOF
  <1>1. GroupInv => DepartedOnlyByRace
    BY DEF GroupInv, DepartInv, DepartedOnlyByRace, Ends, Present
  <1> QED
    BY <1>1, GroupInvariant, PTL

-----------------------------------------------------------------------------
(* The three saves of an update.                                           *)

\* What a creation or an update has written of the members it has read.
Written(q) ==
  {k \in Added(q) : pc[q] \in {"changeMembers", "removeMembers"}}
    \cup {k \in Changed(q) : pc[q] = "removeMembers"}

\* Undisturbed, it finds the members as it has read them and written them since,
\* and comes to its last save with those it was to leave.
InStep(q) ==
  /\ /\ pc[q] \in {"insertGroup", "readMembers", "addMembers", "changeMembers", "removeMembers"}
     /\ Op(q) \in {"addGroup", "editGroup"}
     => roster[q] = Named(q)
  /\ pc[q] \in {"addMembers", "changeMembers", "removeMembers"} /\ q \notin disturbed =>
       \A p \in Ids : memberships[<<at[q], p>>] =
         IF <<at[q], p>> \in Written(q) THEN Desired(q, <<at[q], p>>)
         ELSE known[q][<<at[q], p>>]
  /\ /\ pc[q] = "saveGroup" /\ q \notin disturbed
     /\ Op(q) = "editGroup" /\ call[q].who # Keep
     => Present(at[q]) = Named(q)

\* Another request that leaves the tables alone, or disturbs it, leaves it in step.
LEMMA OthersInStep ==
  ASSUME GroupInv, NEW q \in Requests, Note(q), Kept(q), NEW r \in Requests \ {q}, InStep(r)
  PROVE  InStep(r)'
PROOF
  <1>1. Framed(r)
    BY DEF Kept
  <1>2. /\ Op(r)' = Op(r) /\ Named(r)' = Named(r) /\ Written(r)' = Written(r)
        /\ \A k : Desired(r, k)' = Desired(r, k)
    BY <1>1 DEF Framed, Op, Named, Written, Added, Changed, Wanted, Desired
  <1>3. CASE pc[r] \in {"idle", "done"}
    BY <1>1, <1>3 DEF InStep, Framed
  <1>4. CASE pc[r] \notin {"idle", "done"} /\ r \notin disturbed'
    <2>1. tables' = tables /\ r \notin disturbed
      BY <1>4 DEF Note
    <2>2. Present(at[r])' = Present(at[r])
      BY <1>1, <2>1 DEF Framed, Present, tables
    <2> QED
      BY <1>1, <1>2, <2>1, <2>2 DEF InStep, Framed, tables
  <1>5. CASE r \in disturbed'
    BY <1>1, <1>2, <1>5 DEF InStep, Framed
  <1> QED
    BY <1>3, <1>4, <1>5

\* The awaits of these saves are come to one after the other.
LEMMA SyncSteps ==
  ASSUME GroupTypeOK, NEW q \in Requests, Standing(q), Receive(q) \/ Handle(q) \/ Crash(q)
  PROVE  /\ pc'[q] = "insertGroup" => Validate(q)
         /\ pc'[q] = "readMembers" /\ Op(q)' = "editGroup" => Validate(q)
         /\ pc'[q] = "addMembers" => InsertGroup(q) \/ ReadMembers(q)
         /\ pc'[q] = "changeMembers" => AddMembers(q)
         /\ pc'[q] = "removeMembers" => ChangeMembers(q)
         /\ pc'[q] = "saveGroup" => AssertOwner(q) \/ RemoveMembers(q)
PROOF
  <1> USE DEF GroupTypeOK, Goto, Answer
  <1> DEFINE Late == {"insertGroup", "readMembers", "addMembers", "changeMembers",
                      "removeMembers", "saveGroup"}
  <1>1. Receive(q) \/ Crash(q) => pc'[q] \notin Late
    BY DEF Receive, Crash
  <1>2. FindSelf(q) \/ InsertSelf(q) => pc'[q] \notin Late
    BY DEF FindSelf, InsertSelf, BeginWith, Begin
  <1>3. FindById(q) \/ CheckEmail(q) \/ ReadParticipant(q) => pc'[q] \notin Late
    BY DEF FindById, CheckEmail, ReadParticipant, ResolveReplay
  <1>4. SaveParticipant(q) => pc'[q] \notin Late \ {"readMembers"}
    BY DEF SaveParticipant, Unique
  <1>5. SaveParticipant(q) /\ pc'[q] = "readMembers" => Op(q)' # "editGroup"
    BY DEF SaveParticipant, Unique, Op, local
  <1>6. ReadGroup(q) \/ Leave(q) => pc'[q] \notin Late
    BY DEF ReadGroup, Leave
  <1>7. SaveGroup(q) => pc'[q] \notin Late \ {"readMembers"}
    BY DEF SaveGroup
  <1>8. SaveGroup(q) /\ pc'[q] = "readMembers" => Op(q)' # "editGroup"
    BY DEF SaveGroup, Op, local
  <1>9. AssertOwner(q) => pc'[q] \notin Late \ {"saveGroup"}
    BY DEF AssertOwner
  <1>10. Validate(q) => pc'[q] \notin Late \ {"insertGroup", "readMembers"}
    BY DEF Validate
  <1>11. InsertGroup(q) \/ ReadMembers(q) => pc'[q] \notin Late \ {"addMembers"}
    BY DEF InsertGroup, ReadMembers
  <1>12. AddMembers(q) => pc'[q] \notin Late \ {"changeMembers"}
    BY DEF AddMembers
  <1>13. ChangeMembers(q) => pc'[q] \notin Late \ {"removeMembers"}
    BY DEF ChangeMembers
  <1>14. RemoveMembers(q) => pc'[q] \notin Late \ {"saveGroup"}
    BY DEF RemoveMembers
  <1> HIDE DEF GroupTypeOK, Goto, Answer
  <1> QED
    BY <1>1, <1>2, <1>3, <1>4, <1>5, <1>6, <1>7, <1>8, <1>9, <1>10, <1>11, <1>12, <1>13, <1>14
    DEF Handle

\* A request's own step does not disturb it.
LEMMA UndisturbedStays ==
  ASSUME NEW q \in Requests, Note(q), q \notin disturbed' PROVE q \notin disturbed
PROOF
  BY DEF Note

LEMMA ValidateInStep ==
  ASSUME GroupInv, NEW q \in Requests, Validate(q), pc'[q] # "done"
  PROVE  InStep(q)'
PROOF
  <1>1. /\ roster' = [roster EXCEPT ![q] = Named(q)]
        /\ pc' = [pc EXCEPT ![q] = IF Op(q) = "addGroup" THEN "insertGroup" ELSE "readMembers"]
        /\ UNCHANGED <<call, me>>
    BY DEF Validate, Goto, Answer, GroupInv, GroupTypeOK
  <1>2. roster'[q] = Named(q) /\ Named(q)' = Named(q) /\ pc'[q] \in {"insertGroup", "readMembers"}
    BY <1>1 DEF GroupInv, GroupTypeOK, Named
  <1> QED
    BY <1>2 DEF InStep

LEMMA InsertGroupInStep ==
  ASSUME GroupInv, NEW q \in Requests, InStep(q), InsertGroup(q)
  PROVE  InStep(q)'
PROOF
  <1>1. /\ pc'[q] = "addMembers" /\ UNCHANGED <<memberships, call, me, roster, known>>
        /\ pc[q] = "insertGroup"
    BY DEF InsertGroup, Goto, GroupInv, GroupTypeOK
  <1>2. PICK g \in GroupIds : groups[g] = Absent /\ at'[q] = g
    BY DEF InsertGroup, GroupInv, GroupTypeOK
  <1>3. Op(q) = "addGroup" /\ known[q] = NoneKnown
    BY <1>1 DEF GroupInv, Standing, Calling, Working, OpsAt
  <1>4. roster'[q] = Named(q)'
    BY <1>1, <1>3 DEF InStep, Named
  <1>5. \A p \in Ids : memberships'[<<g, p>>] = Absent
    BY <1>1, <1>2 DEF GroupInv, ReferenceInv
  <1>6. \A p \in Ids : known'[q][<<g, p>>] = Absent
    BY <1>1, <1>3 DEF NoneKnown, Keys
  <1>7. Written(q)' = {}
    BY <1>1 DEF Written
  <1> QED
    BY <1>1, <1>2, <1>4, <1>5, <1>6, <1>7 DEF InStep

LEMMA ReadMembersInStep ==
  ASSUME GroupInv, NEW q \in Requests, InStep(q), ReadMembers(q), pc'[q] = "addMembers"
  PROVE  InStep(q)'
PROOF
  <1> DEFINE K == [k \in Keys |-> IF k \in Concerned(q) THEN memberships[k] ELSE Absent]
  <1>1. /\ pc[q] = "readMembers" /\ UNCHANGED <<memberships, call, me, at, roster>>
        /\ known' = [known EXCEPT ![q] = K] /\ Op(q) = "editGroup"
    BY DEF ReadMembers, Goto, GroupInv, GroupTypeOK, tables
  <1>2. at[q] \in GroupIds
    BY <1>1 DEF GroupInv, Standing, Working
  <1>3. roster'[q] = Named(q)'
    BY <1>1 DEF InStep, Named
  <1>4. \A p \in Ids : K[<<at[q], p>>] = memberships[<<at[q], p>>]
    BY <1>1, <1>2 DEF Concerned, Keys
  <1> HIDE DEF K
  <1>5. known'[q] = K
    BY <1>1 DEF GroupInv, GroupTypeOK
  <1>6. Written(q)' = {}
    BY DEF Written
  <1> QED
    BY <1>1, <1>3, <1>4, <1>5, <1>6 DEF InStep

\* What a save of members leaves, row by row.
LEMMA WriteRows ==
  ASSUME NEW rows, Write(rows), NEW k \in Keys
  PROVE  memberships'[k] = IF k \in DOMAIN rows THEN rows[k] ELSE memberships[k]
PROOF
  BY DEF Write

LEMMA MembersInStep ==
  ASSUME GroupInv, NEW q \in Requests, InStep(q), Note(q),
         \/ AddMembers(q) /\ pc'[q] = "changeMembers"
         \/ ChangeMembers(q)
  PROVE  InStep(q)'
PROOF
  <1> DEFINE rows == IF pc[q] = "addMembers" THEN [k \in Added(q) |-> Desired(q, k)]
                     ELSE [k \in Changed(q) |-> Desired(q, k)]
             saved == IF pc[q] = "addMembers" THEN Added(q) ELSE Changed(q)
  <1>1. /\ Write(rows) /\ UNCHANGED local
        /\ \/ pc[q] = "addMembers" /\ pc'[q] = "changeMembers"
           \/ pc[q] = "changeMembers" /\ pc'[q] = "removeMembers"
    BY DEF AddMembers, ChangeMembers, Goto, Answer, GroupInv, GroupTypeOK
  <1>2. UNCHANGED <<call, me, at, roster, known>>
    BY <1>1 DEF local
  <1>3. /\ Op(q)' = Op(q) /\ Named(q)' = Named(q) /\ Added(q)' = Added(q)
        /\ Changed(q)' = Changed(q) /\ \A k : Desired(q, k)' = Desired(q, k)
    BY <1>2 DEF Op, Named, Added, Changed, Wanted, Desired
  <1>4. Written(q)' = Written(q) \cup saved
    BY <1>1, <1>3 DEF Written
  <1>5. at[q] \in GroupIds
    BY <1>1 DEF GroupInv, Standing, Calling, Working, OpsAt
  <1>6. ASSUME NEW p \in Ids, q \notin disturbed'
        PROVE  memberships'[<<at[q], p>>] =
                 IF <<at[q], p>> \in Written(q) \cup saved THEN Desired(q, <<at[q], p>>)
                 ELSE known[q][<<at[q], p>>]
    <2> DEFINE k == <<at[q], p>>
    <2>1. k \in Keys
      BY <1>5 DEF Keys
    <2>2. memberships'[k] = IF k \in saved THEN Desired(q, k) ELSE memberships[k]
      <3>1. memberships'[k] = IF k \in DOMAIN rows THEN rows[k] ELSE memberships[k]
        BY <1>1, <2>1, WriteRows
      <3> QED
        BY <3>1
    <2>3. memberships[k] = IF k \in Written(q) THEN Desired(q, k) ELSE known[q][k]
      BY <1>1, <1>6, UndisturbedStays DEF InStep
    <2> QED
      BY <2>2, <2>3
  <1> HIDE DEF rows, saved
  <1>7. ASSUME NEW p \in Ids, q \notin disturbed'
        PROVE  (memberships[<<at[q], p>>] =
                  IF <<at[q], p>> \in Written(q) THEN Desired(q, <<at[q], p>>)
                  ELSE known[q][<<at[q], p>>])'
    <2>1. Desired(q, <<at[q], p>>)' = Desired(q, <<at[q], p>>)
      BY <1>2 DEF Desired
    <2> QED
      BY <1>2, <1>4, <1>6, <1>7, <2>1
  <1>8. Op(q) \in {"addGroup", "editGroup"} => roster'[q] = Named(q)'
    BY <1>1, <1>2, <1>3 DEF InStep
  <1>9. pc'[q] # "saveGroup"
    BY <1>1
  <1> QED
    BY <1>3, <1>7, <1>8, <1>9 DEF InStep

\* The last save of members leaves those the update was to leave.
LEMMA RemoveMembersInStep ==
  ASSUME GroupInv, NEW q \in Requests, InStep(q), Note(q), RemoveMembers(q)
  PROVE  InStep(q)'
PROOF
  <1> DEFINE rows == [k \in Removed(q) |-> [known[q][k] EXCEPT !.status = "left"]]
  <1>1. /\ Write(rows) /\ UNCHANGED local
        /\ pc[q] = "removeMembers" /\ pc'[q] = "saveGroup"
    BY DEF RemoveMembers, Goto, GroupInv, GroupTypeOK
  <1>2. UNCHANGED <<call, me, at, roster, known>>
    BY <1>1 DEF local
  <1>3. /\ Op(q) = "editGroup" /\ at[q] \in GroupIds /\ Standing(q) /\ GroupTypeOK
    BY <1>1 DEF GroupInv, Standing, Calling, Working, OpsAt
  <1>4. roster[q] = Named(q) /\ Named(q)' = Named(q) /\ roster[q] \subseteq Ids
    BY <1>1, <1>2, <1>3 DEF InStep, Named, GroupTypeOK
  <1>5. DOMAIN rows = Removed(q)
        /\ \A k \in Removed(q) : rows[k] = [known[q][k] EXCEPT !.status = "left"]
    OBVIOUS
  <1> HIDE DEF rows
  <1>6. ASSUME NEW p \in Ids, q \notin disturbed'
        PROVE  Active(memberships'[<<at[q], p>>]) <=> p \in roster[q]
    <2> DEFINE k == <<at[q], p>>
    <2>1. k \in Keys /\ (k \in Wanted(q) <=> p \in roster[q])
      BY <1>3 DEF Keys, Wanted
    <2>2. memberships'[k] = IF k \in Removed(q) THEN rows[k] ELSE memberships[k]
      BY <1>1, <1>5, <2>1, WriteRows
    <2>3. memberships[k] = IF k \in Added(q) \cup Changed(q) THEN Desired(q, k) ELSE known[q][k]
      <3>1. Written(q) = Added(q) \cup Changed(q)
        BY <1>1 DEF Written
      <3> QED
        BY <1>1, <1>6, <3>1, UndisturbedStays DEF InStep
    <2>4. k \in Wanted(q) => Active(Desired(q, k))
      BY <1>3, DesiredRows
    <2>5. CASE k \in Removed(q)
      <3>1. known[q][k] # Absent /\ k \notin Wanted(q)
        BY <2>5 DEF Removed, Active
      <3>2. ~Active(rows[k])
        BY <1>3, <1>5, <2>1, <2>5, <3>1, LeftRow
      <3> QED
        BY <2>1, <2>2, <2>5, <3>1, <3>2
    <2>6. CASE k \in Added(q) \cup Changed(q)
      <3>1. k \in Wanted(q) /\ k \notin Removed(q)
        BY <2>6 DEF Added, Changed, Removed
      <3> QED
        BY <2>1, <2>2, <2>3, <2>4, <2>6, <3>1
    <2>7. CASE k \notin Removed(q) \cup Added(q) \cup Changed(q)
      <3>1. memberships'[k] = known[q][k]
        BY <2>2, <2>3, <2>7
      <3>2. k \in Wanted(q) => known[q][k] = Desired(q, k)
        BY <2>7 DEF Added, Changed
      <3>3. k \notin Wanted(q) => ~Active(known[q][k])
        BY <2>1, <2>7 DEF Removed
      <3> QED
        BY <2>1, <2>4, <3>1, <3>2, <3>3
    <2> QED
      BY <2>5, <2>6, <2>7
  <1>7. q \notin disturbed' => Present(at[q])' = Named(q)'
    BY <1>2, <1>4, <1>6 DEF Present
  <1> QED
    BY <1>1, <1>2, <1>7 DEF InStep

LEMMA OwnInStep ==
  ASSUME GroupInv, NEW q \in Requests, InStep(q), Receive(q) \/ Handle(q) \/ Crash(q), Note(q)
  PROVE  InStep(q)'
PROOF
  <1>1. GroupTypeOK /\ Standing(q)
    BY DEF GroupInv
  <1>2. CASE pc'[q] \in {"insertGroup", "readMembers"} /\ Validate(q)
    BY <1>2, ValidateInStep
  <1>3. CASE pc'[q] = "addMembers"
    BY <1>1, <1>3, SyncSteps, InsertGroupInStep, ReadMembersInStep
  <1>4. CASE pc'[q] \in {"changeMembers", "removeMembers"}
    BY <1>1, <1>4, SyncSteps, MembersInStep
  <1>5. CASE pc'[q] = "saveGroup"
    <2>1. CASE RemoveMembers(q)
      BY <2>1, RemoveMembersInStep
    <2>2. CASE AssertOwner(q)
      <3>1. UNCHANGED call /\ ~(Op(q) = "editGroup" /\ call[q].who # Keep)
        BY <1>1, <1>5, <2>2 DEF AssertOwner, Goto, Answer, GroupTypeOK, local
      <3> QED
        BY <1>5, <3>1 DEF InStep, Op
    <2> QED
      BY <1>1, <1>5, <2>1, <2>2, SyncSteps
  <1>6. CASE pc'[q] = "readMembers" /\ Op(q)' \notin {"addGroup", "editGroup"}
    BY <1>6 DEF InStep
  <1>7. CASE pc'[q] \notin {"insertGroup", "readMembers", "addMembers", "changeMembers",
                            "removeMembers", "saveGroup"}
    BY <1>7 DEF InStep
  <1>8. pc'[q] = "readMembers" => Op(q)' # "addGroup"
    <2>1. Standing(q)'
      BY <1>1, StepKept DEF GroupInv, Kept
    <2> QED
      BY <2>1 DEF Standing, Calling, OpsAt
  <1> QED
    BY <1>1, <1>2, <1>3, <1>4, <1>5, <1>6, <1>7, <1>8, SyncSteps

SyncInv == \A q \in Requests : InStep(q)

LEMMA SyncInit == GroupInit => SyncInv
PROOF
  BY DEF GroupInit, SyncInv, InStep

LEMMA SyncNext == GroupInv /\ SyncInv /\ [GroupNext]_vars => SyncInv'
PROOF
  <1> SUFFICES ASSUME GroupInv, SyncInv, [GroupNext]_vars PROVE SyncInv'
    OBVIOUS
  <1>1. ASSUME NEW q \in Requests, Receive(q) \/ Handle(q) \/ Crash(q), Note(q)
        PROVE  SyncInv'
    <2>1. Kept(q)
      BY <1>1, StepKept DEF GroupInv
    <2>2. InStep(q)'
      BY <1>1, OwnInStep DEF SyncInv
    <2>3. \A r \in Requests \ {q} : InStep(r)'
      BY <1>1, <2>1, OthersInStep DEF SyncInv
    <2> QED
      BY <2>2, <2>3 DEF SyncInv
  <1>2. CASE UNCHANGED vars
    BY <1>2 DEF vars, tables, local, SyncInv, InStep, Op, Named, Written, Added, Changed, Wanted,
                Desired, Present
  <1> QED
    BY <1>1, <1>2 DEF GroupNext

\* A call with members is answered "ok" by its last save.
LEMMA SyncAnswers ==
  ASSUME GroupInv, NEW q \in Requests, Receive(q) \/ Handle(q) \/ Crash(q),
         pc[q] # "done", reply'[q] = "ok", Op(q) \in {"addGroup", "editGroup"}
  PROVE  /\ (AddMembers(q) /\ Op(q) = "addGroup") \/ SaveGroup(q)
         /\ pc'[q] = "done"
PROOF
  <1> USE DEF Goto, Answer
  <1>1. GroupTypeOK /\ Standing(q) /\ reply[q] = "none"
    BY DEF GroupInv, Standing, Calling
  <1>2. ~Receive(q) /\ ~Crash(q)
    BY <1>1 DEF Receive, Crash, GroupTypeOK
  <1>3. ~FindSelf(q) /\ ~InsertSelf(q)
    BY <1>1 DEF FindSelf, InsertSelf, BeginWith, GroupTypeOK
  <1>4. ~FindById(q) /\ ~CheckEmail(q) /\ ~ReadParticipant(q) /\ ~SaveParticipant(q)
    <2>1. ~FindById(q) /\ ~ReadParticipant(q) /\ ~SaveParticipant(q)
      BY <1>1 DEF Standing, Calling, OpsAt, FindById, ReadParticipant, SaveParticipant
    <2>2. ~CheckEmail(q)
      BY <1>1 DEF Standing, Calling, OpsAt, CheckEmail
    <2> QED
      BY <2>1, <2>2
  <1>5. ~ReadGroup(q) /\ ~AssertOwner(q) /\ ~Validate(q) /\ ~InsertGroup(q) /\ ~ReadMembers(q)
    BY <1>1 DEF ReadGroup, AssertOwner, Validate, InsertGroup, ReadMembers, GroupTypeOK
  <1>6. ~ChangeMembers(q) /\ ~RemoveMembers(q)
    BY <1>1 DEF ChangeMembers, RemoveMembers
  <1>7. ~Leave(q)
    BY <1>1 DEF Standing, Calling, OpsAt, Leave
  <1>8. AddMembers(q) => Op(q) = "addGroup" /\ pc'[q] = "done"
    BY <1>1 DEF AddMembers, GroupTypeOK
  <1>9. SaveGroup(q) => pc'[q] = "done"
    BY <1>1 DEF SaveGroup, GroupTypeOK
  <1> QED
    BY <1>2, <1>3, <1>4, <1>5, <1>6, <1>7, <1>8, <1>9 DEF Handle

\* A creation that no other call disturbed leaves those it named, and its caller.
LEMMA CreationSyncs ==
  ASSUME GroupInv, NEW q \in Requests, InStep(q), AddMembers(q), Op(q) = "addGroup",
         reply'[q] = "ok", q \notin disturbed
  PROVE  {p \in Ids : Active(memberships'[<<at[q], p>>])} = Named(q)
PROOF
  <1> DEFINE rows == [k \in Added(q) |-> Desired(q, k)]
  <1>1. GroupTypeOK /\ Standing(q) /\ pc[q] = "addMembers"
    BY DEF GroupInv, AddMembers
  <1>2. Write(rows)
    <2>1. ~Answer(q, "error")
      BY <1>1 DEF Answer, GroupTypeOK
    <2> QED
      BY <2>1 DEF AddMembers
  <1>3. at[q] \in GroupIds /\ known[q] = NoneKnown
    BY <1>1 DEF Standing, Working
  <1>4. roster[q] = Named(q) /\ roster[q] \subseteq Ids
    BY <1>1 DEF InStep, GroupTypeOK
  <1>5. ASSUME NEW p \in Ids
        PROVE  Active(memberships'[<<at[q], p>>]) <=> p \in roster[q]
    <2> DEFINE k == <<at[q], p>>
    <2>1. k \in Keys /\ (k \in Wanted(q) <=> p \in roster[q])
      BY <1>3 DEF Keys, Wanted
    <2>2. known[q][k] = Absent
      BY <1>3, <2>1 DEF NoneKnown
    <2>3. k \in Added(q) <=> k \in Wanted(q)
      BY <2>2 DEF Added
    <2>4. memberships'[k] = IF k \in Added(q) THEN Desired(q, k) ELSE memberships[k]
      <3>1. memberships'[k] = IF k \in DOMAIN rows THEN rows[k] ELSE memberships[k]
        BY <1>2, <2>1, WriteRows
      <3> QED
        BY <3>1
    <2>5. memberships[k] = Absent
      BY <1>1, <2>1 DEF GroupInv, FoundingInv, Entered
    <2>6. k \in Wanted(q) => Active(Desired(q, k))
      BY <1>1, <1>3, DesiredRows
    <2> HIDE DEF k
    <2> QED
      BY <2>1, <2>3, <2>4, <2>5, <2>6 DEF Active, k
  <1> QED
    BY <1>4, <1>5

\* The saves of a creation or of an update, with no other call in between, leave
\* the members it named, its caller, and nobody else.
THEOREM UndisturbedUpdatesSync == GroupSpec => UndisturbedUpdateSyncs
PROOF
  <1>1. ASSUME GroupInv, SyncInv, [GroupNext]_vars, NEW q \in Requests,
               pc[q] # "done", reply'[q] = "ok", q \notin disturbed,
               Op(q) = "addGroup" \/ (Op(q) = "editGroup" /\ call[q].who # Keep)
        PROVE  {p \in Ids : Active(memberships'[<<at[q], p>>])} = call[q].who \cup {me[q]}
    <2>1. reply[q] = "none" /\ InStep(q)
      BY <1>1 DEF GroupInv, Standing, Calling, SyncInv
    <2>2. PICK r \in Requests : (Receive(r) \/ Handle(r) \/ Crash(r)) /\ Note(r)
      BY <1>1, <2>1 DEF GroupNext, vars
    <2>3. r = q
      <3>1. Kept(r)
        BY <1>1, <2>2, StepKept DEF GroupInv
      <3> QED
        BY <1>1, <2>1, <3>1 DEF Kept, Framed
    <2>4. (AddMembers(q) /\ Op(q) = "addGroup") \/ SaveGroup(q)
      BY <1>1, <2>2, <2>3, SyncAnswers
    <2>5. CASE AddMembers(q) /\ Op(q) = "addGroup"
      BY <1>1, <2>1, <2>5, CreationSyncs DEF Named
    <2>6. CASE SaveGroup(q)
      <3>1. pc[q] = "saveGroup" /\ UNCHANGED memberships
        BY <2>6 DEF SaveGroup
      <3>2. Op(q) = "editGroup"
        BY <1>1, <3>1 DEF GroupInv, Standing, Calling, OpsAt
      <3>3. Present(at[q]) = Named(q)
        BY <1>1, <2>1, <3>1, <3>2 DEF InStep
      <3> QED
        BY <3>1, <3>3 DEF Present, Named
    <2> QED
      BY <2>4, <2>5, <2>6
  <1>2. GroupInv /\ SyncInv /\ [GroupNext]_vars =>
          [\A q \in Requests :
             /\ pc[q] # "done" /\ reply'[q] = "ok" /\ q \notin disturbed
             /\ Op(q) = "addGroup" \/ (Op(q) = "editGroup" /\ call[q].who # Keep)
             => {p \in Ids : Active(memberships'[<<at[q], p>>])} = call[q].who \cup {me[q]}]_vars
    BY <1>1
  <1> QED
    BY <1>2, SyncInit, SyncNext, GroupInvariant, PTL DEF GroupSpec, UndisturbedUpdateSyncs
=============================================================================
