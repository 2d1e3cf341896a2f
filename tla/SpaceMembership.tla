-------------------------- MODULE SpaceMembership --------------------------
(***************************************************************************)
(* Spaces, their members, and the participants that stand for the members: *)
(* resolveSpaceForUser of apps/api/src/services/ledger.service.ts, which   *)
(* every call of the API begins with and which creates or repairs what is  *)
(* missing, and space.service.ts.  Only two of the calls use transactions. *)
(***************************************************************************)
EXTENDS Naturals, FiniteSets

CONSTANTS
  Users,
  SpaceIds,  \* identifiers the database makes up
  Requests, Calls,
  NoSpace,   \* the call names no space
  Absent,    \* there is no row
  NoCall

Kinds   == {"personal", "shared"}
Rows    == [kind : Kinds, creator : Users]
Roles   == {"none", "owner", "member"}
Selves  == {"none", "live", "deleted"}
Asked   == SpaceIds \cup {NoSpace}

SpaceCalls ==
  [op : {"resolve"}, user : Users, space : Asked, participant : BOOLEAN]
    \cup [op : {"list"}, user : Users, space : {NoSpace}]
    \cup [op : {"create"}, user : Users, space : {NoSpace}, invited : SUBSET Users]
    \cup [op : {"add"}, user : Users, space : SpaceIds, target : Users]
    \cup [op : {"policy"}, user : Users, space : SpaceIds]

ASSUME SpaceData ==
  /\ Calls \subseteq SpaceCalls /\ NoCall \notin Calls
  /\ NoSpace \notin SpaceIds /\ Absent \notin Rows

VARIABLES
  spaces,   \* table couples: SpaceIds -> Rows or Absent
  members,  \* table couple_members: members[s][u] is the role of u in s
  selves,   \* the rows of participants that have a user: selves[s][u]
  taken,    \* taken[s]: the users whose address a live participant of s has that
            \* is not theirs, a guest or another member
  pc,       \* pc[q]: the await request q stands at
  call,     \* call[q]: its payload
  at,       \* at[q]: the space it has resolved
  todo,     \* todo[q]: the spaces whose participant it is still to make sure of
  seen,     \* seen[q]: the membership and the participant an addition has read
  reply     \* reply[q]: what its client was answered

tables == <<spaces, members, selves, taken>>
vars   == <<tables, pc, call, at, todo, seen, reply>>

PCs == {"idle", "personal", "insertSpace", "lookup", "findOwner", "insertOwner",
        "authorize", "findSelf", "insertSelf", "list", "visit", "create",
        "checkAdd", "readMember", "readSelf", "commitAdd", "policy", "done"}
Statuses == {"none", "ok", "notFound", "refused", "error", "collided", "lost"}
Nothing  == [member |-> "none", self |-> "none"]

SpaceTypeOK ==
  /\ spaces \in [SpaceIds -> Rows \cup {Absent}]
  /\ members \in [SpaceIds -> [Users -> Roles]]
  /\ selves \in [SpaceIds -> [Users -> Selves]]
  /\ taken \in [SpaceIds -> SUBSET Users]
  /\ pc \in [Requests -> PCs]
  /\ call \in [Requests -> Calls \cup {NoCall}]
  /\ at \in [Requests -> Asked]
  /\ todo \in [Requests -> SUBSET SpaceIds]
  /\ seen \in [Requests -> [member : Roles, self : Selves]]
  /\ reply \in [Requests -> Statuses]

SpaceInit ==
  /\ spaces = [s \in SpaceIds |-> Absent]
  /\ members = [s \in SpaceIds |-> [u \in Users |-> "none"]]
  /\ selves = [s \in SpaceIds |-> [u \in Users |-> "none"]]
  /\ taken = [s \in SpaceIds |-> {}]
  /\ pc = [q \in Requests |-> "idle"]
  /\ call = [q \in Requests |-> NoCall]
  /\ at = [q \in Requests |-> NoSpace]
  /\ todo = [q \in Requests |-> {}]
  /\ seen = [q \in Requests |-> Nothing]
  /\ reply = [q \in Requests |-> "none"]

-----------------------------------------------------------------------------
Goto(q, label) == pc' = [pc EXCEPT ![q] = label] /\ UNCHANGED reply

Answer(q, status) ==
  /\ pc' = [pc EXCEPT ![q] = "done"]
  /\ reply' = [reply EXCEPT ![q] = status]

\* What is left of a handler: another await, or its answer.
Proceed(q, label) == IF label = "answer" THEN Answer(q, "ok") ELSE Goto(q, label)

User(q) == call[q].user

PersonalOf(u) ==
  {s \in SpaceIds : spaces[s] # Absent /\ spaces[s].kind = "personal" /\ spaces[s].creator = u}

\* A space opens to its active members, a personal space to its creator only.
Opens(s, u) ==
  /\ members[s][u] # "none"
  /\ spaces[s].kind = "personal" => spaces[s].creator = u

AfterAuthorize(q) ==
  IF call[q].op \in {"list", "policy"} THEN "findSelf"
  ELSE IF call[q].op = "resolve" /\ call[q].participant THEN "findSelf" ELSE "answer"

AfterPersonal(q) == IF call[q].op = "list" THEN "list" ELSE AfterAuthorize(q)
AfterSelf(q)     == IF call[q].op \in {"list", "policy"} THEN "visit" ELSE "answer"

FirstLabel(c) ==
  CASE c.op = "create" -> "create"
    [] c.op = "add" -> "checkAdd"
    [] c.op = "policy" -> "policy"
    [] OTHER -> IF c.space = NoSpace THEN "personal" ELSE "authorize"

Receive(q) ==
  /\ pc[q] = "idle"
  /\ \E c \in Calls : /\ call' = [call EXCEPT ![q] = c]
                      /\ at' = [at EXCEPT ![q] = c.space]
                      /\ Goto(q, FirstLabel(c))
  /\ UNCHANGED <<tables, todo, seen>>

-----------------------------------------------------------------------------
(* resolveSpaceForUser.  No row of couples or couple_members is ever        *)
(* removed, so that the two queries of an authorization count as one, and   *)
(* so do those for the spaces of a user.                                    *)

Authorize(q) ==
  /\ pc[q] = "authorize"
  /\ IF Opens(at[q], User(q)) THEN Proceed(q, AfterAuthorize(q)) ELSE Answer(q, "notFound")
  /\ UNCHANGED <<tables, call, at, todo, seen>>

\* ensurePersonalSpaceForUser looks for the user's memberships first.
FindPersonal(q) ==
  LET mine == {s \in PersonalOf(User(q)) : members[s][User(q)] # "none"} IN
  /\ pc[q] = "personal"
  /\ \/ /\ mine = {}
        /\ Goto(q, "insertSpace")
        /\ UNCHANGED at
     \/ \E s \in mine : at' = [at EXCEPT ![q] = s] /\ Proceed(q, AfterPersonal(q))
  /\ UNCHANGED <<tables, call, todo, seen>>

\* Mutant: there is no unique index on personal spaces.
UnindexedFree(u) == TRUE

\* UQ_couples_active_personal_creator
PersonalFree(u) == PersonalOf(u) = {}

\* Mutant: a violated index is an error like another.
Rethrow(q) == Answer(q, "error")

\* The catch clause of the insertion.
Caught(q) == Goto(q, "lookup")

InsertSpace(q) ==
  /\ pc[q] = "insertSpace"
  /\ \/ /\ PersonalFree(User(q))
        /\ \E s \in SpaceIds :
             /\ spaces[s] = Absent
             /\ spaces' = [spaces EXCEPT ![s] = [kind |-> "personal", creator |-> User(q)]]
             /\ at' = [at EXCEPT ![q] = s]
        /\ Goto(q, "findOwner")
     \/ /\ Caught(q)   \* the index, or the one on invite codes, is violated
        /\ UNCHANGED <<spaces, at>>
  /\ UNCHANGED <<members, selves, taken, call, todo, seen>>

\* Mutant: a space that is there is taken as it is.
TrustedLabel(q, s) == AfterPersonal(q)

\* The space is taken over from another request, with or without its member.
RepairLabel(q, s) ==
  IF members[s][User(q)] # "none" THEN AfterPersonal(q) ELSE "findOwner"

LookupPersonal(q) ==
  /\ pc[q] = "lookup"
  /\ \/ /\ PersonalOf(User(q)) = {}
        /\ Answer(q, "collided")
        /\ UNCHANGED at
     \/ \E s \in PersonalOf(User(q)) :
          /\ at' = [at EXCEPT ![q] = s]
          /\ Proceed(q, RepairLabel(q, s))
  /\ UNCHANGED <<tables, call, todo, seen>>

\* save of the owner's membership, whose key is known: a SELECT, ...
FindOwner(q) ==
  /\ pc[q] = "findOwner"
  /\ Proceed(q, IF members[at[q]][User(q)] # "none" THEN AfterPersonal(q) ELSE "insertOwner")
  /\ UNCHANGED <<tables, call, at, todo, seen>>

\* ... and an INSERT, which meets a membership that was inserted meanwhile.
InsertOwner(q) ==
  /\ pc[q] = "insertOwner"
  /\ IF members[at[q]][User(q)] = "none"
     THEN /\ members' = [members EXCEPT ![at[q]][User(q)] = "owner"]
          /\ Proceed(q, AfterPersonal(q))
     ELSE Answer(q, "error") /\ UNCHANGED members
  /\ UNCHANGED <<spaces, selves, taken, call, at, todo, seen>>

\* ensureParticipantForUser finds deleted participants too.  It sets the deletedAt
\* of one to undefined, which a save does not write: the row stays deleted.
FindSelf(q) ==
  /\ pc[q] = "findSelf"
  /\ Proceed(q, IF selves[at[q]][User(q)] # "none" THEN AfterSelf(q) ELSE "insertSelf")
  /\ UNCHANGED <<tables, call, at, todo, seen>>

\* UQ_participants_couple_email_active
AddressFree(s, u) == u \notin taken[s]

\* UQ_participants_couple_user, and the index on addresses.
InsertSelf(q) ==
  /\ pc[q] = "insertSelf"
  /\ IF selves[at[q]][User(q)] = "none" /\ AddressFree(at[q], User(q))
     THEN /\ selves' = [selves EXCEPT ![at[q]][User(q)] = "live"]
          /\ Proceed(q, AfterSelf(q))
     ELSE Answer(q, "error") /\ UNCHANGED selves
  /\ UNCHANGED <<spaces, members, taken, call, at, todo, seen>>

-----------------------------------------------------------------------------
(* listSpacesForUser and updateSyncPolicy                                  *)

ListSpaces(q) ==
  /\ pc[q] = "list"
  /\ todo' = [todo EXCEPT ![q] =
       {s \in SpaceIds : Opens(s, User(q)) /\ selves[s][User(q)] # "live"}]
  /\ Goto(q, "visit")
  /\ UNCHANGED <<tables, call, at, seen>>

\* A space is cloud_sync from its creation on: a call for local_only is refused,
\* one for cloud_sync changes nothing but may create the participant.
ChangePolicy(q) ==
  /\ pc[q] = "policy"
  /\ IF members[call[q].space][User(q)] = "none" THEN Answer(q, "notFound") /\ UNCHANGED todo
     ELSE \/ Answer(q, "refused") /\ UNCHANGED todo
          \/ /\ members[call[q].space][User(q)] = "owner"
             /\ Opens(call[q].space, User(q))
             /\ todo' = [todo EXCEPT ![q] = {call[q].space}]
             /\ Goto(q, "visit")
  /\ UNCHANGED <<tables, call, at, seen>>

\* ensureCurrentParticipantId, for one space after the other in any order.
Visit(q) ==
  /\ pc[q] = "visit"
  /\ \/ /\ todo[q] = {}
        /\ Answer(q, "ok")
        /\ UNCHANGED <<at, todo>>
     \/ \E s \in todo[q] :
          /\ at' = [at EXCEPT ![q] = s]
          /\ todo' = [todo EXCEPT ![q] = @ \ {s}]
          /\ Goto(q, IF selves[s][User(q)] = "live" THEN "visit" ELSE "authorize")
  /\ UNCHANGED <<tables, call, seen>>

-----------------------------------------------------------------------------
(* createSharedSpace: one transaction, whose rows nobody sees before        *)

CreateShared(q) ==
  LET all == {User(q)} \cup call[q].invited IN
  /\ pc[q] = "create"
  /\ \E s \in SpaceIds :
       /\ spaces[s] = Absent
       /\ spaces' = [spaces EXCEPT ![s] = [kind |-> "shared", creator |-> User(q)]]
       /\ members' = [members EXCEPT ![s] = [u \in Users |->
            IF u = User(q) THEN "owner" ELSE IF u \in all THEN "member" ELSE "none"]]
       /\ selves' = [selves EXCEPT ![s] = [u \in Users |-> IF u \in all THEN "live" ELSE "none"]]
       /\ at' = [at EXCEPT ![q] = s]
  /\ Goto(q, "authorize")
  /\ UNCHANGED <<taken, call, todo, seen>>

-----------------------------------------------------------------------------
(* addAccountMember                                                        *)

AddsTo(s) == spaces[s].kind = "shared"

CheckAdd(q) ==
  LET s == call[q].space IN
  /\ pc[q] = "checkAdd"
  /\ IF members[s][User(q)] = "none" THEN Answer(q, "notFound")
     ELSE IF members[s][User(q)] # "owner" THEN Answer(q, "refused")
     ELSE IF AddsTo(s) THEN Goto(q, "readMember") ELSE Answer(q, "notFound")
  /\ UNCHANGED <<tables, call, at, todo, seen>>

ReadMember(q) ==
  /\ pc[q] = "readMember"
  /\ seen' = [seen EXCEPT ![q].member = members[call[q].space][call[q].target]]
  /\ Goto(q, "readSelf")
  /\ UNCHANGED <<tables, call, at, todo>>

ReadSelf(q) ==
  /\ pc[q] = "readSelf"
  /\ seen' = [seen EXCEPT ![q].self = selves[call[q].space][call[q].target]]
  /\ Goto(q, "commitAdd")
  /\ UNCHANGED <<tables, call, at, todo>>

\* A membership that was found keeps its role.
AddedRole(q) == IF seen[q].member = "none" THEN "member" ELSE seen[q].member

\* Mutant: the member is committed without its participant.
SelfForgotten(self) == self

\* A new participant is inserted; one that was found stays as it is, live or
\* deleted: its deletedAt is undefined.
AddedSelf(self) == IF self = "none" THEN "live" ELSE self

\* The participant gets the address of its account, which a live row must be the
\* only one of its space to have.
AddressFits(s, u) == AddressFree(s, u) \/ AddedSelf(selves[s][u]) = "deleted"

\* The transaction.  An INSERT waits for one of the same key and fails.
CommitAdd(q) ==
  LET s == call[q].space
      u == call[q].target IN
  /\ pc[q] = "commitAdd"
  /\ \/ /\ seen[q].self # "none" \/ selves[s][u] = "none"
        /\ AddressFits(s, u)
        /\ members' = [members EXCEPT ![s][u] = AddedRole(q)]
        /\ selves' = [selves EXCEPT ![s][u] = AddedSelf(@)]
        /\ Answer(q, "ok")
     \/ /\ \/ seen[q].self = "none" /\ selves[s][u] # "none"
           \/ seen[q].member = "none" /\ members[s][u] # "none"
           \/ ~AddressFits(s, u)
        /\ Answer(q, "error")
        /\ UNCHANGED <<members, selves>>
  /\ UNCHANGED <<spaces, taken, call, at, todo, seen>>

-----------------------------------------------------------------------------
\* A statement fails for a reason of its own, its acknowledgement is lost, or the
\* process dies.
Crash(q) ==
  /\ pc[q] \notin {"idle", "done"}
  /\ Answer(q, "lost")
  /\ UNCHANGED <<tables, call, at, todo, seen>>

Handle(q) ==
  \/ Authorize(q) \/ FindPersonal(q) \/ InsertSpace(q) \/ LookupPersonal(q)
  \/ FindOwner(q) \/ InsertOwner(q) \/ FindSelf(q) \/ InsertSelf(q)
  \/ ListSpaces(q) \/ ChangePolicy(q) \/ Visit(q) \/ CreateShared(q)
  \/ CheckAdd(q) \/ ReadMember(q) \/ ReadSelf(q) \/ CommitAdd(q)

\* Whose calls of the participant service reach the space: they begin with
\* resolveSpaceForUser, which makes sure of the caller's participant.
Acting(s) == {v \in Users : members[s][v] # "none" /\ selves[s][v] # "none"}

\* The participant service: a member deletes the participant of another one, or
\* saves one that it has read before the deletion, which undoes it; ...
DeleteOrRevive(s, u) ==
  /\ Acting(s) \ {u} # {} /\ selves[s][u] # "none"
  /\ \E self \in {"live", "deleted"} : selves' = [selves EXCEPT ![s][u] = self]
  /\ UNCHANGED taken

\* ... or it makes, edits or deletes participants, a guest say, so that the address
\* of a user is another one's or no longer.
TakeOrFree(s, u) ==
  /\ Acting(s) # {}
  /\ \/ taken' = [taken EXCEPT ![s] = @ \cup {u}]
     \/ taken' = [taken EXCEPT ![s] = @ \ {u}]
  /\ UNCHANGED selves

ChangeSelves ==
  /\ \E s \in SpaceIds, u \in Users : DeleteOrRevive(s, u) \/ TakeOrFree(s, u)
  /\ UNCHANGED <<spaces, members, pc, call, at, todo, seen, reply>>

SpaceNext ==
  \/ \E q \in Requests : Receive(q) \/ Handle(q) \/ Crash(q)
  \/ ChangeSelves

SpaceSpec == SpaceInit /\ [][SpaceNext]_vars

\* The event loop goes on with a handler whose query has settled.
SpaceFairness == \A q \in Requests : WF_vars(Handle(q))

-----------------------------------------------------------------------------
(* Properties                                                              *)

\* 'exactly one personal space' (group-collaboration/spec.md): however many first
\* calls of a user race, there is never a second one, and nobody else gets in.
PersonalSpacesPrivate ==
  /\ \A u \in Users : Cardinality(PersonalOf(u)) <= 1
  /\ \A s \in SpaceIds : spaces[s] # Absent /\ spaces[s].kind = "personal" =>
       \A u \in Users : members[s][u] # "none" => u = spaces[s].creator

\* A call that was let through works in the space it named or in the personal
\* space of its user, and the user is a member there, whoever has created the
\* space and wherever that request was cut short.
ResolvedSpaceOpens ==
  \A q \in Requests : reply[q] = "ok" /\ call[q].op = "resolve" =>
    /\ call[q].space # NoSpace => at[q] = call[q].space
    /\ call[q].space = NoSpace => at[q] \in PersonalOf(User(q)) /\ members[at[q]][User(q)] = "owner"
    /\ members[at[q]][User(q)] # "none"
    /\ call[q].participant => selves[at[q]][User(q)] # "none"

\* Every member of a shared space has a participant, the creator owns it.
SharedSpacesStaffed ==
  \A s \in SpaceIds : spaces[s] # Absent /\ spaces[s].kind = "shared" =>
    /\ members[s][spaces[s].creator] = "owner"
    /\ \A u \in Users : members[s][u] # "none" => selves[s][u] # "none"

\* No call takes a role from a member or gives another one, not even an addition
\* of somebody who has become a member since it looked.
RolesStand ==
  [][\A s \in SpaceIds, u \in Users :
       members[s][u] # "none" => members'[s][u] = members[s][u]]_vars

\* Whatever earlier calls left unfinished, a call that runs alone is answered, and
\* not with an error: the next call repairs a personal space without its owner.
\* The one exception is the addition of an account whose address another
\* participant of the space has, a guest the members entered before.
Alone(q) == \A r \in Requests \ {q} : pc[r] \in {"idle", "done"}

AddressConflict(q) ==
  /\ reply[q] = "error" /\ call[q].op = "add"
  /\ call[q].target \in taken[call[q].space]

LoneCallSucceeds ==
  \A q \in Requests :
    (pc[q] \in {"personal", "checkAdd", "authorize"} /\ Alone(q))
      ~> (reply[q] \notin {"none", "error"} \/ AddressConflict(q) \/ ~Alone(q))

\* 'An active member SHALL be represented by a participant usable in payments and
\* shares' (group-collaboration/spec.md): an addition that finds the participant
\* deleted, and answers with it, has restored it.
AddedMembersUsable ==
  [][\A q \in Requests :
       pc[q] = "commitAdd" /\ reply'[q] = "ok" /\ seen[q].self = "deleted" =>
         selves'[call[q].space][call[q].target] = "live"]_vars
=============================================================================
