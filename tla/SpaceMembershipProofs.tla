------------------------- MODULE SpaceMembershipProofs -------------------------
(***************************************************************************)
(* Type correctness and safety of spaces, for all sets of users, spaces,   *)
(* requests and calls: personal spaces stay single and private, calls work *)
(* in the space they were let into, members keep their roles.              *)
(***************************************************************************)
EXTENDS SpaceMembership, FiniteSetTheorems, TLAPS

\* What the tables say of each other: a space that is not there has nobody, a
\* personal one at most its creator, as owner, and a shared one its creator and a
\* participant for every member.
RowsInv ==
  /\ \A s \in SpaceIds : spaces[s] = Absent =>
       \A u \in Users : members[s][u] = "none" /\ selves[s][u] = "none"
  /\ \A s \in SpaceIds : spaces[s] # Absent /\ spaces[s].kind = "personal" =>
       \A u \in Users : members[s][u] # "none" =>
         u = spaces[s].creator /\ members[s][u] = "owner"
  /\ \A s \in SpaceIds : spaces[s] # Absent /\ spaces[s].kind = "shared" =>
       /\ members[s][spaces[s].creator] = "owner"
       /\ \A u \in Users : members[s][u] # "none" => selves[s][u] # "none"
  /\ \A s, t \in SpaceIds :
       /\ spaces[s] # Absent /\ spaces[s].kind = "personal"
       /\ spaces[t] # Absent /\ spaces[t].kind = "personal"
       /\ spaces[s].creator = spaces[t].creator
       => s = t

IsPersonalOf(s, u) ==
  s \in SpaceIds /\ spaces[s] # Absent /\ spaces[s].kind = "personal" /\ spaces[s].creator = u

\* The space a call of resolveSpaceForUser has come to.
Resolved(q) ==
  call[q].op = "resolve" =>
    IF call[q].space = NoSpace THEN IsPersonalOf(at[q], User(q)) ELSE at[q] = call[q].space

Unnamed(q) == call[q].op \in {"resolve", "list"} /\ call[q].space = NoSpace

\* What a request knows where it stands.
Standing(q) ==
  /\ pc[q] \notin {"idle", "done"} => call[q] \in Calls
  /\ pc[q] # "done" => reply[q] = "none"
  /\ pc[q] \in {"personal", "insertSpace", "lookup"} => Unnamed(q)
  /\ pc[q] \in {"findOwner", "insertOwner"} => Unnamed(q) /\ IsPersonalOf(at[q], User(q))
  /\ pc[q] = "authorize" =>
       at[q] \in SpaceIds /\ (call[q].op = "resolve" => at[q] = call[q].space)
  /\ pc[q] \in {"findSelf", "insertSelf"} =>
       at[q] \in SpaceIds /\ members[at[q]][User(q)] # "none" /\ Resolved(q)
  /\ pc[q] = "visit" => call[q].op \in {"list", "policy"}
  /\ pc[q] = "list" => call[q].op = "list"
  /\ pc[q] = "policy" => call[q].op = "policy"
  /\ pc[q] = "create" => call[q].op = "create"
  /\ pc[q] \in {"checkAdd", "readMember", "readSelf", "commitAdd"} => call[q].op = "add"
  /\ pc[q] \in {"readMember", "readSelf", "commitAdd"} =>
       spaces[call[q].space] # Absent /\ spaces[call[q].space].kind = "shared"
  /\ pc[q] \in {"readSelf", "commitAdd"} =>
       IF seen[q].member = "none" THEN members[call[q].space][call[q].target] # "owner"
       ELSE members[call[q].space][call[q].target] = seen[q].member
  /\ reply[q] = "ok" /\ call[q].op = "resolve" =>
       /\ call[q] \in Calls
       /\ at[q] \in SpaceIds /\ members[at[q]][User(q)] # "none" /\ Resolved(q)
       /\ call[q].participant => selves[at[q]][User(q)] # "none"

SpaceInv == SpaceTypeOK /\ RowsInv /\ \A q \in Requests : Standing(q)

-----------------------------------------------------------------------------
\* The calls, field by field.
LEMMA CallFields ==
  ASSUME SpaceData, NEW c \in Calls
  PROVE  /\ c.op \in {"resolve", "list", "create", "add", "policy"}
         /\ c.user \in Users /\ c.space \in Asked
         /\ c.op \in {"list", "create"} => c.space = NoSpace
         /\ c.op \in {"add", "policy"} => c.space \in SpaceIds
         /\ c.op = "add" => c.target \in Users
         /\ c.op = "create" => c.invited \subseteq Users
         /\ c.op = "resolve" => c.participant \in BOOLEAN
         /\ c # NoCall
BY DEF SpaceData, SpaceCalls, Asked

\* The user of a request that is under way.
LEMMA UserOf ==
  ASSUME SpaceData, NEW q \in Requests, Standing(q), pc[q] \notin {"idle", "done"}
  PROVE  call[q] \in Calls /\ User(q) \in Users
BY CallFields DEF Standing, User

\* Tables only grow: no step takes a space, a role or a participant away, and nobody
\* becomes an owner of a shared space that was there.
Grow ==
  /\ \A s \in SpaceIds : spaces[s] # Absent =>
       /\ spaces'[s] = spaces[s]
       /\ spaces[s].kind = "shared" =>
            \A u \in Users : members'[s][u] = "owner" => members[s][u] = "owner"
  /\ \A s \in SpaceIds, u \in Users :
       /\ members[s][u] # "none" => members'[s][u] = members[s][u]
       /\ selves[s][u] # "none" => selves'[s][u] # "none"

\* A step of one request leaves what the others know.
LEMMA OthersStand ==
  ASSUME SpaceData, SpaceTypeOK, RowsInv, Grow, NEW q \in Requests, Standing(q),
         pc'[q] = pc[q], call'[q] = call[q], at'[q] = at[q], seen'[q] = seen[q],
         reply'[q] = reply[q]
  PROVE  Standing(q)'
<1>1. User(q)' = User(q) /\ Unnamed(q)' = Unnamed(q)
  BY DEF User, Unnamed
<1>2. ASSUME IsPersonalOf(at[q], User(q)) PROVE IsPersonalOf(at[q], User(q))'
  BY <1>1, <1>2 DEF IsPersonalOf, Grow
<1>3. ASSUME Resolved(q) PROVE Resolved(q)'
  BY <1>1, <1>2, <1>3 DEF Resolved
<1>4. ASSUME call[q] \in Calls, at[q] \in SpaceIds, members[at[q]][User(q)] # "none"
      PROVE  /\ members'[at'[q]][User(q)'] # "none"
             /\ selves[at[q]][User(q)] # "none" => selves'[at'[q]][User(q)'] # "none"
  <2>1. User(q) \in Users
    BY <1>4, CallFields DEF User
  <2>2. QED BY <1>1, <1>4, <2>1 DEF Grow
<1>5. ASSUME pc[q] \in {"readMember", "readSelf", "commitAdd"}
      PROVE  spaces'[call[q].space] # Absent /\ spaces'[call[q].space].kind = "shared"
  BY <1>5, CallFields DEF Standing, Grow
<1>6. ASSUME pc[q] \in {"readSelf", "commitAdd"}
      PROVE  IF seen[q].member = "none" THEN members'[call[q].space][call[q].target] # "owner"
             ELSE members'[call[q].space][call[q].target] = seen[q].member
  <2>1. /\ call[q].space \in SpaceIds /\ call[q].target \in Users
        /\ spaces[call[q].space] # Absent /\ spaces[call[q].space].kind = "shared"
    BY <1>6, CallFields DEF Standing
  <2>2. IF seen[q].member = "none" THEN members[call[q].space][call[q].target] # "owner"
        ELSE members[call[q].space][call[q].target] = seen[q].member
    BY <1>6 DEF Standing
  <2>3. QED BY <2>1, <2>2 DEF Grow
<1>7. pc[q] \in {"findSelf", "insertSelf"} => call[q] \in Calls
  BY DEF Standing
<1>8. QED BY <1>1, <1>2, <1>3, <1>4, <1>5, <1>6, <1>7 DEF Standing

-----------------------------------------------------------------------------
\* Where a step takes its request.
Moved(q, label, status) ==
  pc' = [pc EXCEPT ![q] = label] /\ reply' = [reply EXCEPT ![q] = status]

Landing(label)       == IF label = "answer" THEN "done" ELSE label
Telling(q, label)    == IF label = "answer" THEN "ok" ELSE reply[q]

LEMMA Moves ==
  ASSUME SpaceTypeOK, NEW q \in Requests
  PROVE  /\ \A label : Goto(q, label) => Moved(q, label, reply[q])
         /\ \A status : Answer(q, status) => Moved(q, "done", status)
         /\ \A label : Proceed(q, label) => Moved(q, Landing(label), Telling(q, label))
BY DEF SpaceTypeOK, Goto, Answer, Proceed, Moved, Landing, Telling

\* A step that moves one request, and lets the tables grow, keeps the invariant if
\* it keeps the rows and what that request knows.
LEMMA StepKeeps ==
  ASSUME SpaceData, SpaceInv, NEW q \in Requests,
         NEW label \in PCs, NEW status \in Statuses, Moved(q, label, status),
         NEW a \in Asked, at' = [at EXCEPT ![q] = a],
         NEW knows \in [member : Roles, self : Selves], seen' = [seen EXCEPT ![q] = knows],
         NEW left \in SUBSET SpaceIds, todo' = [todo EXCEPT ![q] = left],
         NEW c \in Calls \cup {NoCall}, call' = [call EXCEPT ![q] = c],
         spaces' \in [SpaceIds -> Rows \cup {Absent}],
         members' \in [SpaceIds -> [Users -> Roles]],
         selves' \in [SpaceIds -> [Users -> Selves]],
         UNCHANGED taken, RowsInv', Grow, Standing(q)'
  PROVE  SpaceInv'
<1>1. SpaceTypeOK'
  BY DEF SpaceInv, SpaceTypeOK, Moved
<1>2. ASSUME NEW r \in Requests PROVE Standing(r)'
  <2>1. CASE r = q BY <2>1
  <2>2. CASE r # q
    <3>1. /\ pc'[r] = pc[r] /\ call'[r] = call[r] /\ at'[r] = at[r]
          /\ seen'[r] = seen[r] /\ reply'[r] = reply[r]
      BY <2>2 DEF SpaceInv, SpaceTypeOK, Moved
    <3>2. QED BY <3>1, OthersStand DEF SpaceInv
  <2>3. QED BY <2>1, <2>2
<1>3. QED BY <1>1, <1>2 DEF SpaceInv

\* The same for a step that leaves the tables and its call alone.
LEMMA ReadKeeps ==
  ASSUME SpaceData, SpaceInv, NEW q \in Requests,
         NEW label \in PCs, NEW status \in Statuses, Moved(q, label, status),
         NEW a \in Asked, at' = [at EXCEPT ![q] = a],
         NEW knows \in [member : Roles, self : Selves], seen' = [seen EXCEPT ![q] = knows],
         NEW left \in SUBSET SpaceIds, todo' = [todo EXCEPT ![q] = left],
         UNCHANGED <<tables, call>>, Standing(q)'
  PROVE  SpaceInv' /\ Grow
<1>1. Grow BY DEF Grow, tables
<1>2. RowsInv' BY DEF SpaceInv, RowsInv, tables
<1>3. call' = [call EXCEPT ![q] = call[q]] /\ call[q] \in Calls \cup {NoCall}
  BY DEF SpaceInv, SpaceTypeOK
<1>4. /\ spaces' \in [SpaceIds -> Rows \cup {Absent}]
      /\ members' \in [SpaceIds -> [Users -> Roles]]
      /\ selves' \in [SpaceIds -> [Users -> Selves]] /\ UNCHANGED taken
  BY DEF SpaceInv, SpaceTypeOK, tables
<1>5. QED BY <1>1, <1>2, <1>3, <1>4, StepKeeps

\* What a request holds, as its own next value.
LEMMA SameLocal ==
  ASSUME SpaceTypeOK, NEW q \in Requests
  PROVE  /\ at[q] \in Asked /\ (UNCHANGED at => at' = [at EXCEPT ![q] = at[q]])
         /\ seen[q] \in [member : Roles, self : Selves]
         /\ UNCHANGED seen => seen' = [seen EXCEPT ![q] = seen[q]]
         /\ todo[q] \in SUBSET SpaceIds
         /\ UNCHANGED todo => todo' = [todo EXCEPT ![q] = todo[q]]
         /\ call[q] \in Calls \cup {NoCall}
         /\ UNCHANGED call => call' = [call EXCEPT ![q] = call[q]]
         /\ reply[q] \in Statuses /\ pc[q] \in PCs
BY DEF SpaceTypeOK

-----------------------------------------------------------------------------
\* Where a handler goes from the space it has resolved.
LEMMA AfterLabels ==
  ASSUME SpaceData, NEW q \in Requests, call[q] \in Calls
  PROVE  /\ AfterAuthorize(q) \in {"findSelf", "answer"}
         /\ AfterAuthorize(q) = "answer" =>
              call[q].op \notin {"list", "policy"}
              /\ (call[q].op = "resolve" => ~call[q].participant)
         /\ AfterAuthorize(q) = "findSelf" => call[q].op \in {"resolve", "list", "policy"}
         /\ IF call[q].op = "list" THEN AfterPersonal(q) = "list"
            ELSE AfterPersonal(q) = AfterAuthorize(q)
         /\ IF call[q].op \in {"list", "policy"} THEN AfterSelf(q) = "visit"
            ELSE AfterSelf(q) = "answer"
<1>1. call[q].op = "resolve" => call[q].participant \in BOOLEAN
  BY CallFields
<1>2. QED BY <1>1 DEF AfterAuthorize, AfterPersonal, AfterSelf

\* A request that reached the personal space of its user, and found or made it a
\* member there, may go on.
LEMMA ArrivesHome ==
  ASSUME SpaceData, SpaceTypeOK, NEW q \in Requests, call[q] \in Calls, Unnamed(q),
         reply[q] = "none", UNCHANGED call,
         Moved(q, Landing(AfterPersonal(q)), Telling(q, AfterPersonal(q))),
         IsPersonalOf(at[q], User(q))', members'[at'[q]][User(q)] # "none"
  PROVE  /\ Standing(q)'
         /\ Landing(AfterPersonal(q)) \in PCs /\ Telling(q, AfterPersonal(q)) \in Statuses
<1>1. /\ call'[q] = call[q] /\ User(q)' = User(q)
      /\ pc'[q] = Landing(AfterPersonal(q)) /\ reply'[q] = Telling(q, AfterPersonal(q))
  BY DEF SpaceTypeOK, Moved, User
<1>2. Unnamed(q)' /\ at'[q] \in SpaceIds /\ Resolved(q)'
  BY <1>1 DEF Unnamed, IsPersonalOf, Resolved
<1>3. CASE AfterPersonal(q) = "list"
  <2>1. call[q].op = "list" BY <1>3, AfterLabels
  <2>2. pc'[q] = "list" /\ reply'[q] = "none"
    BY <1>1, <1>3 DEF Landing, Telling
  <2>3. QED BY <1>1, <1>3, <2>1, <2>2 DEF Standing, Landing, Telling, PCs, Statuses
<1>4. CASE AfterPersonal(q) = "findSelf"
  <2>1. pc'[q] = "findSelf" /\ reply'[q] = "none"
    BY <1>1, <1>4 DEF Landing, Telling
  <2>2. QED BY <1>1, <1>2, <1>4, <2>1 DEF Standing, Landing, Telling, PCs, Statuses
<1>5. CASE AfterPersonal(q) = "answer"
  <2>1. call[q].op = "resolve" => ~call[q].participant BY <1>5, AfterLabels
  <2>2. pc'[q] = "done" /\ reply'[q] = "ok"
    BY <1>1, <1>5 DEF Landing, Telling
  <2>3. QED BY <1>1, <1>2, <1>5, <2>1, <2>2 DEF Standing, Landing, Telling, PCs, Statuses
<1>6. QED BY <1>3, <1>4, <1>5, AfterLabels

\* What holds of a request that is under way.
LEMMA UnderWay ==
  ASSUME SpaceData, SpaceInv, NEW q \in Requests, pc[q] \notin {"idle", "done"}
  PROVE  /\ SpaceTypeOK /\ RowsInv /\ Standing(q)
         /\ call[q] \in Calls /\ User(q) \in Users /\ reply[q] = "none"
BY UserOf DEF SpaceInv, Standing

\* A step that ends its request with anything but a success.
LEMMA Refuses ==
  ASSUME SpaceData, SpaceInv, NEW q \in Requests, NEW status \in Statuses \ {"ok"},
         Answer(q, status), UNCHANGED <<tables, call, at, todo, seen>>
  PROVE  SpaceInv' /\ Grow
<1>1. Moved(q, "done", status)
  BY Moves DEF SpaceInv
<1>2. pc'[q] = "done" /\ reply'[q] = status
  BY <1>1 DEF SpaceInv, SpaceTypeOK, Moved
<1>3. Standing(q)'
  BY <1>2 DEF Standing
<1>4. "done" \in PCs BY DEF PCs
<1>5. QED BY <1>1, <1>3, <1>4, SameLocal, ReadKeeps, Zenon DEF SpaceInv

-----------------------------------------------------------------------------
(* One lemma per action.                                                   *)

LEMMA ReceiveKeeps ==
  ASSUME SpaceData, SpaceInv, NEW q \in Requests, Receive(q)
  PROVE  SpaceInv' /\ Grow
<1>1. PICK c \in Calls : /\ call' = [call EXCEPT ![q] = c]
                         /\ at' = [at EXCEPT ![q] = c.space]
                         /\ Goto(q, FirstLabel(c))
  BY DEF Receive
<1> DEFINE label == FirstLabel(c)
<1>2. UNCHANGED <<tables, todo, seen>> /\ pc[q] = "idle" /\ reply[q] = "none"
  BY DEF Receive, SpaceInv, Standing
<1>3. /\ c.space \in Asked /\ NoSpace \notin SpaceIds
      /\ c.op \in {"resolve", "list", "create", "add", "policy"}
      /\ c.op = "list" => c.space = NoSpace
  BY CallFields DEF SpaceData
<1>4. Moved(q, label, "none")
  BY <1>1, <1>2, Moves DEF SpaceInv
<1>5. /\ label \in PCs
      /\ label = "personal" => c.op \in {"resolve", "list"} /\ c.space = NoSpace
      /\ label = "authorize" => c.op = "resolve" /\ c.space \in SpaceIds
      /\ label \in {"create", "checkAdd", "policy", "personal", "authorize"}
      /\ label = "create" => c.op = "create"
      /\ label = "checkAdd" => c.op = "add"
      /\ label = "policy" => c.op = "policy"
  BY <1>3 DEF FirstLabel, PCs, Asked
<1>6. /\ pc'[q] = label /\ reply'[q] = "none" /\ call'[q] = c /\ at'[q] = c.space
  BY <1>1, <1>4 DEF SpaceInv, SpaceTypeOK, Moved
<1>7. Standing(q)'
  BY <1>5, <1>6 DEF Standing, Unnamed
<1>8. RowsInv' BY <1>2 DEF SpaceInv, RowsInv, tables
<1>9. Grow BY <1>2 DEF Grow, tables
<1>10. /\ spaces' \in [SpaceIds -> Rows \cup {Absent}]
       /\ members' \in [SpaceIds -> [Users -> Roles]]
       /\ selves' \in [SpaceIds -> [Users -> Selves]]
       /\ c \in Calls \cup {NoCall} /\ "none" \in Statuses /\ UNCHANGED taken
  BY <1>2 DEF SpaceInv, SpaceTypeOK, tables, Statuses
<1>11. /\ seen[q] \in [member : Roles, self : Selves] /\ seen' = [seen EXCEPT ![q] = seen[q]]
       /\ todo[q] \in SUBSET SpaceIds /\ todo' = [todo EXCEPT ![q] = todo[q]]
  BY <1>2, SameLocal DEF SpaceInv
<1> HIDE DEF label
<1>12. SpaceInv'
  BY <1>1, <1>3, <1>4, <1>5, <1>7, <1>8, <1>9, <1>10, <1>11, StepKeeps
<1>13. QED BY <1>9, <1>12

LEMMA AuthorizeKeeps ==
  ASSUME SpaceData, SpaceInv, NEW q \in Requests, Authorize(q)
  PROVE  SpaceInv' /\ Grow
<1>1. pc[q] = "authorize" /\ UNCHANGED <<tables, call, at, todo, seen>>
  BY DEF Authorize
<1>2. /\ SpaceTypeOK /\ Standing(q) /\ call[q] \in Calls /\ User(q) \in Users
      /\ reply[q] = "none"
  BY <1>1, UnderWay
<1>3. CASE ~Opens(at[q], User(q))
  BY <1>1, <1>3, Refuses DEF Authorize, Statuses
<1>4. CASE Opens(at[q], User(q))
  <2> DEFINE label == AfterAuthorize(q)
  <2>1. Moved(q, Landing(label), Telling(q, label))
    BY <1>2, <1>4, Moves DEF Authorize
  <2>2. /\ pc'[q] = Landing(label) /\ reply'[q] = Telling(q, label)
        /\ call'[q] = call[q] /\ User(q)' = User(q) /\ at'[q] = at[q]
    BY <1>1, <1>2, <2>1 DEF SpaceTypeOK, Moved, User
  <2>3. /\ at[q] \in SpaceIds /\ members'[at[q]][User(q)] # "none"
        /\ call[q].op = "resolve" => at[q] = call[q].space /\ call[q].space # NoSpace
    BY <1>1, <1>2, <1>4 DEF Standing, Opens, tables, SpaceData
  <2>4. Resolved(q)'
    BY <2>2, <2>3 DEF Resolved
  <2>5. CASE label = "findSelf"
    <3>1. pc'[q] = "findSelf" /\ reply'[q] = "none"
      BY <1>2, <2>2, <2>5 DEF Landing, Telling
    <3>2. Standing(q)'
      BY <1>2, <2>2, <2>3, <2>4, <3>1 DEF Standing
    <3>3. "findSelf" \in PCs /\ "none" \in Statuses /\ Moved(q, "findSelf", "none")
      BY <1>2, <2>1, <2>5 DEF PCs, Statuses, Landing, Telling
    <3>4. QED BY <1>1, <1>2, <3>2, <3>3, SameLocal, ReadKeeps
  <2>6. CASE label = "answer"
    <3>1. pc'[q] = "done" /\ reply'[q] = "ok"
      BY <2>2, <2>6 DEF Landing, Telling
    <3>2. call[q].op = "resolve" => ~call[q].participant
      BY <1>2, <2>6, AfterLabels
    <3>3. Standing(q)'
      BY <1>2, <2>2, <2>3, <2>4, <3>1, <3>2 DEF Standing
    <3>4. "done" \in PCs /\ "ok" \in Statuses /\ Moved(q, "done", "ok")
      BY <2>1, <2>6 DEF PCs, Statuses, Landing, Telling
    <3>5. QED BY <1>1, <1>2, <3>3, <3>4, SameLocal, ReadKeeps
  <2>7. QED BY <1>2, <2>5, <2>6, AfterLabels
<1>5. QED BY <1>3, <1>4

LEMMA FindPersonalKeeps ==
  ASSUME SpaceData, SpaceInv, NEW q \in Requests, FindPersonal(q)
  PROVE  SpaceInv' /\ Grow
<1>1. pc[q] = "personal" /\ UNCHANGED <<tables, call, todo, seen>>
  BY DEF FindPersonal
<1>2. /\ SpaceTypeOK /\ Standing(q) /\ call[q] \in Calls /\ User(q) \in Users
      /\ reply[q] = "none" /\ Unnamed(q)
  BY <1>1, UnderWay DEF Standing
<1>3. CASE Goto(q, "insertSpace") /\ UNCHANGED at
  <2>1. Moved(q, "insertSpace", "none")
    BY <1>2, <1>3, Moves
  <2>2. pc'[q] = "insertSpace" /\ reply'[q] = "none" /\ call'[q] = call[q]
    BY <1>1, <1>2, <2>1 DEF SpaceTypeOK, Moved
  <2>3. Standing(q)'
    BY <1>2, <2>2 DEF Standing, Unnamed
  <2>4. "insertSpace" \in PCs /\ "none" \in Statuses
    BY DEF PCs, Statuses
  <2>5. QED BY <1>1, <1>2, <1>3, <2>1, <2>3, <2>4, SameLocal, ReadKeeps
<1>4. ASSUME NEW s \in PersonalOf(User(q)), members[s][User(q)] # "none",
             at' = [at EXCEPT ![q] = s], Proceed(q, AfterPersonal(q))
      PROVE  SpaceInv' /\ Grow
  <2>1. Moved(q, Landing(AfterPersonal(q)), Telling(q, AfterPersonal(q)))
    BY <1>2, <1>4, Moves
  <2>2. at'[q] = s /\ User(q)' = User(q) /\ s \in Asked
    BY <1>1, <1>2, <1>4 DEF SpaceTypeOK, User, PersonalOf, Asked
  <2>3. IsPersonalOf(at[q], User(q))' /\ members'[at'[q]][User(q)] # "none"
    BY <1>1, <1>4, <2>2 DEF IsPersonalOf, PersonalOf, tables
  <2>4. /\ Standing(q)'
        /\ Landing(AfterPersonal(q)) \in PCs /\ Telling(q, AfterPersonal(q)) \in Statuses
    BY <1>1, <1>2, <2>1, <2>3, ArrivesHome
  <2>5. QED BY <1>1, <1>2, <1>4, <2>1, <2>2, <2>4, SameLocal, ReadKeeps
<1>5. QED BY <1>3, <1>4 DEF FindPersonal

LEMMA LookupPersonalKeeps ==
  ASSUME SpaceData, SpaceInv, NEW q \in Requests, LookupPersonal(q)
  PROVE  SpaceInv' /\ Grow
<1>1. pc[q] = "lookup" /\ UNCHANGED <<tables, call, todo, seen>>
  BY DEF LookupPersonal
<1>2. /\ SpaceTypeOK /\ Standing(q) /\ call[q] \in Calls /\ User(q) \in Users
      /\ reply[q] = "none" /\ Unnamed(q)
  BY <1>1, UnderWay DEF Standing
<1>3. CASE Answer(q, "collided") /\ UNCHANGED at
  BY <1>1, <1>3, Refuses DEF Statuses
<1>4. ASSUME NEW s \in PersonalOf(User(q)), at' = [at EXCEPT ![q] = s],
             Proceed(q, RepairLabel(q, s))
      PROVE  SpaceInv' /\ Grow
  <2>1. at'[q] = s /\ User(q)' = User(q) /\ s \in Asked /\ call'[q] = call[q]
    BY <1>1, <1>2, <1>4 DEF SpaceTypeOK, User, PersonalOf, Asked
  <2>2. IsPersonalOf(at[q], User(q))'
    BY <1>1, <1>4, <2>1 DEF IsPersonalOf, PersonalOf, tables
  <2>3. CASE members[s][User(q)] # "none"
    <3>1. Moved(q, Landing(AfterPersonal(q)), Telling(q, AfterPersonal(q)))
      BY <1>2, <1>4, <2>3, Moves DEF RepairLabel
    <3>2. members'[at'[q]][User(q)] # "none"
      BY <1>1, <2>1, <2>3 DEF tables
    <3>3. /\ Standing(q)'
          /\ Landing(AfterPersonal(q)) \in PCs /\ Telling(q, AfterPersonal(q)) \in Statuses
      BY <1>1, <1>2, <2>2, <3>1, <3>2, ArrivesHome
    <3>4. QED BY <1>1, <1>2, <1>4, <2>1, <3>1, <3>3, SameLocal, ReadKeeps
  <2>4. CASE members[s][User(q)] = "none"
    <3>1. Moved(q, "findOwner", "none")
      BY <1>2, <1>4, <2>4, Moves DEF RepairLabel, Landing, Telling
    <3>2. pc'[q] = "findOwner" /\ reply'[q] = "none"
      BY <1>2, <3>1 DEF SpaceTypeOK, Moved
    <3>3. Standing(q)'
      BY <1>2, <2>1, <2>2, <3>2 DEF Standing, Unnamed
    <3>4. "findOwner" \in PCs /\ "none" \in Statuses
      BY DEF PCs, Statuses
    <3>5. QED BY <1>1, <1>2, <1>4, <2>1, <3>1, <3>3, <3>4, SameLocal, ReadKeeps
  <2>5. QED BY <2>3, <2>4
<1>5. QED BY <1>3, <1>4 DEF LookupPersonal

LEMMA FindOwnerKeeps ==
  ASSUME SpaceData, SpaceInv, NEW q \in Requests, FindOwner(q)
  PROVE  SpaceInv' /\ Grow
<1>1. pc[q] = "findOwner" /\ UNCHANGED <<tables, call, at, todo, seen>>
  BY DEF FindOwner
<1>2. /\ SpaceTypeOK /\ Standing(q) /\ call[q] \in Calls /\ User(q) \in Users
      /\ reply[q] = "none" /\ Unnamed(q) /\ IsPersonalOf(at[q], User(q))
  BY <1>1, UnderWay DEF Standing
<1>3. IsPersonalOf(at[q], User(q))' /\ call'[q] = call[q]
  BY <1>1, <1>2 DEF IsPersonalOf, User, tables
<1>4. CASE members[at[q]][User(q)] # "none"
  <2>1. Moved(q, Landing(AfterPersonal(q)), Telling(q, AfterPersonal(q)))
    BY <1>2, <1>4, Moves DEF FindOwner
  <2>2. members'[at'[q]][User(q)] # "none"
    BY <1>1, <1>4 DEF tables
  <2>3. /\ Standing(q)'
        /\ Landing(AfterPersonal(q)) \in PCs /\ Telling(q, AfterPersonal(q)) \in Statuses
    BY <1>1, <1>2, <1>3, <2>1, <2>2, ArrivesHome
  <2>4. QED BY <1>1, <1>2, <2>1, <2>3, SameLocal, ReadKeeps
<1>5. CASE members[at[q]][User(q)] = "none"
  <2>1. Moved(q, "insertOwner", "none")
    BY <1>2, <1>5, Moves DEF FindOwner, Landing, Telling
  <2>2. pc'[q] = "insertOwner" /\ reply'[q] = "none"
    BY <1>2, <2>1 DEF SpaceTypeOK, Moved
  <2>3. Standing(q)'
    BY <1>2, <1>3, <2>2 DEF Standing, Unnamed
  <2>4. "insertOwner" \in PCs /\ "none" \in Statuses
    BY DEF PCs, Statuses
  <2>5. QED BY <1>1, <1>2, <2>1, <2>3, <2>4, SameLocal, ReadKeeps
<1>6. QED BY <1>4, <1>5

LEMMA InsertSpaceKeeps ==
  ASSUME SpaceData, SpaceInv, NEW q \in Requests, InsertSpace(q)
  PROVE  SpaceInv' /\ Grow
<1>1. pc[q] = "insertSpace" /\ UNCHANGED <<members, selves, taken, call, todo, seen>>
  BY DEF InsertSpace
<1>2. /\ SpaceTypeOK /\ RowsInv /\ Standing(q) /\ call[q] \in Calls /\ User(q) \in Users
      /\ reply[q] = "none" /\ Unnamed(q)
  BY <1>1, UnderWay DEF Standing
<1>3. CASE Caught(q) /\ UNCHANGED <<spaces, at>>
  <2>1. Moved(q, "lookup", "none")
    BY <1>2, <1>3, Moves DEF Caught
  <2>2. pc'[q] = "lookup" /\ reply'[q] = "none" /\ call'[q] = call[q]
    BY <1>1, <1>2, <2>1 DEF SpaceTypeOK, Moved
  <2>3. Standing(q)'
    BY <1>2, <2>2 DEF Standing, Unnamed
  <2>4. "lookup" \in PCs /\ "none" \in Statuses /\ UNCHANGED tables
    BY <1>1, <1>3 DEF PCs, Statuses, tables
  <2>5. QED BY <1>1, <1>2, <1>3, <2>1, <2>3, <2>4, SameLocal, ReadKeeps
<1>4. ASSUME PersonalFree(User(q)), Goto(q, "findOwner"),
             NEW s \in SpaceIds, spaces[s] = Absent,
             spaces' = [spaces EXCEPT ![s] = [kind |-> "personal", creator |-> User(q)]],
             at' = [at EXCEPT ![q] = s]
      PROVE  SpaceInv' /\ Grow
  <2> DEFINE row == [kind |-> "personal", creator |-> User(q)]
  <2>1. row \in Rows /\ row # Absent /\ spaces' \in [SpaceIds -> Rows \cup {Absent}]
    BY <1>2, <1>4 DEF Rows, Kinds, SpaceTypeOK, SpaceData
  <2>2. spaces'[s] = row /\ \A t \in SpaceIds \ {s} : spaces'[t] = spaces[t]
    BY <1>2, <1>4 DEF SpaceTypeOK
  <2>3. \A u \in Users : members'[s][u] = "none" /\ selves'[s][u] = "none"
    BY <1>1, <1>2, <1>4 DEF RowsInv
  <2>4. \A t \in SpaceIds \ {s} :
          spaces[t] # Absent /\ spaces[t].kind = "personal" => spaces[t].creator # User(q)
    BY <1>4 DEF PersonalFree, PersonalOf
  <2>5. RowsInv'
    BY <1>1, <1>2, <2>1, <2>2, <2>3, <2>4 DEF RowsInv
  <2>6. Grow
    BY <1>1, <1>4, <2>2 DEF Grow
  <2>7. Moved(q, "findOwner", "none")
    BY <1>2, <1>4, Moves
  <2>8. /\ pc'[q] = "findOwner" /\ reply'[q] = "none" /\ call'[q] = call[q]
        /\ User(q)' = User(q) /\ at'[q] = s /\ s \in Asked
    BY <1>1, <1>2, <1>4, <2>7 DEF SpaceTypeOK, Moved, User, Asked
  <2>9. Standing(q)'
    BY <1>2, <2>1, <2>2, <2>8 DEF Standing, Unnamed, IsPersonalOf
  <2>10. /\ "findOwner" \in PCs /\ "none" \in Statuses
         /\ members' \in [SpaceIds -> [Users -> Roles]]
         /\ selves' \in [SpaceIds -> [Users -> Selves]]
    BY <1>1, <1>2 DEF PCs, Statuses, SpaceTypeOK
  <2> HIDE DEF row
  <2>11. SpaceInv'
    BY <1>1, <1>2, <1>4, <2>1, <2>5, <2>6, <2>7, <2>8, <2>9, <2>10, SameLocal, StepKeeps
  <2>12. QED BY <2>6, <2>11
<1>5. QED BY <1>3, <1>4 DEF InsertSpace

LEMMA InsertOwnerKeeps ==
  ASSUME SpaceData, SpaceInv, NEW q \in Requests, InsertOwner(q)
  PROVE  SpaceInv' /\ Grow
<1>1. pc[q] = "insertOwner" /\ UNCHANGED <<spaces, selves, taken, call, at, todo, seen>>
  BY DEF InsertOwner
<1>2. /\ SpaceTypeOK /\ RowsInv /\ Standing(q) /\ call[q] \in Calls /\ User(q) \in Users
      /\ reply[q] = "none" /\ Unnamed(q) /\ IsPersonalOf(at[q], User(q))
  BY <1>1, UnderWay DEF Standing
<1>3. CASE members[at[q]][User(q)] # "none"
  <2>1. Answer(q, "error") /\ UNCHANGED tables
    BY <1>1, <1>3 DEF InsertOwner, tables
  <2>2. QED BY <1>1, <2>1, Refuses DEF Statuses
<1>4. CASE members[at[q]][User(q)] = "none"
  <2> DEFINE s == at[q]
             u == User(q)
  <2>1. /\ members' = [members EXCEPT ![s][u] = "owner"]
        /\ Proceed(q, AfterPersonal(q))
    BY <1>4 DEF InsertOwner
  <2>2. /\ s \in SpaceIds /\ spaces[s] # Absent /\ spaces[s].kind = "personal"
        /\ spaces[s].creator = u
    BY <1>2 DEF IsPersonalOf
  <2>3. /\ members' \in [SpaceIds -> [Users -> Roles]] /\ members'[s][u] = "owner"
        /\ \A t \in SpaceIds, v \in Users : t # s \/ v # u => members'[t][v] = members[t][v]
    BY <1>2, <2>1, <2>2 DEF SpaceTypeOK, Roles
  <2>4. RowsInv'
    <3>1. \A t \in SpaceIds \ {s} : members'[t] = members[t]
      BY <1>2, <2>1 DEF SpaceTypeOK
    <3>2. \A v \in Users \ {u} : members'[s][v] = "none"
      BY <1>2, <2>2, <2>3 DEF RowsInv
    <3>3. QED BY <1>1, <1>2, <2>2, <2>3, <3>1, <3>2 DEF RowsInv
  <2>5. Grow
    BY <1>1, <1>4, <2>2, <2>3 DEF Grow
  <2>6. Moved(q, Landing(AfterPersonal(q)), Telling(q, AfterPersonal(q)))
    BY <1>2, <2>1, Moves
  <2>7. IsPersonalOf(at[q], User(q))' /\ members'[at'[q]][User(q)] # "none"
    BY <1>1, <1>2, <2>3 DEF IsPersonalOf, User
  <2>8. /\ Standing(q)'
        /\ Landing(AfterPersonal(q)) \in PCs /\ Telling(q, AfterPersonal(q)) \in Statuses
    BY <1>1, <1>2, <2>6, <2>7, ArrivesHome
  <2>9. /\ spaces' \in [SpaceIds -> Rows \cup {Absent}]
        /\ selves' \in [SpaceIds -> [Users -> Selves]]
    BY <1>1, <1>2 DEF SpaceTypeOK
  <2>10. SpaceInv'
    BY <1>1, <1>2, <2>3, <2>4, <2>5, <2>6, <2>8, <2>9, SameLocal, StepKeeps
  <2>11. QED BY <2>5, <2>10
<1>5. QED BY <1>3, <1>4

\* A request whose user has a participant in the space it was let into may go on.
LEMMA HasSelf ==
  ASSUME SpaceData, SpaceTypeOK, NEW q \in Requests, call[q] \in Calls, reply[q] = "none",
         UNCHANGED <<members, call, at>>,
         at[q] \in SpaceIds, members[at[q]][User(q)] # "none", Resolved(q),
         selves'[at[q]][User(q)] # "none",
         UNCHANGED spaces, Moved(q, Landing(AfterSelf(q)), Telling(q, AfterSelf(q)))
  PROVE  /\ Standing(q)'
         /\ Landing(AfterSelf(q)) \in PCs /\ Telling(q, AfterSelf(q)) \in Statuses
<1>1. /\ call'[q] = call[q] /\ at'[q] = at[q] /\ User(q)' = User(q)
      /\ pc'[q] = Landing(AfterSelf(q)) /\ reply'[q] = Telling(q, AfterSelf(q))
  BY DEF SpaceTypeOK, Moved, User
<1>2. Resolved(q)'
  BY <1>1 DEF Resolved, IsPersonalOf
<1>3. CASE call[q].op \in {"list", "policy"}
  <2>1. AfterSelf(q) = "visit" BY <1>3, AfterLabels
  <2>2. pc'[q] = "visit" /\ reply'[q] = "none"
    BY <1>1, <2>1 DEF Landing, Telling
  <2>3. QED BY <1>1, <1>3, <2>1, <2>2 DEF Standing, Landing, Telling, PCs, Statuses
<1>4. CASE call[q].op \notin {"list", "policy"}
  <2>1. AfterSelf(q) = "answer" BY <1>4, AfterLabels
  <2>2. pc'[q] = "done" /\ reply'[q] = "ok"
    BY <1>1, <2>1 DEF Landing, Telling
  <2>3. QED BY <1>1, <1>2, <2>1, <2>2 DEF Standing, Landing, Telling, PCs, Statuses
<1>5. QED BY <1>3, <1>4

LEMMA FindSelfKeeps ==
  ASSUME SpaceData, SpaceInv, NEW q \in Requests, FindSelf(q)
  PROVE  SpaceInv' /\ Grow
<1>1. pc[q] = "findSelf" /\ UNCHANGED <<tables, call, at, todo, seen>>
  BY DEF FindSelf
<1>2. /\ SpaceTypeOK /\ Standing(q) /\ call[q] \in Calls /\ User(q) \in Users
      /\ reply[q] = "none" /\ at[q] \in SpaceIds
      /\ members[at[q]][User(q)] # "none" /\ Resolved(q)
  BY <1>1, UnderWay DEF Standing
<1>3. CASE selves[at[q]][User(q)] # "none"
  <2>1. Moved(q, Landing(AfterSelf(q)), Telling(q, AfterSelf(q)))
    BY <1>2, <1>3, Moves DEF FindSelf
  <2>2. selves'[at[q]][User(q)] # "none" /\ UNCHANGED <<spaces, members>>
    BY <1>1, <1>3 DEF tables
  <2>3. /\ Standing(q)'
        /\ Landing(AfterSelf(q)) \in PCs /\ Telling(q, AfterSelf(q)) \in Statuses
    BY <1>1, <1>2, <2>1, <2>2, HasSelf
  <2>4. QED BY <1>1, <1>2, <2>1, <2>3, SameLocal, ReadKeeps
<1>4. CASE selves[at[q]][User(q)] = "none"
  <2>1. Moved(q, "insertSelf", "none")
    BY <1>2, <1>4, Moves DEF FindSelf, Landing, Telling
  <2>2. /\ pc'[q] = "insertSelf" /\ reply'[q] = "none"
        /\ call'[q] = call[q] /\ at'[q] = at[q] /\ User(q)' = User(q)
    BY <1>1, <1>2, <2>1 DEF SpaceTypeOK, Moved, User
  <2>3. Resolved(q)' /\ members'[at'[q]][User(q)'] # "none"
    BY <1>1, <1>2, <2>2 DEF Resolved, IsPersonalOf, tables
  <2>4. Standing(q)'
    BY <1>2, <2>2, <2>3 DEF Standing
  <2>5. "insertSelf" \in PCs /\ "none" \in Statuses
    BY DEF PCs, Statuses
  <2>6. QED BY <1>1, <1>2, <2>1, <2>4, <2>5, SameLocal, ReadKeeps
<1>5. QED BY <1>3, <1>4

LEMMA InsertSelfKeeps ==
  ASSUME SpaceData, SpaceInv, NEW q \in Requests, InsertSelf(q)
  PROVE  SpaceInv' /\ Grow
<1>1. pc[q] = "insertSelf" /\ UNCHANGED <<spaces, members, taken, call, at, todo, seen>>
  BY DEF InsertSelf
<1>2. /\ SpaceTypeOK /\ RowsInv /\ Standing(q) /\ call[q] \in Calls /\ User(q) \in Users
      /\ reply[q] = "none" /\ at[q] \in SpaceIds
      /\ members[at[q]][User(q)] # "none" /\ Resolved(q)
  BY <1>1, UnderWay DEF Standing
<1>3. CASE selves[at[q]][User(q)] # "none" \/ ~AddressFree(at[q], User(q))
  <2>1. Answer(q, "error") /\ UNCHANGED tables
    BY <1>1, <1>3 DEF InsertSelf, tables
  <2>2. QED BY <1>1, <2>1, Refuses DEF Statuses
<1>4. CASE selves[at[q]][User(q)] = "none" /\ AddressFree(at[q], User(q))
  <2> DEFINE s == at[q]
             u == User(q)
  <2>1. selves' = [selves EXCEPT ![s][u] = "live"] /\ Proceed(q, AfterSelf(q))
    BY <1>4 DEF InsertSelf
  <2>2. /\ selves' \in [SpaceIds -> [Users -> Selves]] /\ selves'[s][u] = "live"
        /\ \A t \in SpaceIds, v \in Users : t # s \/ v # u => selves'[t][v] = selves[t][v]
    BY <1>2, <2>1 DEF SpaceTypeOK, Selves
  <2>3. spaces[s] # Absent
    BY <1>2 DEF RowsInv
  <2>4. RowsInv'
    BY <1>1, <1>2, <2>2, <2>3 DEF RowsInv
  <2>5. Grow
    BY <1>1, <2>2 DEF Grow
  <2>6. Moved(q, Landing(AfterSelf(q)), Telling(q, AfterSelf(q)))
    BY <1>2, <2>1, Moves
  <2>7. /\ Standing(q)'
        /\ Landing(AfterSelf(q)) \in PCs /\ Telling(q, AfterSelf(q)) \in Statuses
    BY <1>1, <1>2, <2>2, <2>6, HasSelf
  <2>8. /\ spaces' \in [SpaceIds -> Rows \cup {Absent}]
        /\ members' \in [SpaceIds -> [Users -> Roles]]
    BY <1>1, <1>2 DEF SpaceTypeOK
  <2>9. SpaceInv'
    BY <1>1, <1>2, <2>2, <2>4, <2>5, <2>6, <2>7, <2>8, SameLocal, StepKeeps
  <2>10. QED BY <2>5, <2>9
<1>5. QED BY <1>3, <1>4

\* A request that goes on to a label where nothing is asked of it but its operation.
LEMMA GoesOn ==
  ASSUME SpaceData, SpaceInv, NEW q \in Requests, pc[q] \notin {"idle", "done"},
         NEW label \in {"visit", "authorize"}, Goto(q, label),
         UNCHANGED <<tables, call, seen>>,
         NEW a \in Asked, at' = [at EXCEPT ![q] = a],
         NEW left \in SUBSET SpaceIds, todo' = [todo EXCEPT ![q] = left],
         label = "visit" => call[q].op \in {"list", "policy"},
         label = "authorize" => a \in SpaceIds /\ call[q].op # "resolve"
  PROVE  SpaceInv' /\ Grow
<1>1. /\ SpaceTypeOK /\ Standing(q) /\ call[q] \in Calls /\ reply[q] = "none"
  BY UnderWay
<1>2. Moved(q, label, "none")
  BY <1>1, Moves
<1>3. pc'[q] = label /\ reply'[q] = "none" /\ call'[q] = call[q] /\ at'[q] = a
  BY <1>1, <1>2 DEF SpaceTypeOK, Moved
<1>4. Standing(q)'
  BY <1>1, <1>3 DEF Standing
<1>5. label \in PCs /\ "none" \in Statuses
  BY DEF PCs, Statuses
<1>6. QED BY <1>1, <1>2, <1>4, <1>5, SameLocal, ReadKeeps

LEMMA ListSpacesKeeps ==
  ASSUME SpaceData, SpaceInv, NEW q \in Requests, ListSpaces(q)
  PROVE  SpaceInv' /\ Grow
<1> DEFINE left == {s \in SpaceIds : Opens(s, User(q)) /\ selves[s][User(q)] # "live"}
<1>1. /\ pc[q] = "list" /\ UNCHANGED <<tables, call, at, seen>>
      /\ todo' = [todo EXCEPT ![q] = left] /\ Goto(q, "visit")
  BY DEF ListSpaces
<1>2. SpaceTypeOK /\ call[q].op = "list"
  BY <1>1, UnderWay DEF Standing
<1>3. left \in SUBSET SpaceIds
  OBVIOUS
<1> HIDE DEF left
<1>4. QED BY <1>1, <1>2, <1>3, SameLocal, GoesOn

LEMMA ChangePolicyKeeps ==
  ASSUME SpaceData, SpaceInv, NEW q \in Requests, ChangePolicy(q)
  PROVE  SpaceInv' /\ Grow
<1>1. pc[q] = "policy" /\ UNCHANGED <<tables, call, at, seen>>
  BY DEF ChangePolicy
<1>2. SpaceTypeOK /\ call[q].op = "policy" /\ call[q].space \in SpaceIds
  BY <1>1, UnderWay, CallFields DEF Standing
<1>3. CASE \E status \in {"notFound", "refused"} : Answer(q, status) /\ UNCHANGED todo
  BY <1>1, <1>3, Refuses DEF Statuses
<1>4. CASE todo' = [todo EXCEPT ![q] = {call[q].space}] /\ Goto(q, "visit")
  <2> DEFINE left == {call[q].space}
  <2>1. left \in SUBSET SpaceIds /\ todo' = [todo EXCEPT ![q] = left]
    BY <1>2, <1>4
  <2> HIDE DEF left
  <2>2. QED BY <1>1, <1>2, <1>4, <2>1, SameLocal, GoesOn
<1>5. QED BY <1>3, <1>4 DEF ChangePolicy

LEMMA VisitKeeps ==
  ASSUME SpaceData, SpaceInv, NEW q \in Requests, Visit(q)
  PROVE  SpaceInv' /\ Grow
<1>1. pc[q] = "visit" /\ UNCHANGED <<tables, call, seen>>
  BY DEF Visit
<1>2. /\ SpaceTypeOK /\ call[q].op \in {"list", "policy"} /\ call[q] \in Calls
      /\ todo[q] \subseteq SpaceIds
  BY <1>1, UnderWay DEF Standing, SpaceTypeOK
<1>3. CASE Answer(q, "ok") /\ UNCHANGED <<at, todo>>
  <2>1. Moved(q, "done", "ok")
    BY <1>2, <1>3, Moves
  <2>2. pc'[q] = "done" /\ reply'[q] = "ok" /\ call'[q] = call[q]
    BY <1>1, <1>2, <2>1 DEF SpaceTypeOK, Moved
  <2>3. Standing(q)'
    BY <1>2, <2>2 DEF Standing
  <2>4. "done" \in PCs /\ "ok" \in Statuses
    BY DEF PCs, Statuses
  <2>5. QED BY <1>1, <1>2, <1>3, <2>1, <2>3, <2>4, SameLocal, ReadKeeps
<1>4. ASSUME NEW s \in todo[q], at' = [at EXCEPT ![q] = s],
             todo' = [todo EXCEPT ![q] = @ \ {s}],
             Goto(q, IF selves[s][User(q)] = "live" THEN "visit" ELSE "authorize")
      PROVE  SpaceInv' /\ Grow
  <2>1. /\ s \in SpaceIds /\ s \in Asked /\ todo[q] \ {s} \in SUBSET SpaceIds
        /\ todo' = [todo EXCEPT ![q] = todo[q] \ {s}]
    BY <1>2, <1>4 DEF Asked
  <2>2. QED BY <1>1, <1>2, <1>4, <2>1, GoesOn
<1>5. QED BY <1>3, <1>4 DEF Visit

LEMMA CreateSharedKeeps ==
  ASSUME SpaceData, SpaceInv, NEW q \in Requests, CreateShared(q)
  PROVE  SpaceInv' /\ Grow
<1>1. pc[q] = "create" /\ UNCHANGED <<taken, call, todo, seen>> /\ Goto(q, "authorize")
  BY DEF CreateShared
<1>2. /\ SpaceTypeOK /\ RowsInv /\ Standing(q) /\ call[q] \in Calls /\ User(q) \in Users
      /\ reply[q] = "none" /\ call[q].op = "create"
  BY <1>1, UnderWay DEF Standing
<1> DEFINE row == [kind |-> "shared", creator |-> User(q)]
           all == {User(q)} \cup call[q].invited
           roles == [u \in Users |-> IF u = User(q) THEN "owner"
                                     ELSE IF u \in all THEN "member" ELSE "none"]
           present == [u \in Users |-> IF u \in all THEN "live" ELSE "none"]
<1>3. PICK s \in SpaceIds :
        /\ spaces[s] = Absent
        /\ spaces' = [spaces EXCEPT ![s] = row]
        /\ members' = [members EXCEPT ![s] = roles]
        /\ selves' = [selves EXCEPT ![s] = present]
        /\ at' = [at EXCEPT ![q] = s]
  BY DEF CreateShared
<1>4. /\ row \in Rows /\ row # Absent /\ row.kind = "shared" /\ row.creator = User(q)
      /\ roles \in [Users -> Roles] /\ present \in [Users -> Selves]
      /\ roles[User(q)] = "owner"
      /\ \A u \in Users : roles[u] # "none" => present[u] # "none"
  BY <1>2 DEF Rows, Kinds, SpaceData, Roles, Selves
<1> HIDE DEF row, all, roles, present
<1>5. /\ spaces' \in [SpaceIds -> Rows \cup {Absent}]
      /\ members' \in [SpaceIds -> [Users -> Roles]]
      /\ selves' \in [SpaceIds -> [Users -> Selves]]
      /\ spaces'[s] = row /\ members'[s] = roles /\ selves'[s] = present
      /\ \A t \in SpaceIds \ {s} :
           spaces'[t] = spaces[t] /\ members'[t] = members[t] /\ selves'[t] = selves[t]
  BY <1>2, <1>3, <1>4 DEF SpaceTypeOK
<1>6. RowsInv'
  <2>1. \A t \in SpaceIds : spaces[t] # Absent => spaces[t].creator \in Users
    BY <1>2 DEF SpaceTypeOK, Rows
  <2>2. \A t \in SpaceIds : spaces'[t] = Absent =>
          \A u \in Users : members'[t][u] = "none" /\ selves'[t][u] = "none"
    BY <1>2, <1>4, <1>5 DEF RowsInv
  <2>3. \A t \in SpaceIds : spaces'[t] # Absent /\ spaces'[t].kind = "personal" =>
          /\ t # s
          /\ \A u \in Users : members'[t][u] # "none" =>
               u = spaces'[t].creator /\ members'[t][u] = "owner"
    BY <1>2, <1>4, <1>5 DEF RowsInv
  <2>4. \A t \in SpaceIds : spaces'[t] # Absent /\ spaces'[t].kind = "shared" =>
          /\ members'[t][spaces'[t].creator] = "owner"
          /\ \A u \in Users : members'[t][u] # "none" => selves'[t][u] # "none"
    BY <1>2, <1>4, <1>5, <2>1 DEF RowsInv
  <2>5. QED BY <1>2, <1>5, <2>2, <2>3, <2>4 DEF RowsInv
<1>7. Grow
  BY <1>2, <1>3, <1>5 DEF Grow, RowsInv
<1>8. Moved(q, "authorize", "none")
  BY <1>1, <1>2, Moves
<1>9. pc'[q] = "authorize" /\ reply'[q] = "none" /\ call'[q] = call[q] /\ at'[q] = s
  BY <1>1, <1>2, <1>3, <1>8 DEF SpaceTypeOK, Moved
<1>10. Standing(q)'
  BY <1>2, <1>9 DEF Standing
<1>11. "authorize" \in PCs /\ "none" \in Statuses /\ s \in Asked
  BY DEF PCs, Statuses, Asked
<1>12. SpaceInv'
  BY <1>1, <1>2, <1>3, <1>5, <1>6, <1>7, <1>8, <1>10, <1>11, SameLocal, StepKeeps
<1>13. QED BY <1>7, <1>12

LEMMA CheckAddKeeps ==
  ASSUME SpaceData, SpaceInv, NEW q \in Requests, CheckAdd(q)
  PROVE  SpaceInv' /\ Grow
<1>1. pc[q] = "checkAdd" /\ UNCHANGED <<tables, call, at, todo, seen>>
  BY DEF CheckAdd
<1>2. /\ SpaceTypeOK /\ RowsInv /\ Standing(q) /\ call[q] \in Calls /\ User(q) \in Users
      /\ reply[q] = "none" /\ call[q].op = "add" /\ call[q].space \in SpaceIds
  BY <1>1, UnderWay, CallFields DEF Standing
<1>3. CASE \E status \in {"notFound", "refused"} : Answer(q, status)
  BY <1>1, <1>3, Refuses DEF Statuses
<1>4. CASE /\ members[call[q].space][User(q)] = "owner" /\ AddsTo(call[q].space)
           /\ Goto(q, "readMember")
  <2>1. Moved(q, "readMember", "none")
    BY <1>2, <1>4, Moves
  <2>2. pc'[q] = "readMember" /\ reply'[q] = "none" /\ call'[q] = call[q]
    BY <1>1, <1>2, <2>1 DEF SpaceTypeOK, Moved
  <2>3. spaces'[call[q].space] # Absent /\ spaces'[call[q].space].kind = "shared"
    BY <1>1, <1>2, <1>4 DEF RowsInv, AddsTo, tables
  <2>4. Standing(q)'
    BY <1>2, <2>2, <2>3 DEF Standing
  <2>5. "readMember" \in PCs /\ "none" \in Statuses
    BY DEF PCs, Statuses
  <2>6. QED BY <1>1, <1>2, <2>1, <2>4, <2>5, SameLocal, ReadKeeps
<1>5. QED BY <1>3, <1>4 DEF CheckAdd

LEMMA ReadMemberKeeps ==
  ASSUME SpaceData, SpaceInv, NEW q \in Requests, ReadMember(q)
  PROVE  SpaceInv' /\ Grow
<1>1. /\ pc[q] = "readMember" /\ UNCHANGED <<tables, call, at, todo>> /\ Goto(q, "readSelf")
      /\ seen' = [seen EXCEPT ![q].member = members[call[q].space][call[q].target]]
  BY DEF ReadMember
<1>2. /\ SpaceTypeOK /\ Standing(q) /\ call[q] \in Calls /\ reply[q] = "none"
      /\ call[q].op = "add" /\ call[q].space \in SpaceIds /\ call[q].target \in Users
      /\ spaces[call[q].space] # Absent /\ spaces[call[q].space].kind = "shared"
  BY <1>1, UnderWay, CallFields DEF Standing
<1> DEFINE role == members[call[q].space][call[q].target]
           knows == [seen[q] EXCEPT !.member = role]
<1>3. /\ knows \in [member : Roles, self : Selves] /\ knows.member = role
      /\ seen' = [seen EXCEPT ![q] = knows] /\ seen'[q] = knows
  <2>1. role \in Roles /\ seen[q] \in [member : Roles, self : Selves]
    BY <1>2 DEF SpaceTypeOK
  <2>2. seen' = [seen EXCEPT ![q] = knows]
    BY <1>1
  <2>3. seen'[q] = knows
    BY <1>2, <2>2 DEF SpaceTypeOK
  <2>4. QED BY <2>1, <2>2, <2>3
<1>4. Moved(q, "readSelf", "none")
  BY <1>1, <1>2, Moves
<1>5. /\ pc'[q] = "readSelf" /\ reply'[q] = "none" /\ call'[q] = call[q]
      /\ UNCHANGED <<spaces, members>>
  BY <1>1, <1>2, <1>4 DEF SpaceTypeOK, Moved, tables
<1> HIDE DEF knows
<1>6. Standing(q)'
  BY <1>2, <1>3, <1>5 DEF Standing
<1> HIDE DEF role
<1>7. "readSelf" \in PCs /\ "none" \in Statuses
  BY DEF PCs, Statuses
<1>8. QED BY <1>1, <1>2, <1>3, <1>4, <1>6, <1>7, SameLocal, ReadKeeps

LEMMA ReadSelfKeeps ==
  ASSUME SpaceData, SpaceInv, NEW q \in Requests, ReadSelf(q)
  PROVE  SpaceInv' /\ Grow
<1>1. /\ pc[q] = "readSelf" /\ UNCHANGED <<tables, call, at, todo>> /\ Goto(q, "commitAdd")
      /\ seen' = [seen EXCEPT ![q].self = selves[call[q].space][call[q].target]]
  BY DEF ReadSelf
<1>2. /\ SpaceTypeOK /\ Standing(q) /\ call[q] \in Calls /\ reply[q] = "none"
      /\ call[q].op = "add" /\ call[q].space \in SpaceIds /\ call[q].target \in Users
      /\ spaces[call[q].space] # Absent /\ spaces[call[q].space].kind = "shared"
      /\ IF seen[q].member = "none" THEN members[call[q].space][call[q].target] # "owner"
         ELSE members[call[q].space][call[q].target] = seen[q].member
  BY <1>1, UnderWay, CallFields DEF Standing
<1> DEFINE self == selves[call[q].space][call[q].target]
           knows == [seen[q] EXCEPT !.self = self]
<1>3. /\ knows \in [member : Roles, self : Selves] /\ knows.member = seen[q].member
      /\ seen' = [seen EXCEPT ![q] = knows] /\ seen'[q] = knows
  <2>1. self \in Selves /\ seen[q] \in [member : Roles, self : Selves]
    BY <1>2 DEF SpaceTypeOK
  <2>2. seen' = [seen EXCEPT ![q] = knows]
    BY <1>1
  <2>3. seen'[q] = knows
    BY <1>2, <2>2 DEF SpaceTypeOK
  <2>4. QED BY <2>1, <2>2, <2>3
<1>4. Moved(q, "commitAdd", "none")
  BY <1>1, <1>2, Moves
<1>5. /\ pc'[q] = "commitAdd" /\ reply'[q] = "none" /\ call'[q] = call[q]
      /\ UNCHANGED <<spaces, members>>
  BY <1>1, <1>2, <1>4 DEF SpaceTypeOK, Moved, tables
<1> HIDE DEF knows
<1>6. Standing(q)'
  BY <1>2, <1>3, <1>5 DEF Standing
<1>7. "commitAdd" \in PCs /\ "none" \in Statuses
  BY DEF PCs, Statuses
<1>8. QED BY <1>1, <1>2, <1>3, <1>4, <1>6, <1>7, SameLocal, ReadKeeps

\* An addition that found a membership keeps its role, and one that found none
\* meets at most a member who was added since: the owner was there before.
LEMMA CommitAddKeeps ==
  ASSUME SpaceData, SpaceInv, NEW q \in Requests, CommitAdd(q)
  PROVE  SpaceInv' /\ Grow
<1> DEFINE s == call[q].space
           u == call[q].target
<1>1. pc[q] = "commitAdd" /\ UNCHANGED <<spaces, taken, call, at, todo, seen>>
  BY DEF CommitAdd
<1>2. /\ SpaceTypeOK /\ RowsInv /\ Standing(q) /\ call[q] \in Calls /\ reply[q] = "none"
      /\ call[q].op = "add" /\ s \in SpaceIds /\ u \in Users
      /\ spaces[s] # Absent /\ spaces[s].kind = "shared"
      /\ IF seen[q].member = "none" THEN members[s][u] # "owner"
         ELSE members[s][u] = seen[q].member
  BY <1>1, UnderWay, CallFields DEF Standing
<1>3. CASE Answer(q, "error") /\ UNCHANGED <<members, selves>>
  <2>1. UNCHANGED tables
    BY <1>1, <1>3 DEF tables
  <2>2. QED BY <1>1, <1>3, <2>1, Refuses DEF Statuses
<1>4. CASE /\ members' = [members EXCEPT ![s][u] = AddedRole(q)]
           /\ selves' = [selves EXCEPT ![s][u] = AddedSelf(@)]
           /\ Answer(q, "ok")
  <2>1. /\ AddedRole(q) \in Roles
        /\ members[s][u] # "none" => AddedRole(q) = members[s][u]
        /\ AddedRole(q) = "owner" => members[s][u] = "owner"
    BY <1>2 DEF AddedRole, Roles, SpaceTypeOK
  <2>2. AddedSelf(selves[s][u]) \in Selves /\ AddedSelf(selves[s][u]) # "none"
    BY <1>2 DEF AddedSelf, Selves, SpaceTypeOK
  <2>3. /\ members' \in [SpaceIds -> [Users -> Roles]] /\ members'[s][u] = AddedRole(q)
        /\ selves' \in [SpaceIds -> [Users -> Selves]] /\ selves'[s][u] # "none"
        /\ \A t \in SpaceIds \ {s} : members'[t] = members[t] /\ selves'[t] = selves[t]
        /\ \A v \in Users \ {u} :
             members'[s][v] = members[s][v] /\ selves'[s][v] = selves[s][v]
    BY <1>2, <1>4, <2>1, <2>2 DEF SpaceTypeOK
  <2>4. RowsInv'
    <3>1. \A t \in SpaceIds : spaces[t] # Absent => spaces[t].creator \in Users
      BY <1>2 DEF SpaceTypeOK, Rows
    <3>2. /\ members[s][spaces[s].creator] = "owner"
          /\ \A v \in Users : members[s][v] # "none" => selves[s][v] # "none"
      BY <1>2 DEF RowsInv
    <3> HIDE DEF s, u
    <3>3. /\ members'[s][spaces[s].creator] = "owner"
          /\ \A v \in Users : members'[s][v] # "none" => selves'[s][v] # "none"
      BY <1>2, <2>1, <2>3, <3>1, <3>2
    <3>4. \A t \in SpaceIds : spaces'[t] = Absent =>
            \A v \in Users : members'[t][v] = "none" /\ selves'[t][v] = "none"
      BY <1>1, <1>2, <2>3 DEF RowsInv
    <3>5. \A t \in SpaceIds : spaces'[t] # Absent /\ spaces'[t].kind = "personal" =>
            /\ t # s
            /\ \A v \in Users : members'[t][v] # "none" =>
                 v = spaces'[t].creator /\ members'[t][v] = "owner"
      BY <1>1, <1>2, <2>3 DEF RowsInv
    <3>6. \A t \in SpaceIds : spaces'[t] # Absent /\ spaces'[t].kind = "shared" =>
            /\ members'[t][spaces'[t].creator] = "owner"
            /\ \A v \in Users : members'[t][v] # "none" => selves'[t][v] # "none"
      BY <1>1, <1>2, <2>3, <3>1, <3>3 DEF RowsInv
    <3>7. QED BY <1>1, <1>2, <3>4, <3>5, <3>6 DEF RowsInv
  <2>5. Grow
    BY <1>1, <1>2, <2>1, <2>3 DEF Grow
  <2>6. Moved(q, "done", "ok")
    BY <1>2, <1>4, Moves
  <2>7. pc'[q] = "done" /\ reply'[q] = "ok" /\ call'[q] = call[q]
    BY <1>1, <1>2, <2>6 DEF SpaceTypeOK, Moved
  <2>8. Standing(q)'
    BY <1>2, <2>7 DEF Standing
  <2>9. /\ "done" \in PCs /\ "ok" \in Statuses
        /\ spaces' \in [SpaceIds -> Rows \cup {Absent}]
    BY <1>1, <1>2 DEF PCs, Statuses, SpaceTypeOK
  <2>10. SpaceInv'
    BY <1>1, <1>2, <2>3, <2>4, <2>5, <2>6, <2>8, <2>9, SameLocal, StepKeeps
  <2>11. QED BY <2>5, <2>10
<1>5. QED BY <1>3, <1>4 DEF CommitAdd

LEMMA CrashKeeps ==
  ASSUME SpaceData, SpaceInv, NEW q \in Requests, Crash(q)
  PROVE  SpaceInv' /\ Grow
BY Refuses DEF Crash, Statuses

LEMMA ChangeSelvesKeeps ==
  ASSUME SpaceData, SpaceInv, ChangeSelves
  PROVE  SpaceInv' /\ Grow
<1>1. UNCHANGED <<spaces, members, pc, call, at, todo, seen, reply>>
  BY DEF ChangeSelves
<1>2. PICK s \in SpaceIds, u \in Users : DeleteOrRevive(s, u) \/ TakeOrFree(s, u)
  BY DEF ChangeSelves
<1>3. /\ selves' \in [SpaceIds -> [Users -> Selves]] /\ taken' \in [SpaceIds -> SUBSET Users]
      /\ \A t \in SpaceIds, v \in Users : selves'[t][v] = "none" <=> selves[t][v] = "none"
  <2>1. CASE DeleteOrRevive(s, u)
    BY <2>1 DEF DeleteOrRevive, SpaceInv, SpaceTypeOK, Selves
  <2>2. CASE TakeOrFree(s, u)
    <3>1. /\ selves \in [SpaceIds -> [Users -> Selves]] /\ UNCHANGED selves
          /\ taken \in [SpaceIds -> SUBSET Users]
      BY <2>2 DEF TakeOrFree, SpaceInv, SpaceTypeOK
    <3>2. taken[s] \cup {u} \in SUBSET Users /\ taken[s] \ {u} \in SUBSET Users
      BY <3>1
    <3>3. taken' \in [SpaceIds -> SUBSET Users]
      BY <2>2, <3>1, <3>2 DEF TakeOrFree
    <3>4. QED BY <3>1, <3>3
  <2>3. QED BY <1>2, <2>1, <2>2
<1>4. SpaceTypeOK'
  BY <1>1, <1>3 DEF SpaceInv, SpaceTypeOK
<1>5. RowsInv'
  BY <1>1, <1>3 DEF SpaceInv, RowsInv, SpaceTypeOK, Rows
<1>6. Grow
  BY <1>1, <1>3 DEF Grow
<1>7. ASSUME NEW q \in Requests PROVE Standing(q)'
  BY <1>1, <1>6, OthersStand DEF SpaceInv
<1>8. QED BY <1>4, <1>5, <1>6, <1>7 DEF SpaceInv

-----------------------------------------------------------------------------
(* The invariant                                                           *)

LEMMA InitSpaces == ASSUME SpaceData, SpaceInit PROVE SpaceInv
<1>1. SpaceTypeOK
  BY DEF SpaceInit, SpaceTypeOK, Roles, Selves, PCs, Asked, Statuses, Nothing
<1>2. RowsInv
  BY DEF SpaceInit, RowsInv
<1>3. ASSUME NEW q \in Requests PROVE Standing(q)
  BY <1>3 DEF SpaceInit, Standing
<1>4. QED BY <1>1, <1>2, <1>3 DEF SpaceInv

LEMMA HandleKeeps ==
  ASSUME SpaceData, SpaceInv, NEW q \in Requests, Handle(q)
  PROVE  SpaceInv' /\ Grow
BY AuthorizeKeeps, FindPersonalKeeps, InsertSpaceKeeps, LookupPersonalKeeps, FindOwnerKeeps,
   InsertOwnerKeeps, FindSelfKeeps, InsertSelfKeeps, ListSpacesKeeps, ChangePolicyKeeps,
   VisitKeeps, CreateSharedKeeps, CheckAddKeeps, ReadMemberKeeps, ReadSelfKeeps, CommitAddKeeps
   DEF Handle

LEMMA NextSpaces == ASSUME SpaceData, SpaceInv, [SpaceNext]_vars PROVE SpaceInv' /\ Grow
<1>1. CASE SpaceNext
  BY <1>1, ReceiveKeeps, HandleKeeps, CrashKeeps, ChangeSelvesKeeps DEF SpaceNext
<1>2. CASE UNCHANGED vars
  <2>1. Grow BY <1>2 DEF Grow, vars, tables
  <2>2. SpaceTypeOK' /\ RowsInv'
    BY <1>2 DEF SpaceInv, SpaceTypeOK, RowsInv, vars, tables
  <2>3. ASSUME NEW q \in Requests PROVE Standing(q)'
    BY <1>2, <2>1, OthersStand DEF SpaceInv, vars
  <2>4. QED BY <2>1, <2>2, <2>3 DEF SpaceInv
<1>3. QED BY <1>1, <1>2

\* In every reachable state the tables agree with one another and every request
\* knows what it stands on: the strengthening the theorems below follow from.
THEOREM SpaceInvariant == SpaceSpec => []SpaceInv
<1>1. SpaceInit => SpaceInv
  BY SpaceData, InitSpaces
<1>2. SpaceInv /\ [SpaceNext]_vars => SpaceInv'
  BY SpaceData, NextSpaces
<1>3. QED BY <1>1, <1>2, PTL DEF SpaceSpec

\* The tables and the local state of every request keep their types (SpaceTypeOK).
THEOREM SpaceTypeCorrect == SpaceSpec => []SpaceTypeOK
<1>1. SpaceInv => SpaceTypeOK
  BY DEF SpaceInv
<1>2. QED BY <1>1, SpaceInvariant, PTL

LEMMA OnePersonal ==
  ASSUME RowsInv, NEW u \in Users
  PROVE  Cardinality(PersonalOf(u)) <= 1
<1>1. CASE PersonalOf(u) = {}
  BY <1>1, FS_EmptySet
<1>2. CASE PersonalOf(u) # {}
  <2>1. PICK s : s \in PersonalOf(u)
    BY <1>2
  <2>2. PersonalOf(u) = {s}
    BY <2>1 DEF PersonalOf, RowsInv
  <2>3. Cardinality({s}) = 1
    BY FS_Singleton
  <2>4. QED BY <2>2, <2>3
<1>3. QED BY <1>1, <1>2

\* However many first calls of a user race, are cut short or take over from one
\* another, there is one personal space at most, and nobody else is in it
\* (ensurePersonalSpaceForUser; the unique index on personal spaces).
THEOREM PersonalSpacesStayPrivate == SpaceSpec => []PersonalSpacesPrivate
<1>1. SpaceInv => PersonalSpacesPrivate
  BY OnePersonal DEF SpaceInv, RowsInv, PersonalSpacesPrivate
<1>2. QED BY <1>1, SpaceInvariant, PTL

\* A call that resolveSpaceForUser lets through works in the space it named, or in
\* the personal space of its user as its owner, and has a participant if it asked for
\* one, whoever made the space and whatever was cut short before.
THEOREM ResolvedSpacesOpen == SpaceSpec => []ResolvedSpaceOpens
<1>1. ASSUME SpaceInv PROVE ResolvedSpaceOpens
  <2>1. SUFFICES ASSUME NEW q \in Requests, reply[q] = "ok", call[q].op = "resolve"
                 PROVE  /\ call[q].space # NoSpace => at[q] = call[q].space
                        /\ call[q].space = NoSpace =>
                             at[q] \in PersonalOf(User(q)) /\ members[at[q]][User(q)] = "owner"
                        /\ members[at[q]][User(q)] # "none"
                        /\ call[q].participant => selves[at[q]][User(q)] # "none"
    BY DEF ResolvedSpaceOpens
  <2>2. /\ call[q] \in Calls /\ at[q] \in SpaceIds /\ members[at[q]][User(q)] # "none"
        /\ Resolved(q) /\ (call[q].participant => selves[at[q]][User(q)] # "none")
    BY <1>1, <2>1 DEF SpaceInv, Standing
  <2>3. User(q) \in Users
    BY <2>2, SpaceData, CallFields DEF User
  <2>4. QED
    BY <1>1, <2>1, <2>2, <2>3, SpaceData DEF SpaceData, SpaceInv, RowsInv, Resolved, IsPersonalOf, PersonalOf
<1>2. QED BY <1>1, SpaceInvariant, PTL

\* Through all additions, which check, read and commit in separate steps, the creator
\* of a shared space owns it and every member has a participant (addAccountMember).
THEOREM SharedSpacesStayStaffed == SpaceSpec => []SharedSpacesStaffed
<1>1. SpaceInv => SharedSpacesStaffed
  BY DEF SpaceInv, RowsInv, SharedSpacesStaffed
<1>2. QED BY <1>1, SpaceInvariant, PTL

\* No call takes a role away or makes another of it: an addition writes back the role
\* it read, and that one has not changed since (addAccountMember).
THEOREM RolesAreKept == SpaceSpec => RolesStand
<1>1. SpaceInv /\ [SpaceNext]_vars =>
        [\A s \in SpaceIds, u \in Users :
           members[s][u] # "none" => members'[s][u] = members[s][u]]_vars
  BY SpaceData, NextSpaces DEF Grow
<1>2. QED BY <1>1, SpaceInvariant, PTL DEF SpaceSpec, RolesStand
=============================================================================
