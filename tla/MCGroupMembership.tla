-------------------------- MODULE MCGroupMembership --------------------------
(***************************************************************************)
(* Small instances of GroupMembership: ann and bob share the space home,   *)
(* where p1 and p2 stand for them and c1 for a guest; ann owns g1.         *)
(***************************************************************************)
EXTENDS GroupMembership, TLC

CONSTANTS ann, bob, home, away, p1, p2, c1, g1, annMail, bobMail, mail, plain, fancy

Email == (ann :> annMail) @@ (bob :> bobMail)

User(u, l)  == [space |-> home, user |-> u, email |-> Email[u], look |-> l, deleted |-> FALSE]
Guest(s, e) == [space |-> s, user |-> NoUser, email |-> e, look |-> plain, deleted |-> FALSE]
Owner       == [role |-> "owner", status |-> "active"]
Member      == [role |-> "member", status |-> "active"]
Left        == [role |-> "member", status |-> "left"]
Nobody      == [p \in Ids |-> Absent]
NoGroup     == [g \in GroupIds |-> Absent]
NoMember    == [k \in Keys |-> Absent]
Mine        == [space |-> home, creator |-> ann, look |-> plain, archived |-> FALSE,
                deleted |-> FALSE]

\* ann's group, with bob or not; c1 is a guest who is in it, has left it or never was.
\* That ann's participant is fancy marks the behaviours that begin so.
Household == (p1 :> User(ann, fancy)) @@ (p2 :> User(bob, plain))
               @@ (c1 :> Guest(home, mail)) @@ Nobody
Founded ==
  {[participants |-> Household, groups |-> (g1 :> Mine) @@ NoGroup,
    memberships |-> (<<g1, p1>> :> Owner) @@ m @@ NoMember] :
     m \in {<<g1, p2>> :> Member, <<g1, c1>> :> Left,
            (<<g1, p2>> :> Member) @@ (<<g1, c1>> :> Member)}}

\* A space of two with nothing in it yet; in the space away bob makes his first call.
Shared == {[participants |-> (p1 :> User(ann, plain)) @@ (p2 :> User(bob, plain)) @@ Nobody,
            groups |-> NoGroup, memberships |-> NoMember]}

Edit(u, w, a) == [op |-> "editGroup", user |-> u, space |-> home, group |-> g1, who |-> w,
                  look |-> Keep, archive |-> a]
Drop(u)       == [op |-> "dropGroup", user |-> u, space |-> home, group |-> g1]
Found(u, w)   == [op |-> "addGroup", user |-> u, space |-> home, who |-> w, look |-> plain]
Remove(u, p)  == [op |-> "dropParticipant", user |-> u, space |-> home, id |-> p]
Invite(u, s, p, e) == [op |-> "addParticipant", user |-> u, space |-> s, id |-> p, email |-> e,
                       look |-> plain]
Change(u, p, e, l) == [op |-> "editParticipant", user |-> u, space |-> home, id |-> p,
                       email |-> e, look |-> l]

\* What the members of home do with the group and with the guest.
GroupWork ==
  {Edit(ann, {c1}, Keep), Edit(ann, {p2}, FALSE), Edit(ann, Keep, TRUE), Edit(bob, {}, Keep),
   Drop(ann), Remove(bob, c1), Remove(ann, p2), Remove(bob, p1), Change(bob, c1, Keep, fancy)}

\* Guests whose addresses and ids meet, also across spaces, and a group for one.
Guests ==
  {Invite(ann, home, c1, mail), Invite(ann, home, NoId, mail), Invite(bob, home, NoId, bobMail),
   Invite(bob, away, c1, NoEmail), Invite(bob, away, NoId, mail), Change(ann, c1, bobMail, Keep),
   Change(bob, c1, NoEmail, fancy), Remove(ann, c1), Found(ann, {c1}), Edit(ann, {}, TRUE)}

Begun     == Founded \cup Shared
EveryCall == GroupWork \cup Guests

\* Requests keep to the group of a household, or to the guests of a space of two.
OneScenario ==
  {call[q] : q \in Requests} \ {NoCall}
    \subseteq IF participants[p1].look = fancy THEN GroupWork ELSE Guests

ScenarioSpec == GroupInit /\ [][GroupNext /\ OneScenario']_vars

RequestSymmetry == Permutations(Requests)
=============================================================================
