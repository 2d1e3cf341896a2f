-------------------------- MODULE MCSpaceMembership --------------------------
(***************************************************************************)
(* Small instances of SpaceMembership: ann and bob, each with a personal   *)
(* space, and a space they may share.                                      *)
(***************************************************************************)
EXTENDS SpaceMembership, TLC

CONSTANTS ann, bob, s1

Use(u, s)   == [op |-> "resolve", user |-> u, space |-> s, participant |-> TRUE]
Found(u, m) == [op |-> "create", user |-> u, space |-> NoSpace, invited |-> m]
Add(u, s, t) == [op |-> "add", user |-> u, space |-> s, target |-> t]

List(u) == [op |-> "list", user |-> u, space |-> NoSpace]

\* First calls of ann; a space she founds, to which she adds bob, whose use of it
\* they try, and her own space, to which nobody may be added.
AllCalls ==
  {Use(ann, NoSpace), List(ann), Found(ann, {}), Add(ann, s1, bob), Use(bob, s1),
   [op |-> "policy", user |-> ann, space |-> s1]}

\* A member whose participant is deleted is added again.
AddAgain == {Found(ann, {bob}), Add(ann, s1, bob)}

\* Addresses are taken where they can be in the way: nobody but bob is added to a
\* space, and to s1 only.
AddressesInTheWay == \A s \in SpaceIds : taken[s] \subseteq IF s = s1 THEN {bob} ELSE {}
=============================================================================
