-------------------------- MODULE VersionedLedger --------------------------
(***************************************************************************)
(* What the expense API promises its clients, with every call taking       *)
(* effect in one atomic step: an expense and its shares are one aggregate; *)
(* a create makes version 1, an update or a delete is applied to exactly   *)
(* the version the caller names and makes the next one; a call has at most *)
(* one effect and one answer; an update or a delete that is refused has    *)
(* had none.  ExpenseService is shown to implement it.                     *)
(***************************************************************************)
EXTENDS Naturals

CONSTANTS
  Ids, Requests, Calls,
  NoId, NoMutation, NoCall, Absent, Keep,
  Lawful(_, _),    \* fields and shares that obey the allocation rules
  Revised(_, _)    \* the fields a patch makes of the old ones

VARIABLES
  ledger,    \* ledger[i]: the aggregate with identifier i, or Absent
  asked,     \* asked[q]: the call made by request q, or NoCall
  effect,    \* effect[q]: the version q produced, 0 when it has had no effect
  answer     \* answer[q]: what q's client was told

ledgerVars == <<ledger, asked, effect, answer>>

Refusals == {"conflict", "notFound", "forbidden", "invalid"}
Told(s)  == [status |-> s, id |-> NoId, version |-> 0]
Ok(i, v) == [status |-> "ok", id |-> i, version |-> v]
Pending  == Told("none")

\* The answer of a request that has just had its effect on expense i: success,
\* a failure reported although the effect took place, or nothing yet.
AnsweredWith(q, i, v) ==
  \E a \in {Ok(i, v), Told("error"), Pending} :
    answer' = [answer EXCEPT ![q] = a]

CanTakeEffect(q, op) ==
  /\ asked[q] # NoCall
  /\ asked[q].op = op
  /\ effect[q] = 0
  /\ answer[q] = Pending

-----------------------------------------------------------------------------
LedgerInit ==
  /\ ledger = [i \in Ids |-> Absent]
  /\ asked  = [q \in Requests |-> NoCall]
  /\ effect = [q \in Requests |-> 0]
  /\ answer = [q \in Requests |-> Pending]

Ask(q) ==
  /\ asked[q] = NoCall
  /\ \E c \in Calls : asked' = [asked EXCEPT ![q] = c]
  /\ UNCHANGED <<ledger, effect>>
  /\ \/ UNCHANGED answer
     \/ \E s \in Refusals : answer' = [answer EXCEPT ![q] = Told(s)]

TakeCreate(q) ==
  /\ CanTakeEffect(q, "create")
  /\ \E i \in Ids :
       LET c == asked[q] IN
       /\ c.id \in {NoId, i}
       /\ ledger[i] = Absent
       /\ c.mutation # NoMutation =>
            \A j \in Ids : ledger[j] # Absent =>
              <<ledger[j].space, ledger[j].mutation>> # <<c.space, c.mutation>>
       /\ Lawful(c.fields, c.shares)
       /\ ledger' = [ledger EXCEPT ![i] =
            [space   |-> c.space,  mutation |-> c.mutation, creator |-> c.user,
             version |-> 1,        deleted  |-> FALSE,      fields  |-> c.fields,
             shares  |-> c.shares]]
       /\ effect' = [effect EXCEPT ![q] = 1]
       /\ AnsweredWith(q, i, 1)
  /\ UNCHANGED asked

\* The aggregate a request may change: live, in the caller's space, and at
\* the version the caller named.
Current(q) ==
  LET c == asked[q] IN
  /\ ledger[c.id] # Absent
  /\ ledger[c.id].space = c.space
  /\ ~ledger[c.id].deleted
  /\ ledger[c.id].version = c.expected

TakeUpdate(q) ==
  /\ CanTakeEffect(q, "update")
  /\ Current(q)
  /\ LET c   == asked[q]
         old == ledger[c.id]
         new == [old EXCEPT !.fields  = Revised(c.patch, old.fields),
                            !.shares  = IF c.shares = Keep THEN old.shares ELSE c.shares,
                            !.version = c.expected + 1]
     IN  /\ Lawful(new.fields, new.shares)
         /\ ledger' = [ledger EXCEPT ![c.id] = new]
         /\ effect' = [effect EXCEPT ![q] = new.version]
         /\ AnsweredWith(q, c.id, new.version)
  /\ UNCHANGED asked

TombstoneOf(aggregate, v) == [aggregate EXCEPT !.deleted = TRUE, !.version = v]

TakeDelete(q) ==
  /\ CanTakeEffect(q, "delete")
  /\ Current(q)
  /\ LET c == asked[q] IN
       /\ ledger' = [ledger EXCEPT ![c.id] =
            TombstoneOf(ledger[c.id], c.expected + 1)]
       /\ effect' = [effect EXCEPT ![q] = c.expected + 1]
       /\ AnsweredWith(q, c.id, c.expected + 1)
  /\ UNCHANGED asked

\* A create is acknowledged only when the ledger holds an expense that was
\* created, in the caller's space, under the identifiers the caller sent.
HoldsCreated(q, i) ==
  LET c == asked[q] IN
  /\ ledger[i] # Absent
  /\ ledger[i].space = c.space
  /\ c.id \in {NoId, i}
  /\ c.mutation \in {NoMutation, ledger[i].mutation}

\* The answers that go with no effect of their own.
Acknowledge(q) ==
  /\ asked[q].op = "create"
  /\ \E i \in Ids :
       /\ HoldsCreated(q, i)
       /\ \E v \in 1 .. ledger[i].version :
            answer' = [answer EXCEPT ![q] = Ok(i, v)]

Refuse(q) ==
  /\ asked[q].op # "create" => effect[q] = 0
  /\ \E s \in Refusals : answer' = [answer EXCEPT ![q] = Told(s)]

Fail(q) ==
  \E s \in {"error", "lost"} : answer' = [answer EXCEPT ![q] = Told(s)]

Reply(q) ==
  /\ asked[q] # NoCall
  /\ answer[q] = Pending
  /\ Acknowledge(q) \/ Refuse(q) \/ Fail(q)
  /\ UNCHANGED <<ledger, asked, effect>>

LedgerNext ==
  \E q \in Requests : Ask(q) \/ TakeCreate(q) \/ TakeUpdate(q)
                      \/ TakeDelete(q) \/ Reply(q)

LedgerSpec == LedgerInit /\ [][LedgerNext]_ledgerVars
=============================================================================
