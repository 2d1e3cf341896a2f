--------------------------- MODULE ExpenseRecords ---------------------------
(***************************************************************************)
(* The values the expense ledger is made of: the columns of an expense     *)
(* row, the shares of its split rows, and the three calls a client makes   *)
(* on them (apps/api/src/services/expense.service.ts, dto/expense.dto.ts). *)
(* Description, currency, date, payer, notes and the other free columns    *)
(* are one abstract value "details": no property tells them apart.         *)
(***************************************************************************)
EXTENDS Naturals, FiniteSets, Functions

CONSTANTS
  Users, Spaces, Participants, Categories, Details,
  Ids,          \* expense identifiers (primary keys)
  Mutations,    \* client mutation identifiers
  NoId,         \* the payload carries no expense id
  NoMutation,   \* the payload carries no client mutation id
  NoCategory,   \* the row has, or the payload names, no category
  Keep,         \* a field the update payload leaves undefined
  Absent,       \* there is no row
  MaxCents      \* MAX_SAFE_CENTS, the largest amount or share

ASSUME MaxCentsIsPositive == MaxCents \in Nat \ {0}

ASSUME SentinelsAreFresh ==
  /\ NoId \notin Ids
  /\ NoMutation \notin Mutations
  /\ NoCategory \notin Categories
  /\ Keep \notin Details \cup Categories \cup {NoCategory}

SplitTypes == {"equal", "custom", "percentage"}
Cents      == 1 .. MaxCents

\* One split row, possibly of nothing, per participant in the domain.
Shares == UNION {[S -> 0 .. MaxCents] : S \in SUBSET Participants}

ASSUME KeepIsNoData == Keep \notin SplitTypes /\ Keep \notin Cents /\ Keep \notin Shares

NoShares == [p \in {} |-> 0]

Fields == [amount    : Cents,
           splitType : SplitTypes,
           category  : Categories \cup {NoCategory},
           details   : Details]

Patches == [amount    : Cents \cup {Keep},
            splitType : SplitTypes \cup {Keep},
            category  : Categories \cup {NoCategory, Keep},
            details   : Details \cup {Keep}]

\* A row of the table expenses; its split rows are kept apart from it.
Rows == [space    : Spaces,
         mutation : Mutations \cup {NoMutation},
         creator  : Users,
         version  : Nat \ {0},
         deleted  : BOOLEAN,
         fields   : Fields]

\* A row and its split rows as one aggregate.
Aggregate(row, shares) ==
  [space   |-> row.space,   mutation |-> row.mutation, creator |-> row.creator,
   version |-> row.version, deleted  |-> row.deleted,  fields  |-> row.fields,
   shares  |-> shares]

Aggregates == [space    : Spaces,
               mutation : Mutations \cup {NoMutation},
               creator  : Users,
               version  : Nat \ {0},
               deleted  : BOOLEAN,
               fields   : Fields,
               shares   : Shares]

ASSUME AbsentIsNoRow == Absent \notin Rows /\ Absent \notin Aggregates

CreateCalls == [op       : {"create"},
                user     : Users,
                space    : Spaces,
                id       : Ids \cup {NoId},
                mutation : Mutations \cup {NoMutation},
                fields   : Fields,
                shares   : Shares]

UpdateCalls == [op       : {"update"},
                user     : Users,
                space    : Spaces,
                id       : Ids,
                expected : Nat,
                patch    : Patches,
                shares   : Shares \cup {Keep}]

DeleteCalls == [op       : {"delete"},
                user     : Users,
                space    : Spaces,
                id       : Ids,
                expected : Nat]

-----------------------------------------------------------------------------
(* The allocation rules of ensureSplitsConsistency.                        *)

ShareTotal(shares) == FoldFunction(+, 0, shares)

Balanced(amount, shares) == ShareTotal(shares) = amount

\* Every share is the floor of the even share or one cent more; with the
\* total fixed, exactly the remainder of the shares get the extra cent.
EvenShares(amount, shares) ==
  LET base == amount \div Cardinality(DOMAIN shares)
  IN  \A p \in DOMAIN shares : shares[p] \in {base, base + 1}

Consistent(fields, shares) ==
  /\ Balanced(fields.amount, shares)
  /\ fields.splitType = "equal" => EvenShares(fields.amount, shares)

-----------------------------------------------------------------------------
(* What an update payload makes of a row.                                  *)

Chosen(new, old) == IF new = Keep THEN old ELSE new

\* A null category becomes undefined before the UPDATE, and the query builder
\* leaves an undefined column out of its SET list: the stored one stays.
Merge(patch, fields) ==
  [amount    |-> Chosen(patch.amount, fields.amount),
   splitType |-> Chosen(patch.splitType, fields.splitType),
   category  |-> IF patch.category = NoCategory THEN fields.category
                 ELSE Chosen(patch.category, fields.category),
   details   |-> Chosen(patch.details, fields.details)]

=============================================================================
