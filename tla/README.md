# A verification of the expense application

This directory holds TLA+ models of the expense application of this repository,
the TLC configurations that check them, and proofs that TLAPS checks. It says
what the concurrent parts of the application promise, and shows on small
instances, or for every size, that the code keeps the promise, or where it does
not.

## 1. The system

The repository is a monorepo: a NestJS API on PostgreSQL (`apps/api`), an Expo
mobile client with local stores (`apps/mobile`), a placeholder for a web client,
and a large developer tool, the workflow engine (`packages/workflow-engine`),
with its policies and documents.

| Component | State | Operations | Talks to |
|---|---|---|---|
| Expense service, `apps/api/src/services/expense.service.ts` | tables `expenses`, `expense_splits` | create, update, delete; list, get, statistics | PostgreSQL through TypeORM; categories, groups and participants by query; ledger service |
| Change feed, `expense-sync.service.ts`, `sync-cursor.ts` | none of its own: reads the two tables | `listChanges(after, limit)` | devices, by cursor |
| Category service, `category.service.ts` | table `categories` | create, update, delete, list | counts rows of `expenses`; ledger service |
| Ledger service, `ledger.service.ts` | tables `couples`, `couple_members`, `participants`, default categories | resolve a space and a caller's role in it; create or repair the personal space; restore the caller's participant; seed the default catalog | called first by every handler |
| Space service, `space.service.ts` | `couples`, `couple_members`, `participants` | create a shared space, add members, change the sync policy | ledger service |
| Participant, group services | `participants`, `expense_groups`, `group_members` | create, update, delete, sync members | one another, ledger service |
| Personal ledger | none | a projection over all spaces of a user | four queries |
| Authentication, users | `users`, tokens | register, log in, settings | libraries |
| Schema, migrations 001-009 | constraints, triggers, `updated_at` | | every table |
| Mobile sync adapter, `apps/mobile/src/sync/expenseSync.ts` | none | maps local expenses to requests and feed records to local expenses | no transport exists yet |
| Mobile stores, `apps/mobile/src/store` | five persisted Zustand stores, a coalescing write queue | add, edit, delete, hydrate, flush | AsyncStorage |
| Mobile calculations | none | shares, balances, insights | the stores |
| Workflow engine: sessions and locks, `runtime/session-workspace`, `filesystem-safety.ts`, `execute-task/session.ts` | lock files, claims, session files | publish, reclaim, release a lock; start, abort and end a session; transitions of a change | processes through the file system only |
| Workflow engine: finalize, `application/finalize`, `runtime/repository-transaction` | finalize journal, cancellation records, reports, session file; worktree, index and branch | finalize, recover, cancel, commit | git; the user and the reviewer, who take no lock |
| Workflow engine: the rest | journals of providers, investigations, authority | plan, review, provider execution and retries, archive | git, processes, providers |

What is hard in it:

* The API runs each request as a chain of awaits; between two of them other
  requests run. Row locks exist only inside one transaction, so everything a
  handler read before is possibly stale: an expense and its splits (two
  queries), a category, a membership.
* Clients are offline first: they make identifiers themselves, send a create
  again when its answer is lost, and edit the version they last saw.
* TypeORM's `save` of an entity with an id is a SELECT followed by an INSERT or
  an UPDATE; what looks like an insert can overwrite.
* `updated_at` is the start of the writing transaction, while the feed pages by
  it as if it were the order of commits.
* Deletions are tombstones; uniqueness and foreign keys see them, most queries
  do not.
* The commands of the workflow engine are processes that may die between any two
  file system calls, and that share nothing but files. Their locks are files that
  somebody else must remove when the owner is dead, and only then.
* A finalize changes documents, index and branch of a worktree that the user
  edits meanwhile, and must be resumable, or undone, from its journal.

What makes each component correct, and the hazards that endanger it, are listed
with their lines in `PROJECT.json` under `hazards`; each one names the
properties that cover it, or says why none does.

## 2. The modules

| Module | Models | Kind |
|---|---|---|
| `ExpenseRecords` | rows, shares, the three calls, allocation rules, what a patch does to a row | data |
| `ExpenseService` | the three handlers of the expense service | state machine |
| `VersionedLedger` | what the expense API promises: every call takes effect at once | abstract specification |
| `ExpenseServiceProofs` | type correctness, safety invariants, action properties; `ExpenseService` implements `VersionedLedger` | proofs |
| `ExpenseSyncFeed` | writers' transactions, pages of the feed, a device with a cursor | state machine |
| `ExpenseSyncFeedProofs` | what a device can miss, that it never goes back | proofs |
| `CategoryService` | the three handlers of the category service and the default catalog | state machine |
| `ExpenseCategories` | the expense service and the category service on one database | composition |
| `ExpenseCategoriesProofs` | unique names; each service keeps what the other assumes; a deleted category in use takes a race | proofs |
| `SpaceMembership` | the resolution of a space, which every call begins with, and the space service | state machine |
| `SpaceMembershipProofs` | personal spaces stay single and private, shared ones staffed, roles are kept | proofs |
| `GroupMembership` | the handlers of the participant and group services | state machine |
| `GroupMembershipProofs` | members stay in their space, addresses unique, groups owned, who is deleted leaves | proofs |
| `ExclusiveLock` | what a lock file promises | abstract specification |
| `PreparedLock` | lock files, call by call, with processes that die | state machine |
| `PreparedLockProofs` | mutual exclusion, and that `PreparedLock` implements `ExclusiveLock` | proofs |
| `SessionLocks` | the lock of a change, its transitions and its sessions | state machine |
| `SessionLocksProofs` | sessions keep their lock, transitions are alone | proofs |
| `FinalizeTransaction` | finalize, recover, cancel and commit of a session, with edits and crashes | state machine |
| `FinalizeTransactionProofs` | only checked trees are committed, nothing projected is forgotten | proofs |
| `MC...` | scenarios and constants for TLC | |

### ExpenseService

A request `q` stands at the await `pc[q]`. `call[q]` is its payload, `target[q]`,
`seen[q]` and `seenShares[q]` are the expense, the row and the split rows it has
read; `failure[q]` is the error of its transaction that its catch clause looks
at; `applied[q]` is a history variable, the version it committed.

| Action | Code |
|---|---|
| `Receive` | `resolveSpaceForUser`: only members find the space |
| `FindById`, `FindByMutation` | the two lookups of a create, before it and in its catch clause |
| `ResolveReplay` | `resolveCreateReplay`: reads the splits, compares, answers |
| `ValidateCreate`, `ValidateUpdate` | category, group, payer, participant and split checks |
| `FindForSave`, `CommitCreate` | `save` inside the transaction: its SELECT, then the rest up to COMMIT |
| `ReadExpense`, `ReadSplits` | the two queries of an update, the one of a delete, with version and permission checks |
| `CommitUpdate`, `CommitDelete` | the transaction of an update, the statement of a delete |
| `Crash` | the process or the connection is gone |
| `ChangeCategories` | the category service, as far as the expense service sees it |

A transaction is one step: its first statement locks the row it writes, and
nothing of it is seen before it commits. The exception is the SELECT of `save`,
which locks nothing and is a step of its own. A commit may be reported as an
error (`committed, not acknowledged`): that is what a lost connection looks like
to the handler, and a create then goes through its catch clause. Every commit may also
fail for a reason of its own (`rolled back`).

Constraints are modelled where they decide something: the primary key, the
unique index on client mutation ids, the composite foreign keys of splits and of
categories, uniqueness of a participant among splits, and the two deferred balance
triggers of migration 009. TypeORM is external to this repository; what the
model says of it is: `save` looks the row up by primary key, deleted or not;
it writes the defined columns that differ from the row it found; the query
builder increments the version column and leaves undefined columns out. So
an update that clears the category with `null` leaves the old category
(`Merge`), because the service turns `null` into `undefined`.

Abstracted: description, currency, date, payer, notes are one value `details`;
percentages are not kept, so a percentage split is any split that totals its
amount; the checks of groups, payers and participants may pass or refuse; an
equal split is checked up to the order of the rows (an update that keeps its
splits may be refused because the rows came back in another order). Roles do not
change while the requests run.

### VersionedLedger

The promise: one aggregate per expense, calls that take effect in one step, on
exactly the version they name; a create inserts version 1 and no two creates of
a space share a mutation id; an update or delete that is refused had no
effect. `ExpenseService!ImplementsLedger` is the refinement; the mapping joins a
row with its split rows and takes `applied` for the effect.

### ExpenseSyncFeed

`Begin` takes the timestamp, `Commit` writes it. `ReadRows` is the first query
of a page: those of the rows after the cursor (`Later`) that have fewer than the limit
ahead of them in feed order (`OnPage`); `page` is the set of them, its order being that of
`InFeedOrder`. `Deliver` is the second query, with the device applying page and cursor at
once (as the specification of the client asks; the device is external, only its
mapping exists in the repository). `Drop` loses the page. `overlapped` is a
history field of a row: a page was read while the transaction that wrote it was
open.

### CategoryService and ExpenseCategories

Every await of the three handlers is a step, and so are the two statements of
`save`. There is no version: a handler saves the entity it has read. `catalog`
is the table, `entity[q]` what `q` will save, `found[q]` the row its save found.
The default catalog is one category.

`ExpenseCategories` instantiates both services over one database. Each sees a
view of the other's table, and each has an environment action that says what
it assumes of the other (`ChangeCategories`, `ChangeUses`). The composition is
checked against both specifications: every step of one service is a step, or an
allowed step of the environment, of the other.

### SpaceMembership

`spaces` and `members` are the tables of spaces and of their members, `selves` the
participants that stand for users, and `taken` the users whose address another live
participant of a space has. `at[q]` is the space a request has resolved,
`todo[q]` the spaces it is still to visit, `seen[q]` what an addition has read.

| Action | Code |
|---|---|
| `Receive`, `Authorize` | `resolveSpaceForUser` with a space: its creator or a member |
| `FindPersonal`, `InsertSpace`, `LookupPersonal` | `ensurePersonalSpaceForUser`: look, insert, and look again when the unique index says somebody was faster |
| `FindOwner`, `InsertOwner` | the save of the owner's membership, which is not in a transaction with the space |
| `FindSelf`, `InsertSelf` | `ensureParticipantForUser` |
| `ListSpaces`, `Visit` | `listSpacesForUser` and `ensureCurrentParticipantId` for each space |
| `ChangePolicy` | `updateSyncPolicy` |
| `CreateShared` | `createSharedSpace`: one transaction |
| `CheckAdd`, `ReadMember`, `ReadSelf`, `CommitAdd` | `addAccountMember`: the checks before its transaction, the two reads and the writes in it |
| `ChangeSelves` | the participant service, called by a member with a participant: it deletes participants or brings them back (`DeleteOrRevive`), and gives a guest, say, the address of a user or takes it away (`TakeOrFree`) |

An address is live once in a space (`UQ_participants_couple_email_active`): `InsertSelf`
and `CommitAdd` fail when it is taken (`AddressFree`, `AddressFits`).

A deleted participant is given the `deletedAt` undefined, which `save` leaves out
of its UPDATE: `FindSelf` and `AddedSelf` leave it deleted. The spaces of a list
are visited one after the other in any order; the code visits them in a
`Promise.all`, but each visit only reads, or inserts rows of its own
space. A sync policy, a status other than active and an invitation are not in the
state: no call of the repository writes them.

### GroupMembership

`participants`, `groups` and `memberships` are the tables; `me[q]` is the
participant of the caller, `entity[q]` the entity a handler is to save, `known[q]`
the memberships it has read, `roster[q]` those the group is to have. That the caller
is a member of the space is taken from `SpaceMembership`.

| Action | Code |
|---|---|
| `FindSelf`, `InsertSelf` | `ensureParticipantForUser` |
| `FindById`, `CheckEmail`, `ResolveReplay` | the lookups of `createParticipantForUser`, before its save and in its catch clause |
| `ReadParticipant`, `SaveParticipant` | `updateParticipantForUser`, `deleteParticipantForUser`, and the save all three end with |
| `ReadGroup`, `AssertOwner`, `Validate` | the reads and checks of `updateGroupForUser` and `deleteGroupForUser` |
| `InsertGroup` | the first save of `createGroupForUser` |
| `ReadMembers`, `AddMembers`, `ChangeMembers`, `RemoveMembers` | `syncGroupMembers` and its three saves, and the only save of members of a creation |
| `SaveGroup`, `Leave` | the save of the group; the save that ends memberships when a group or a participant is deleted |

No handler uses a transaction, so that each save is a step. It is one
step, with its SELECT, which is why the columns it writes are not fixed:
those the call has set, and of the other columns the entity defines any that
differs from the row, since another request may have changed it between the
two. A creation whose row appears between the two fails.
`disturbed` and `raced` are history variables.

### PreparedLock

One lock path. A process `p` stands at the file system call `pc[p]`. `lock` is
the file the path names, `temps` the files whose owner's temporary path still
names them, `claims` the processes whose reclaim directory exists. Files are
inodes: a file that nothing names and nobody has open may be used again (`Free`),
which is why the code compares inodes of files it holds open.

| Action | Code (`filesystem-safety.ts`) |
|---|---|
| `Create`, `Link`, `UnlinkTemporary`, `Verify` | `publishPreparedExclusiveLock`, in its order |
| `Withdraw`, `CompareOwn`, `UnlinkOwn`, `UnclaimOwn`, `Discard` | its catch clause: a linked lock is taken back under a claim, an unlinked one is discarded |
| `ListClaims`, `JudgeClaim`, `FailScan`, `EndScan` | `clearDeadPreparedLockReclaimClaims`: before the link, after it, and before a claim; it throws if a claim goes away while it is looked at |
| `Look`, `Open`, `Judge`, `Claim`, `Compare`, `UnlinkDeadTemporary`, `UnlinkDead`, `EndReclaim` | `reclaimDeadPreparedLock` |
| `AssertOwned`, `Release` | `assertOwned`, the release of session and repository locks |
| `Die` | a process is killed; files stay, descriptors do not |

`ReclaimFirst` tells the two uses of a lock apart: change locks are reclaimed
and then published once; operation and repository locks are published, and
reclaimed and published again after a conflict. Abstracted: modes, links and
contents that only a foreign program would write (`unsafe`), fsync (a crash is
that of a process, not of the machine), pids that are used again.

### SessionLocks

One change with its lock file, its sessions, and commands. `step[c]` is where a
command stands, `purpose[c]` what it is for. The repository lock and the
operation locks of sessions are exclusive locks that a dead command loses, which
is what `PreparedLock` shows; under them the publication and the reclaim of the
change lock are single steps. The release of a session's lock is not, as
`releaseOwnedLock` runs under no lock but a claim: it is read, compared and
unlinked in three steps.

| Action | Code |
|---|---|
| `Enter`, `Leave` | `withRepositoryLifecycleOperation` |
| `ReadLock`, `ReclaimDead` | `reclaimDeadChangeTransitionLock`: the lock of an ended session, of a dead command |
| `PublishTransition`, `CheckSessions`, `Operate`, `Unlock` | `withChangeTransitionLock` and the authorities built on it |
| `PublishSession`, `WriteSession`, `RemoveSession` | `persistSessionStart` and its catch clause |
| `EndSession`, `ReadSession`, `WriteEnd` | abort (`abortSessionUnlocked`) and commit (`finalizeCommittedSession`) |
| `ClaimLock`, `ReadOwner`, `Unlink`, `UnclaimLock` | `releaseOwnedLock` |
| `Exit` | a command ends or dies |

### FinalizeTransaction

One session. `work` and `text` are the worktree (the implementation, and the
files a finalize projects), `index` and `head` the git index and branch.
`journal` is the durable transaction, `finish` the finish reports, `cancellation` the
cancellation records. `at` is where the command stands that has the session's
operation lock; there is one at a time. The user (`Edit`, `UndoEdit`), the
reviewer (`Review`) and the death of the command (`Die`) come at any step.
A tree is a version of the work and the text of each projected file.

| Action | Code |
|---|---|
| `Publish`, `Resume` | `finalizeTaskUnlocked`, without and with a journal |
| `CheckBase`, `Apply`, `Prepare` | `applyPreparedFinalizeProjection` |
| `Inspect`, `InspectFails` | `inspectFinalizeTransaction` and the loop of `continueFinalizeTransaction` |
| `StartChecks`, `EndChecks` | `executeChecks` and the comparison after it |
| `Stage`, `Add`, `Verify`, `AdvanceStaged` | `stageExactPaths` around the `git add` it runs |
| `Report`, `Pointers`, `Complete` | the reports, the session that names them, the last phase |
| `RestoreIndex`, `RestoreFile`, `Discard` | `rollbackPersistedFinalizeTransaction` |
| `Cancel`, `MarkRestored`, `Archive`, `Drop` | `cancelFinalizeRecovery` |
| `BeginCommit`, `Commit`, `UpdateRef`, `RecordCommit` | `commitSessionUnlocked`, `resumePendingCommit`, `finalizeCommittedSession` |
| `Abort` | `abortSessionUnlocked` |

`tested` and `runs` are history variables. Abstracted: what a fingerprint or a
tree is computed from; reports other than the finish report; reconciled
predecessor tasks; the mandates and policies that may refuse a command before it
does anything.

## 3. What the runs check

| Run | Question | Bounds |
|---|---|---|
| `requests` | Do concurrent creates, retries, edits, re-splits and deletions keep rows, shares, versions and spaces right, does a create ever change a row that is there, and do the handlers implement the abstract ledger? | 3 requests in one space, or across two while a category moves; 2 expenses, 2 mutation ids, amounts to 3 |
| `feed` | What can a device miss, mix or lose? | 2 expenses of 2 versions, 2 amounts, 2 writers, pages of one, 5 clock readings |
| `categories` | Does each service keep what the other assumes, do active names stay unique, and when can a live expense have a deleted category? | 2 expense and 2 category requests over 2 spaces, or 3 category requests alone with 2 names |
| `locks` | Do lock files exclude, whatever dies when? Can a lock always be had again? Does a change's lock stay with its session? | lock files: 2 processes that may die and one that has died, leaving lock, temporary and claim in any combination, 3 files. Change lock: 2 commands, 2 sessions |
| `finalize` | What can be committed, what can be left behind, what ends? | 1 transaction, 1 document besides the task file, 2 versions of the work, 2 edits, 1 crash |
| `calls` | Is there one personal space per user, is every call let into its own, and does a call succeed whatever was left unfinished? Is every request on expenses answered? | spaces: 3 requests of 6 calls by 2 users, 2 spaces, any deletions of participants, the address of the one who may be added free or taken. Expenses: 2 requests over creates, edits and deletions, a category that comes and goes |
| `groups` | What do chains of saves leave of groups, members, owners and addresses? | 3 requests on one group with a guest, or on the guests of two spaces and two groups |
| `create_retried`, `feed_tombstones`, `finalize_abort`, `member_added_again`, `group_deleted` | five statements of the repository that do not hold, see section 5 | |

The bounds are small because the properties speak of pairs: of two writers of one
expense, two creates with one id, a writer and a page, a reclaimer and a
publisher, a rollback and an edit. Two requests make each conflict, a third makes
the state it starts from (the create, an earlier edit, a tombstone); in `locks`
that third is the process that died. The proofs of section 4 do not depend on
the bounds. In `feed` a page of one is the hardest page: it ends after every
row, in the middle of every group of equal timestamps. In `finalize` a second
transaction starts from where the first one started, once it is undone; the
inductive invariant of the proof was also checked with two of them.

`requests`, `categories` and `groups` restrict each behaviour to one of several scenarios
(`ScenarioSpec`), and `locks` and `calls` to one of two parts that share no variable:
each is one search for several small questions, not a composition. `create_retried`
lets one request run at a time.

In `groups` a behaviour begins with a group, its owner and a guest that is in it,
was in it or never was, or with two members and nothing else, so that three requests reach
what would take five. In `calls` every behaviour begins with empty tables.

The requests of a run are interchangeable, and so are its writers and the
identifiers the database makes up: the runs of safety properties take them as
symmetry sets, the runs with liveness properties take none.

Deadlock is not checked: a run has finitely many requests, clock readings,
sessions or transactions, processes die for good, and it stops when they are
used up.

Fairness:

* `calls`: weak fairness of the handler of each request, without its arrival
  and its crash. The event loop runs the continuation of an await that has
  settled, and every query settles. `LoneCallSucceeds` is about a call that runs alone:
  of two first calls that meet at the owner's membership one may be answered with an
  error. It excepts the addition of an account whose address another participant of
  the space has.
* `locks`: weak fairness of each process or command that has begun, without its
  beginning and its death. The operations are synchronous calls: they go on
  until they return, throw or are killed. `LoneRequestSucceeds` and
  `LoneTransitionOperates` then say that nothing a dead process left keeps the
  next one out. They say it of one that is alone: among several, each may find
  the others in the way and give up, which is the answer the code means to give.
* `finalize`: weak fairness of the command that runs. A command is a process
  the user starts, and no scheduler starts it again: that the user does so again
  and again (recover, cancel, commit), puts back what an error names, and that the
  reviewer answers, is assumed (strong fairness, since each is possible only
  between two commands). `docs/WORKFLOW.md:967-974` asks them to correct the authorized
  input and to run the command again; that they put back the index and the branch as well
  is less explicit there.

Each property has a mutant in `PROJECT.json`: a plausible mistake in the code
(a WHERE clause without its version, a reclaimer that closes the dead lock before
it compares, a phase journalled after its effect) under which TLC finds it
violated.

## 4. What is proved

Assumed are the named assumptions of the modules only: sentinels are not data,
calls are well formed, roles are roles, bounds are numbers, the expenses of a feed are
finitely many. TLC evaluates each of them on every run of its module.

Every invariant and every action property that a passing run checks is also a
theorem here. The runs came first: a conjunct of an inductive invariant that
was not obvious was checked by TLC before its proof was written.

### The expense service

For every set of requests, calls, users, spaces, expenses and every largest
amount:

| Theorem | States |
|---|---|
| `TypeCorrect` | `TypeOK` |
| `StoredSharesConsistent` | `SplitsConsistent` |
| `ReadsCurrent` | `SnapshotsCurrent` |
| `TriggersSilent` | `BalanceTriggersSilent` |
| `DeletedStaysDeleted` | `TombstonesFinal` |
| `CreatesOnlyInsert` | `CreatesNeverOverwrite` |
| `CategoriesKeepSpace` | `CategoriesOfTheirSpace` |
| `UpdatesNotLost` | `NoLostUpdate` |
| `CreatesIdempotent` | `CreateIsIdempotent` |
| `RequestsKeepToTheirSpace` | `SpacesIsolated` |
| `ServiceImplementsLedger` | `ImplementsLedger` |

The argument. Three facts are proved together, as each needs the others:

1. Types, with what each program counter implies of a request's variables.
2. `LedgerInv`: stored shares are consistent; a request that has read a row and
   finds the version unchanged holds the current row and, once it has read
   them, the current split rows; what it has validated is consistent. The
   version is the only thing compared at commit, and it stands for both tables
   because every change of a row or of its shares increments it.
3. `SaveNeedsNoRow`: a create whose save finds a row would add its shares to the
   shares that are there. The stored ones total the stored amount, new
   shares cannot be empty, so either the triggers or a unique constraint undo
   it. This needs fact 2, and it is why a create only ever inserts, although
   nothing in the handler says so.

The other theorems follow with an invariant each: versions named and produced by
committed requests are below the stored version and distinct (`UpdatesNotLost`);
every acknowledged create is witnessed by a row of its space that carries its
mutation id, and every one that took effect by a row that is as it was stored or has a
higher version, while a create that was refused as a conflict has met a row that no
insertion of the same call gets past (`CreatesIdempotent`); the refinement maps each commit to the
abstract effect and every other step to an answer or a stutter.

### The change feed

For any number of expenses, versions, amounts and writers, every page limit and every
bound of the clock:

| Theorem | States |
|---|---|
| `FeedInvariant` | `FeedInv` |
| `TypeCorrect` | `TypeOK`, the page limit included |
| `NothingElseIsMissed` | `OnlyOverlappedChangesAreMissed` |
| `MixedCopiesAreFollowed` | `MixedCopiesHeal` |
| `NothingLeftIsCaughtUp` | `CaughtUp` |
| `RowClockMonotonic` | `RowClockNeverGoesBack` |
| `ReplicaMonotonic` | `ReplicaNeverGoesBack` |

The cursor is a position in the order of timestamps, while changes become visible
in the order of commits; that nothing is missed but by an overlap has to relate
the two. `TxnInv` does: a transaction that can still commit and that no page has
overlapped began after the cursor's time and after every row of the page in hand,
so that what it writes comes after both. `PageInv` says what a page that was read some
commits ago is still good for, `CoverInv` that what the device lacks is on that page or
after all of it, `ClockInv` and `TableInv` that no version or time is known before it
exists. `OnlyOverlappedChangesAreMissed` is needed to prove the others and is a conjunct of `FeedInv`.
That a page cut at the limit leaves nothing behind it uncovered is a
fact about `OnPage`: whoever is off the page is behind everyone on it. Its size
is bounded by counting: no two rows have equally many ahead of them, and those on the page have
fewer than the limit (`PageSize`), for which `Ids` has to be finite.

`CaughtUp` is what a client may conclude from an answer with no rows: it holds
the current version of every expense, but for the overlapped ones.

### The category service, alone and beside the expense service

For every set of requests, calls, spaces, names and identifiers; the first two for
every use that expenses may make of categories, the others for the composition:

| Theorem | States |
|---|---|
| `CategoryTypeCorrect` | `TypeOK` of `CategoryService` |
| `NamesUnique` | `ActiveNamesUnique` of `CategoryService` |
| `CategoryAssumptionsHold` | `CategorySideHolds` |
| `ExpenseAssumptionsHold` | `ExpenseSideHolds` |
| `ActiveNamesStayUnique` | `ActiveNamesUnique` of `ExpenseCategories` |
| `DanglingNeedsRace` | `DanglingOnlyByRace` |

Every save of a category writes an entity that was read, and checked against names
that were read, in earlier steps; nothing of that is current when it writes. The invariant
(`CategoryInv`) says where a request's entity comes from, and that only the entity of a
deletion is marked as deleted; uniqueness itself rests on the index alone.

The composition is an assume/guarantee argument. Each service was specified with an
environment; neither proof may assume that the other keeps to it. `JointInv` is the
category service's invariant and the part of the expense service's that concerns
rows and categories, and `NextMaps` shows under it that each step of either service is one
of its own specification and one of the environment of the other. So both
specifications are implemented at once, and what was proved of a service
alone holds beside the other: `ActiveNamesStayUnique` is `NamesUnique` carried over in this
way. `DanglingNeedsRace` needs both: `RaceInv` says that from the moment a
deletion has counted, every live expense of its category was stored since. It holds because
nothing else marks a category as deleted, neither an update's stale save nor a creation
that meets a row of its own id.

### Spaces

For every set of users, spaces, requests and calls:

| Theorem | States |
|---|---|
| `SpaceTypeCorrect` | `SpaceTypeOK` |
| `PersonalSpacesStayPrivate` | `PersonalSpacesPrivate` |
| `ResolvedSpacesOpen` | `ResolvedSpaceOpens` |
| `SharedSpacesStayStaffed` | `SharedSpacesStaffed` |
| `RolesAreKept` | `RolesStand` |

`SpaceInv` has what the tables say of each other (`RowsInv`) and what a request
knows at each of its awaits (`Standing`). What a request knows was read in earlier
steps: it stays true because tables only grow (`Grow`, proved of every step), and that is
also all that makes an addition sound whose owner check is outside its
transaction: nobody becomes the owner of a space that is there, so that a
membership that was not found is at most one of a plain member by the time it is written.

### Groups and participants

For any number of requests, and all calls, users, spaces, groups and addresses:

| Theorem | States |
|---|---|
| `GroupTypeCorrect` | `GroupTypeOK` |
| `MembersStayInSpace` | `MembersOfTheirSpace` |
| `EmailsStayUnique` | `ActiveEmailsUnique` |
| `OwnersStay` | `GroupsKeepOwner` |
| `DepartedLeave` | `DepartedOnlyByRace` |
| `UndisturbedUpdatesSync` | `UndisturbedUpdateSyncs` |

`StoredRows` is assumed of the tables at the start: the foreign keys and the unique index
hold of them, every group has its creator for its one active owner, and nobody deleted is
active in a group. The argument begins with what never goes away (`Grow`): rows are
not removed, a participant keeps its user, a group its space and creator, a
member its role. So whatever a request has read of these stays true while
others work (`OthersStand`), although its rows themselves may be stale. The role needs the
invariant to be kept: a save of members writes a role for each of them, and that it is the
role there is follows from the caller being the only owner (`OwnerInv`), or from a
new group being known to its creation alone (`FoundingInv`). `DepartInv` says which deletion
ends the membership of whom: one that has not read the memberships yet, one that has read
this one, or one that was cut short. `SyncInv` follows the three saves of
`syncGroupMembers` for a request that nobody has disturbed: at each of them the table is what
the request read, with the rows it has written since in their places, so that after
the third it is the roster; a creation knows its group to be empty instead of reading it.

### The lock files

For any number of processes and files, both uses of a lock, and deaths at any
call:

| Theorem | States |
|---|---|
| `LockTypeCorrect` | `LockTypeOK` |
| `HolderKeepsLockAlways` | `HolderKeepsLock` |
| `MutuallyExclusive` | `MutualExclusion` |
| `LockFilesRefine` | `ImplementsExclusiveLock` |

`LockInv` says who can still unlink the path. A process that is about to unlink
it has a claim, and one that has published it and seen no live claim after its
link is safe from every reclaimer that judged an earlier file: such a reclaimer
either made its claim before the link and is met by the scan, or makes it
later and then compares the path with the file it holds open, whose inode nobody
else can have got. Mutual exclusion follows from `HolderKeepsLock`: two holders
would both be named by one path.

### The change lock

For any number of commands and sessions:

| Theorem | States |
|---|---|
| `SessionTypeCorrect` | `SessionTypeOK` |
| `ActiveSessionsKeepLocks` | `ActiveSessionKeepsLock` |
| `TransitionsOwnChanges` | `TransitionOwnsChange` |
| `SessionsEndOnce` | `EndedOnce` |

`SessionInv` adds to them what each command may rely on: a start owns the lock it
has published until its session is written; a release is of a session that is no
longer active, and while its claim stands nobody publishes, so that the lock it has compared
is the lock it unlinks; the command that ends a session has its operation lock.

### The finalize transaction

For any set of documents and versions of the work, and any number of
transactions, edits and crashes:

| Theorem | States |
|---|---|
| `FinalizeTypeCorrect` | `FinalizeTypeOK` |
| `CommittedTreesChecked` | `CommittedTreeChecked` |
| `ChecksAreNotRepeated` | `ChecksStartOnce` |
| `NoProjectionWithoutJournal` | `ProjectionsAreJournalled` |
| `CancelledNeverReported` | `CancelledNeverFinished` |

`FinalizeInv` has a part for each thing the journal is trusted for: what its phase
says of the candidate, of the checks and of the review (`JournalInv`); that a
transaction not yet published has left nothing (`FreshInv`); that a command
stands only where the phase allows (`PlaceInv`); that checks not journalled as
begun have not begun (`RunsInv`); that a rollback has the journal, and has
put back what it no longer has on its list (`RollbackInv`); that a cancelled projection,
once restored, is not projected again (`CancelInv`); that the reports of a session are those
of a reviewed candidate (`ReportInv`). None of them is inductive alone: a rollback
may be cut short and the next command must find in the journal what the last one
left in the files. There is one lemma for each part, with one step for each action, and
lemmas for what a group of actions leaves alone.

### Only model-checked

Liveness (`EveryRequestAnswered`, `LoneRequestSucceeds`, `LoneTransitionOperates`,
`TransactionsEnd`, `PendingCommitsEnd`, `LoneCallSucceeds`) is outside what TLAPS
proves. So is the use of
`ExclusiveLock` by `SessionLocks` and `FinalizeTransaction`: they take an exclusive
lock, and that lock files are one is proved, but the modules are not composed. That the
violated properties of section 5 do not hold is shown by TLC's counterexamples.

The type invariants of the modules with proofs (but that of the feed), `SnapshotsCurrent`, `TombstonesFinal`,
`CaughtUp`, `HolderKeepsLock` and `RolesStand` are proved and not checked by a run as well: the
first are lemmas in kind, the others follow from, or are part of, properties that are checked.

## 5. What was found

Disagreements of the code with its own documents, comments or messages:

* A deletion in flight while a page is read can fall behind the cursor for good
  (`feed_tombstones`). `OnlyOverlappedChangesAreMissed` says that this is the
  only way to miss a change.
  A page can also hold a row with the shares of its next version. If the totals
  disagree the device's adapter refuses the page (`shares must total
  amountMinor.`, `apps/mobile/src/sync/expenseSync.ts`) and asks again; if they
  agree, `MixedCopiesHeal` says that a newer record follows.
* A create that was accepted and is sent again after its expense was edited or deleted
  is refused as a conflict (`create_retried`): it is compared with the expense as it is now,
  and a tombstone is not looked at. `openspec/specs/api-platform/spec.md:95-100` promises
  the existing record, `openspec/specs/offline-first-sync/spec.md:60-65` the previously accepted
  result. `CreateIsIdempotent` says that there is no other way to be refused, and that
  the retry never makes a second expense.
* A finalize that dies after it moved the branch and before it recorded that is refused
  by every further `finalize` and `finalize-recover`. `docs/WORKFLOW.md:343-344` says "Its
  durable transaction is replay-safe across ordinary interruption; rerun the same command
  or follow `finalize-recover` when status requests it", and 970 "If commit ref
  advancement is interrupted, rerun the same managed command". It is `workflow commit`
  that completes it (435-437), which is why `PendingCommitsEnd` holds; the run `finalize` shows
  that it ends, and the refusal is `AsCandidate`, which `InspectFails` negates.
* A session can be aborted while its finalize transaction is projected or staged;
  the projection stays, and neither recovery nor cancellation accepts an aborted
  session (`finalize_abort`).
* A member who is added again while the participant is deleted is answered with that
  participant, which stays deleted (`member_added_again`).
* An update of a group that was read before the group was deleted brings it back,
  after the deletion was answered (`group_deleted`).

Observed while modelling, and part of the models and of the properties as they
are stated:

* A category can be deleted while an expense with it is being stored, and a
  participant can be entered in a group while being deleted.
  `DanglingOnlyByRace` and `DepartedOnlyByRace` (both proved) say that it takes such a race.
* Two creates of a category, or of a participant, with one id can both succeed, the
  second over the first, since `save` looks the id up again. Expenses are
  safe from it (`CreatesNeverOverwrite`); of a category and a participant,
  `ExpenseSideHolds` and `MembersOfTheirSpace` say what it cannot break.
* An account whose address a guest of the space has cannot be added to it: the unique
  index refuses the participant, `addAccountMember` does not catch that, and the owner is
  answered with an internal error. `LoneCallSucceeds` excepts it. Nothing links the
  guest to the account, which `openspec/specs/group-collaboration/spec.md:59-64` has in view
  ("a later account link").
* Two updates of a group's members that disturb one another may leave the union of their
  rosters; `UndisturbedUpdateSyncs` is about one that is not disturbed.
* A start that fails to write its session removes the session's file, even if
  another command has found the session and ended it meanwhile (`EndedOnce`
  allows the removal).
* Of the guards of the lock files, the scan after the link matters only when
  three processes meet: one that died, one that reclaims and one that publishes.
  The second comparison of a reclaimer repeats the first one, given that scan.

## 6. What is not modelled

* Membership as a variable of the expense service: `ExpenseService` takes roles as
  constant. `RolesAreKept` shows that no call takes a role away; participants may be deleted
  meanwhile, which is why its checks of them may pass or refuse.
* The mobile stores, their write queue and hydration; the adapter has no
  transport yet, so that nothing connects them with the feed.
* The allocation of shares (largest remainder, equal shares by order) and the
  other calculations: pure functions over decimal strings without state. The
  models say which shares a split may have, not which ones are chosen.
* Of the workflow engine: the separate check, complete, finish and roll-back
  commands, task revision, archive and plan transactions, providers and their
  retries, the journals of investigations, grants and authority, the validation of
  documents (pure functions over large artefacts), and the bootstrap copy of the
  engine, which is generated from it in part. Each has a protocol of its own, of the
  size of the two that are modelled here.
* Controllers, DTO validation and configuration (shape of payloads),
  authentication (libraries), screens, read-only listings and statistics,
  migrations of old data (scripts that run alone), generated and vendored code.
