-------------------------- MODULE FinalizeTransaction --------------------------
(***************************************************************************)
(* How a session is finalized and committed: projected-finalization.ts,    *)
(* finalize-transaction.ts, finalize-cancellation.ts, lifecycle.ts,        *)
(* git-transitions.ts and commit-recovery.ts.  A command projects the task *)
(* file and the generated documents, runs the checks on that candidate,    *)
(* waits for its review, stages it, records its reports and commits it.    *)
(* Every phase is journalled; a command may die at any step, and the next  *)
(* one resumes the journal, rolls it back, or cancels it.                  *)
(*                                                                         *)
(* One command at a time works on a session (its operation lock); the      *)
(* user, git and the reviewer do not take that lock.                       *)
(***************************************************************************)
EXTENDS Naturals

CONSTANTS
  Work,          \* versions of the implementation in the worktree
  Tasks,         \* the task file
  Documents,     \* the generated documents
  Previous, Foreign, \* the index as it was; an index somebody else has staged
  Baseline,      \* the commit the session started from
  NoTree, NoJournal, NoCancellation,
  MaxTransactions, MaxEdits, MaxCrashes

ASSUME BoundsAssumption ==
  MaxTransactions \in Nat \ {0} /\ MaxEdits \in Nat /\ MaxCrashes \in Nat

Files == {Tasks} \cup Documents
Texts == {"before", "after", "foreign"}
Trees == [work : Work, text : [Files -> Texts]]
Ids   == 1 .. MaxTransactions

ASSUME TreesAssumption ==
  /\ {Previous, Foreign, Baseline, NoTree} \cap Trees = {}
  /\ Previous # Foreign /\ Baseline # Foreign

Phases == {"projection-prepared", "candidate-prepared", "checks-running", "checked",
           "staged", "reports-persisted", "completed"}
Journals == [id : Ids, phase : Phases, base : Work, tree : Trees \cup {NoTree}]
Cancellations ==
  [phase : {"requested", "projection-restored", "completed"},
   of : {j \in Journals : j.phase \in {"checks-running", "checked"}}]

ASSUME SentinelsAssumption == NoJournal \notin Journals /\ NoCancellation \notin Cancellations

Sessions == [state : {"active", "aborted", "committed"}, finish : Ids \cup {0},
             commit : Trees \cup {NoTree}]
Places == {"idle", "base", "apply", "prepare", "inspect", "start checks", "checking",
           "stage", "add", "verify", "advance", "report", "pointers", "complete",
           "commit", "update ref", "record", "restore index", "restore files",
           "archive", "drop"}

VARIABLES
  work, text,    \* the worktree
  index, head,   \* the index and the branch
  journal,       \* the finalize transaction of the session
  cancellation,  \* the cancellation record of each transaction
  finish,        \* the tree in the finish report of each transaction
  session,       \* the session file: its state, its finish report, its commit
  verdict,       \* what the reviewer says of each candidate
  at, kind, todo, \* the command: where it stands, what it is, the files it has left
  issued, edits, crashes, \* transactions, edits and crashes so far
  tested,        \* the tree the checks of a transaction were last started on
  runs           \* history: how often they were started

worktreeVars == <<work, text, index, head>>
recordVars   == <<journal, cancellation, finish, session>>
countVars    == <<issued, edits, crashes>>
historyVars  == <<tested, runs>>
finalizeVars == <<worktreeVars, recordVars, verdict, at, kind, todo, countVars, historyVars>>

FinalizeTypeOK ==
  /\ work \in Work /\ text \in [Files -> Texts]
  /\ index \in Trees \cup {Previous, Foreign}
  /\ head \in Trees \cup {Baseline, Foreign}
  /\ journal \in Journals \cup {NoJournal}
  /\ cancellation \in [Ids -> Cancellations \cup {NoCancellation}]
  /\ finish \in [Ids -> Trees \cup {NoTree}]
  /\ session \in Sessions
  /\ verdict \in [Ids -> {"none", "changes", "satisfied"}]
  /\ at \in Places /\ kind \in {"finalize", "recover", "commit", "cancel"}
  /\ todo \subseteq Files
  /\ issued \in 0 .. MaxTransactions /\ edits \in 0 .. MaxEdits /\ crashes \in 0 .. MaxCrashes
  /\ tested \in [Ids -> Trees \cup {NoTree}] /\ runs \in [Ids -> Nat]

FinalizeInit ==
  /\ work \in Work /\ text = [f \in Files |-> "before"]
  /\ index = Previous /\ head = Baseline
  /\ journal = NoJournal
  /\ cancellation = [i \in Ids |-> NoCancellation]
  /\ finish = [i \in Ids |-> NoTree]
  /\ session = [state |-> "active", finish |-> 0, commit |-> NoTree]
  /\ verdict = [i \in Ids |-> "none"]
  /\ at = "idle" /\ kind = "recover" /\ todo = {}
  /\ issued = 0 /\ edits = 0 /\ crashes = 0
  /\ tested = [i \in Ids |-> NoTree] /\ runs = [i \in Ids |-> 0]

-----------------------------------------------------------------------------
Worktree == [work |-> work, text |-> text]
Move(place) == at' = place /\ UNCHANGED <<kind, todo>>
Advance(phase) == journal' = [journal EXCEPT !.phase = phase]

SessionHasReports == session.finish = journal.id

\* rollbackPersistedFinalizeTransaction: an error undoes what the transaction has
\* projected, unless the session has its reports.
Fail ==
  /\ at' = IF SessionHasReports THEN "idle" ELSE "restore index"
  /\ todo' = Files
  /\ UNCHANGED <<kind, worktreeVars, recordVars, historyVars>>

-----------------------------------------------------------------------------
(* finalize, finalize-recover *)

\* A fresh transaction needs a session without evidence, its branch where the
\* session started, nothing staged and nothing projected.
Publish ==
  /\ at = "idle" /\ journal = NoJournal
  /\ session.state = "active" /\ session.finish = 0
  /\ head = Baseline /\ index = Previous /\ \A f \in Files : text[f] = "before"
  /\ issued < MaxTransactions
  /\ issued' = issued + 1
  /\ journal' = [id |-> issued', phase |-> "projection-prepared", base |-> work,
                 tree |-> NoTree]
  /\ at' = "base" /\ kind' = "finalize" /\ todo' = {}
  /\ UNCHANGED <<worktreeVars, cancellation, finish, session, edits, crashes, historyVars>>

\* A session that is not active is refused; a committed one is replayed from its
\* records and changes nothing.
Resume(k) ==
  /\ at = "idle" /\ journal # NoJournal /\ session.state = "active"
  /\ at' = IF journal.phase = "projection-prepared" THEN "base" ELSE "inspect"
  /\ kind' = k /\ todo' = {}
  /\ UNCHANGED <<worktreeVars, recordVars, countVars, historyVars>>

\* applyPreparedFinalizeProjection: the index and all but the projected files are
\* as they were when the transaction was published ...
CheckBase ==
  /\ at = "base"
  /\ \/ /\ session.finish = 0 /\ index = Previous /\ work = journal.base
        /\ at' = "apply" /\ todo' = Files
        /\ UNCHANGED <<kind, worktreeVars, recordVars, historyVars>>
     \/ ~(session.finish = 0 /\ index = Previous /\ work = journal.base) /\ Fail
  /\ UNCHANGED countVars

\* ... the task file and then the documents are replaced, each if it is as it was
\* planned to be or already replaced ...
Apply(f) ==
  /\ at = "apply" /\ f \in todo /\ (Tasks \in todo => f = Tasks)
  /\ \/ /\ text[f] # "foreign"
        /\ text' = [text EXCEPT ![f] = "after"]
        /\ todo' = todo \ {f}
        /\ at' = IF todo' = {} THEN "prepare" ELSE "apply"
        /\ UNCHANGED <<kind, work, index, head, recordVars, historyVars>>
     \/ text[f] = "foreign" /\ Fail
  /\ UNCHANGED countVars

\* ... and the tree they would be staged as is the candidate.
Prepare ==
  /\ at = "prepare"
  /\ LET asPlanned == /\ head = Baseline /\ index = Previous /\ work = journal.base
                      /\ text[Tasks] = "after"
     IN  \/ /\ asPlanned
            /\ journal' = [journal EXCEPT !.phase = "candidate-prepared", !.tree = Worktree]
            /\ Move("inspect")
            /\ UNCHANGED <<worktreeVars, cancellation, finish, session, historyVars>>
         \/ ~asPlanned /\ Fail
  /\ UNCHANGED countVars

\* inspectFinalizeTransaction: the worktree is the candidate, projected in full,
\* and nothing of it is staged or all of it.
AsCandidate ==
  /\ \A f \in Files : text[f] = "after"
  /\ head = Baseline
  /\ Worktree = journal.tree
  /\ index \in {Previous, journal.tree}

Staged == index = journal.tree

\* The phases need what an earlier phase has done to the index.
InspectionFails ==
  \/ ~AsCandidate
  \/ journal.phase = "candidate-prepared" /\ Staged
  \/ journal.phase \in {"staged", "reports-persisted", "completed"} /\ ~Staged
  \/ journal.phase = "completed" /\ ~SessionHasReports

InspectFails ==
  /\ at = "inspect" /\ InspectionFails
  /\ Fail
  /\ UNCHANGED countVars

\* The phase is journalled before the checks are started.
\* Mutant: it is journalled with their result.
BeginChecksUnjournalled == UNCHANGED journal
BeginChecks == Advance("checks-running")

\* Where the transaction goes on; checks that may have run are not run again
\* (FINALIZE_RECOVERY_REQUIRED), and without a satisfied review it waits.
Inspect ==
  /\ at = "inspect" /\ ~InspectionFails
  /\ \/ journal.phase = "candidate-prepared" /\ BeginChecks /\ Move("start checks")
     \/ /\ journal.phase = "checks-running" /\ Move("idle")
        /\ UNCHANGED journal
     \/ /\ journal.phase = "checked"
        /\ Move(IF verdict[journal.id] # "satisfied" THEN "idle"
                ELSE IF Staged THEN "advance" ELSE "stage")
        /\ UNCHANGED journal
     \/ /\ journal.phase = "staged" /\ Move("report")
        /\ UNCHANGED journal
     \/ /\ journal.phase = "reports-persisted" /\ Move("pointers")
        /\ UNCHANGED journal
     \/ /\ journal.phase = "completed"
        /\ Move(IF kind = "finalize" THEN "commit" ELSE "idle")
        /\ UNCHANGED journal
  /\ UNCHANGED <<worktreeVars, cancellation, finish, session, countVars, historyVars>>

\* executeChecks, on the files as they are.
StartChecks ==
  /\ at = "start checks"
  /\ runs' = [runs EXCEPT ![journal.id] = @ + 1]
  /\ tested' = [tested EXCEPT ![journal.id] = Worktree]
  /\ Move("checking")
  /\ UNCHANGED <<worktreeVars, recordVars, countVars>>

\* Mutant: what the checks left behind is not compared with the candidate.
CheckedCandidateAny == TRUE
CheckedCandidate ==
  /\ Worktree = tested[journal.id]
  /\ Worktree = journal.tree /\ index = Previous /\ head = Baseline

EndChecks ==
  /\ at = "checking"
  /\ \/ /\ CheckedCandidate
        /\ Advance("checked")
        /\ Move("inspect")
        /\ UNCHANGED <<worktreeVars, cancellation, finish, session, historyVars>>
     \/ Fail
  /\ UNCHANGED countVars

\* stageExactPaths: the tree to be staged is the candidate ...
Stage ==
  /\ at = "stage"
  /\ \/ /\ Worktree = journal.tree /\ index = Previous
        /\ Move("add")
        /\ UNCHANGED <<worktreeVars, recordVars, historyVars>>
     \/ ~(Worktree = journal.tree /\ index = Previous) /\ Fail
  /\ UNCHANGED countVars

\* ... git adds the files as they are now ...
Add ==
  /\ at = "add"
  /\ index' = IF index = Previous THEN Worktree ELSE Foreign
  /\ Move("verify")
  /\ UNCHANGED <<work, text, head, recordVars, countVars, historyVars>>

\* ... and what is staged is the candidate and the worktree, or the index is put
\* back if it is the candidate, and left alone if it is neither.
Verify ==
  /\ at = "verify"
  /\ \/ /\ Staged /\ Worktree = index
        /\ Advance("staged")
        /\ Move("inspect")
        /\ UNCHANGED <<worktreeVars, cancellation, finish, session>>
     \/ /\ ~(Staged /\ Worktree = index)
        /\ index' = IF Staged THEN Previous ELSE index
        /\ at' = "restore index" /\ todo' = Files
        /\ UNCHANGED <<kind, work, text, head, recordVars>>
  /\ UNCHANGED <<countVars, historyVars>>

AdvanceStaged ==
  /\ at = "advance"
  /\ Advance("staged")
  /\ Move("inspect")
  /\ UNCHANGED <<worktreeVars, cancellation, finish, session, countVars, historyVars>>

\* The reports, and then the session that names them.
Report ==
  /\ at = "report"
  /\ finish' = [finish EXCEPT ![journal.id] = journal.tree]
  /\ Advance("reports-persisted")
  /\ Move("inspect")
  /\ UNCHANGED <<worktreeVars, cancellation, session, countVars, historyVars>>

Pointers ==
  /\ at = "pointers"
  /\ \/ /\ session.finish \in {0, journal.id}
        /\ session' = [session EXCEPT !.finish = journal.id]
        /\ Move("complete")
        /\ UNCHANGED <<worktreeVars, journal, cancellation, finish, historyVars>>
     \/ session.finish \notin {0, journal.id} /\ Fail
  /\ UNCHANGED countVars

Complete ==
  /\ at = "complete"
  /\ Advance("completed")
  /\ Move("inspect")
  /\ UNCHANGED <<worktreeVars, cancellation, finish, session, countVars, historyVars>>

-----------------------------------------------------------------------------
(* Rollback: restoreFinalizeTransactionProjection *)

\* An index that is neither the candidate nor as it was is left alone.
RestoreIndex ==
  /\ at = "restore index"
  /\ \/ index \in {journal.tree, Previous} /\ index' = Previous /\ at' = "restore files"
     \/ index \notin {journal.tree, Previous} /\ at' = "idle" /\ UNCHANGED index
  /\ UNCHANGED <<kind, todo, work, text, head, recordVars, countVars, historyVars>>

RestoreFile(f) ==
  /\ at = "restore files" /\ f \in todo
  /\ \/ /\ text[f] # "foreign"
        /\ text' = [text EXCEPT ![f] = "before"]
        /\ todo' = todo \ {f}
        /\ UNCHANGED at
     \/ text[f] = "foreign" /\ at' = "idle" /\ UNCHANGED <<text, todo>>
  /\ UNCHANGED <<kind, work, index, head, recordVars, countVars, historyVars>>

\* Mutant: the files are still to be restored.
RestoredIndexOnly == TRUE
Restored == todo = {}

Discard ==
  /\ at = "restore files" /\ Restored /\ kind # "cancel"
  /\ journal' = NoJournal
  /\ Move("idle")
  /\ UNCHANGED <<worktreeVars, cancellation, finish, session, countVars, historyVars>>

-----------------------------------------------------------------------------
(* finalize-recover --cancel *)

\* Only checks that may have run, and a review that requires changes.
\* Mutant: only the review.
CancellableReviewed == journal.phase = "checked" /\ verdict[journal.id] = "changes"
Cancellable ==
  \/ journal.phase = "checks-running"
  \/ journal.phase = "checked" /\ verdict[journal.id] = "changes"

\* Mutant: a session that has the reports may be restored.
RestorableAlways == TRUE
Restorable == session.state = "active" /\ ~SessionHasReports

Cancel ==
  /\ at = "idle" /\ journal # NoJournal
  /\ LET entry == cancellation[journal.id]
     IN  \/ /\ entry = NoCancellation /\ Cancellable
            /\ cancellation' = [cancellation EXCEPT ![journal.id] =
                                  [phase |-> "requested", of |-> journal]]
            /\ at' = IF Restorable THEN "restore index" ELSE "idle"
         \/ /\ entry # NoCancellation
            /\ at' = CASE entry.phase = "projection-restored" -> "archive"
                       [] entry.phase = "completed" -> "drop"
                       [] OTHER -> IF Restorable THEN "restore index" ELSE "idle"
            /\ UNCHANGED cancellation
  /\ kind' = "cancel" /\ todo' = Files
  /\ UNCHANGED <<worktreeVars, journal, finish, session, countVars, historyVars>>

MarkRestored ==
  /\ at = "restore files" /\ Restored /\ kind = "cancel"
  /\ cancellation' = [cancellation EXCEPT ![journal.id].phase = "projection-restored"]
  /\ Move("archive")
  /\ UNCHANGED <<worktreeVars, journal, finish, session, countVars, historyVars>>

Archive ==
  /\ at = "archive"
  /\ cancellation' = [cancellation EXCEPT ![journal.id].phase = "completed"]
  /\ Move("drop")
  /\ UNCHANGED <<worktreeVars, journal, finish, session, countVars, historyVars>>

\* removeCancelledActiveTransaction: if it is still as it was when the
\* cancellation was requested.
Drop ==
  /\ at = "drop"
  /\ journal' = IF journal = cancellation[journal.id].of THEN NoJournal ELSE journal
  /\ Move("idle")
  /\ UNCHANGED <<worktreeVars, cancellation, finish, session, countVars, historyVars>>

-----------------------------------------------------------------------------
(* commit, abort *)

BeginCommit ==
  /\ at = "idle" /\ session.state = "active" /\ session.finish # 0
  /\ at' = "commit" /\ kind' = "commit" /\ todo' = {}
  /\ UNCHANGED <<worktreeVars, recordVars, countVars, historyVars>>

\* resumePendingCommit.  Mutant: a branch that has the commit already is refused.
ResumptionOnce == IF head = Baseline THEN "update ref" ELSE "idle"
Resumption ==
  CASE head = Baseline -> "update ref"
    [] head = session.commit -> "record"
    [] OTHER -> "idle"

\* commitSessionUnlocked, and resumePendingCommit when the session has its commit.
Commit ==
  /\ at = "commit"
  /\ LET tree == finish[session.finish]
         current == head = Baseline /\ Worktree = tree /\ index = tree
     IN  \/ /\ session.commit = NoTree /\ current
            /\ session' = [session EXCEPT !.commit = tree]
            /\ Move("update ref")
         \/ /\ session.commit = NoTree /\ ~current /\ Move("idle")
            /\ UNCHANGED session
         \/ /\ session.commit # NoTree
            /\ Move(Resumption)
            /\ UNCHANGED session
  /\ UNCHANGED <<worktreeVars, journal, cancellation, finish, countVars, historyVars>>

\* updateManagedRef: git moves the branch only from where the session started.
UpdateRef ==
  /\ at = "update ref"
  /\ \/ head = Baseline /\ head' = session.commit /\ Move("record")
     \/ head # Baseline /\ Move("idle") /\ UNCHANGED head
  /\ UNCHANGED <<work, text, index, recordVars, countVars, historyVars>>

\* finalizeCommittedSession.
RecordCommit ==
  /\ at = "record"
  /\ session' = [session EXCEPT !.state = "committed"]
  /\ Move("idle")
  /\ UNCHANGED <<worktreeVars, journal, cancellation, finish, countVars, historyVars>>

\* abortSessionUnlocked: refused once the session has reports.
Abort ==
  /\ at = "idle" /\ session.state = "active"
  /\ session.finish = 0 /\ session.commit = NoTree
  /\ session' = [session EXCEPT !.state = "aborted"]
  /\ UNCHANGED <<at, kind, todo, worktreeVars, journal, cancellation, finish, countVars,
                 historyVars>>

-----------------------------------------------------------------------------
(* The user, git, the reviewer, and a command that dies *)

Edit ==
  /\ edits < MaxEdits /\ edits' = edits + 1
  /\ \/ work' \in Work \ {work} /\ UNCHANGED <<text, index, head>>
     \/ /\ \E f \in Files : text' = [text EXCEPT ![f] = "foreign"]
        /\ UNCHANGED <<work, index, head>>
     \/ index' \in {Foreign, Previous} \ {index} /\ UNCHANGED <<work, text, head>>
     \/ head' = Foreign /\ UNCHANGED <<work, text, index>>
  /\ UNCHANGED <<recordVars, at, kind, todo, issued, crashes, historyVars>>

\* The user puts back what a command refuses to touch.
UndoEdit ==
  /\ \/ /\ index # Previous /\ (journal # NoJournal => ~Staged)
        /\ index' = Previous
        /\ UNCHANGED text
     \/ /\ \E f \in Files : text[f] = "foreign" /\ text' = [text EXCEPT ![f] = "before"]
        /\ UNCHANGED index
  /\ at = "idle"
  /\ UNCHANGED <<work, head, recordVars, at, kind, todo, countVars, historyVars>>

Review ==
  /\ journal # NoJournal /\ journal.phase = "checked"
  /\ verdict[journal.id] # "satisfied"
  /\ \E v \in {"changes", "satisfied"} : verdict' = [verdict EXCEPT ![journal.id] = v]
  /\ UNCHANGED <<worktreeVars, recordVars, at, kind, todo, countVars, historyVars>>

Die ==
  /\ at # "idle" /\ crashes < MaxCrashes
  /\ crashes' = crashes + 1
  /\ at' = "idle"
  /\ UNCHANGED <<kind, todo, worktreeVars, recordVars, issued, edits, historyVars>>

FinalizeStep ==
  \/ CheckBase \/ (\E f \in Files : Apply(f)) \/ Prepare \/ InspectFails \/ Inspect
  \/ StartChecks \/ EndChecks \/ Stage \/ Add \/ Verify \/ AdvanceStaged
  \/ Report \/ Pointers \/ Complete
  \/ RestoreIndex \/ (\E f \in Files : RestoreFile(f)) \/ Discard
  \/ MarkRestored \/ Archive \/ Drop
  \/ Commit \/ UpdateRef \/ RecordCommit

Call ==
  Publish \/ Resume("finalize") \/ Resume("recover") \/ Cancel \/ BeginCommit \/ Abort

ByCommand == (FinalizeStep \/ Call) /\ UNCHANGED verdict
ByOthers  == Review \/ ((Edit \/ UndoEdit \/ Die) /\ UNCHANGED verdict)

FinalizeNext == ByCommand \/ ByOthers

FinalizeSpec == FinalizeInit /\ [][FinalizeNext]_finalizeVars

\* A command that has begun goes on; the user recovers, cancels, commits and puts
\* back, again and again; the reviewer answers.
FinalizeFairness ==
  /\ WF_finalizeVars(FinalizeStep /\ UNCHANGED verdict)
  /\ SF_finalizeVars(Resume("recover") /\ UNCHANGED verdict)
  /\ SF_finalizeVars(Cancel /\ UNCHANGED verdict)
  /\ SF_finalizeVars(BeginCommit /\ UNCHANGED verdict)
  /\ SF_finalizeVars(UndoEdit /\ UNCHANGED verdict)
  /\ WF_finalizeVars(Review)

-----------------------------------------------------------------------------
(* Properties *)

\* What the branch is moved to is a candidate in full: projected, tested once, and
\* found good by its review, whatever was edited or died in between.
CommittedTreeChecked ==
  head \in Trees =>
    \E i \in Ids : /\ finish[i] = head /\ tested[i] = head /\ runs[i] = 1
                  /\ verdict[i] = "satisfied"
                  /\ \A f \in Files : head.text[f] = "after"

\* The checks of a transaction are started once at most: a resume never repeats
\* checks that may have run.
ChecksStartOnce == \A i \in Ids : runs[i] <= 1

\* Without a journal nothing of a projection is left in the worktree or in the
\* index, unless the session has the reports of the transaction: a rollback or a
\* cancellation that dies half-way keeps the journal that undoes the rest.
ProjectionsAreJournalled ==
  journal = NoJournal /\ session.finish = 0 =>
    /\ \A f \in Files : text[f] # "after"
    /\ index \notin Trees

\* A transaction whose cancellation is complete never gets its reports into the
\* session, though it may have gone on between the request and the completion.
CancelledNeverFinished ==
  \A i \in Ids : /\ cancellation[i] # NoCancellation
                /\ cancellation[i].phase = "completed"
                => session.finish # i

\* Whatever died or was edited, a transaction ends: it is undone or the session
\* has its reports, unless the session was aborted.
TransactionsEnd ==
  (journal # NoJournal /\ ~SessionHasReports)
    ~> (journal = NoJournal \/ SessionHasReports \/ session.state = "aborted")

\* A commit that the session has recorded gets to its end, unless the branch was
\* moved by somebody else.
PendingCommitsEnd ==
  session.commit # NoTree ~> (session.state = "committed" \/ head = Foreign)

\* 'A projected, staged, or pending session requires an explicit engine rollback
\* transition' (session.ts): nothing of it is projected or staged when a session
\* is aborted.
AbortedNotProjected ==
  session.state = "aborted" =>
    /\ \A f \in Files : text[f] # "after"
    /\ index \notin Trees
=============================================================================
