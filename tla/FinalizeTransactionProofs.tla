----------------------- MODULE FinalizeTransactionProofs -----------------------
(***************************************************************************)
(* Proofs about FinalizeTransaction, for every set of versions and of      *)
(* documents and every bound.                                              *)
(***************************************************************************)
EXTENDS FinalizeTransaction, TLAPS

-----------------------------------------------------------------------------
(* The inductive invariant *)

Early    == {"projection-prepared", "candidate-prepared"}
Tested   == {"checked", "staged", "reports-persisted", "completed"}
Reviewed == {"staged", "reports-persisted", "completed"}
Reported == {"reports-persisted", "completed"}

\* What the phase of the journal says of its transaction.
JournalInv ==
  journal # NoJournal =>
    /\ journal.id <= issued
    /\ journal.phase # "projection-prepared" => journal.tree \in Trees
    /\ journal.phase \in Early =>
         runs[journal.id] = 0 /\ cancellation[journal.id] = NoCancellation
    /\ journal.phase \notin Early => \A f \in Files : journal.tree.text[f] = "after"
    /\ journal.phase \in Tested => tested[journal.id] = journal.tree /\ runs[journal.id] = 1
    /\ journal.phase \in Reviewed => verdict[journal.id] = "satisfied"
    /\ journal.phase \in Reported => finish[journal.id] = journal.tree
    /\ journal.phase \notin Reported => finish[journal.id] = NoTree /\ session.finish # journal.id

\* Nothing is known yet of a transaction that was not published.
FreshInv ==
  \A i \in Ids : i > issued =>
    /\ runs[i] = 0 /\ cancellation[i] = NoCancellation
    /\ finish[i] = NoTree /\ session.finish # i

\* What the place of the command says of the journal ...
Unjournalled == {"idle", "commit", "update ref", "record"}
Passed == {"start checks", "checking", "stage", "add", "verify", "advance", "report",
           "pointers", "complete"}
PlaceInv ==
  /\ at \notin Unjournalled => journal # NoJournal
  /\ at \in {"base", "apply", "prepare"} => journal.phase = "projection-prepared"
  /\ at \in {"start checks", "checking"} => journal.phase = "checks-running"
  /\ at \in {"stage", "add", "verify", "advance"} =>
       journal.phase = "checked" /\ verdict[journal.id] = "satisfied"
  /\ at = "report" => journal.phase = "staged"
  /\ at \in {"pointers", "complete"} => journal.phase = "reports-persisted"
  /\ at \in {"base", "apply", "prepare", "inspect"} \cup Passed => kind # "cancel"

\* ... how often its checks were started ...
RunsInv ==
  /\ \A i \in Ids : runs[i] <= 1
  /\ at = "start checks" => runs[journal.id] = 0
  /\ at = "checking" => runs[journal.id] = 1

\* ... and how far it is rolled back or cancelled.
Clean == (\A f \in Files : text[f] # "after") /\ index \notin Trees
Undone == {i \in Ids : /\ cancellation[i] # NoCancellation
                       /\ cancellation[i].phase \in {"projection-restored", "completed"}}
RollbackInv ==
  /\ at \in {"restore index", "restore files"} =>
       /\ session.finish # journal.id
       /\ kind = "cancel" => cancellation[journal.id] # NoCancellation
  /\ at = "restore index" => todo = Files
  /\ at = "restore files" => index \notin Trees /\ \A f \in Files \ todo : text[f] # "after"
  /\ at = "archive" => journal.id \in Undone
  /\ at = "drop" => journal.id \in Undone

\* A transaction that is undone for its cancellation has no reports in the session,
\* and does not go on.
CancelInv ==
  /\ \A i \in Undone : session.finish # i
  /\ journal # NoJournal /\ journal.id \in Undone => Clean
  /\ at \in Passed => journal.id \notin Undone

\* Reports, and what the session and the branch take from them.
ReportInv ==
  /\ \A i \in Ids : finish[i] # NoTree =>
       /\ finish[i] \in Trees /\ tested[i] = finish[i] /\ runs[i] = 1
       /\ verdict[i] = "satisfied"
       /\ \A f \in Files : finish[i].text[f] = "after"
  /\ session.finish # 0 => finish[session.finish] # NoTree
  /\ at = "commit" => session.finish # 0
  /\ at = "update ref" => session.commit # NoTree
  /\ session.commit # NoTree => \E i \in Ids : finish[i] = session.commit
  /\ head \in Trees => \E i \in Ids : finish[i] = head

FinalizeInv ==
  /\ FinalizeTypeOK /\ JournalInv /\ FreshInv /\ PlaceInv /\ RunsInv
  /\ RollbackInv /\ CancelInv /\ ReportInv /\ ProjectionsAreJournalled

-----------------------------------------------------------------------------
(* The steps and the types *)

\* One case for each action.
LEMMA NextCases ==
  ASSUME FinalizeNext
  PROVE  \/ CheckBase /\ UNCHANGED verdict
         \/ (\E f \in Files : Apply(f)) /\ UNCHANGED verdict
         \/ Prepare /\ UNCHANGED verdict
         \/ InspectFails /\ UNCHANGED verdict
         \/ Inspect /\ UNCHANGED verdict
         \/ StartChecks /\ UNCHANGED verdict
         \/ EndChecks /\ UNCHANGED verdict
         \/ Stage /\ UNCHANGED verdict
         \/ Add /\ UNCHANGED verdict
         \/ Verify /\ UNCHANGED verdict
         \/ AdvanceStaged /\ UNCHANGED verdict
         \/ Report /\ UNCHANGED verdict
         \/ Pointers /\ UNCHANGED verdict
         \/ Complete /\ UNCHANGED verdict
         \/ RestoreIndex /\ UNCHANGED verdict
         \/ (\E f \in Files : RestoreFile(f)) /\ UNCHANGED verdict
         \/ Discard /\ UNCHANGED verdict
         \/ MarkRestored /\ UNCHANGED verdict
         \/ Archive /\ UNCHANGED verdict
         \/ Drop /\ UNCHANGED verdict
         \/ Commit /\ UNCHANGED verdict
         \/ UpdateRef /\ UNCHANGED verdict
         \/ RecordCommit /\ UNCHANGED verdict
         \/ Publish /\ UNCHANGED verdict
         \/ (Resume("finalize") \/ Resume("recover")) /\ UNCHANGED verdict
         \/ Cancel /\ UNCHANGED verdict
         \/ BeginCommit /\ UNCHANGED verdict
         \/ Abort /\ UNCHANGED verdict
         \/ Review
         \/ Edit /\ UNCHANGED verdict
         \/ UndoEdit /\ UNCHANGED verdict
         \/ Die /\ UNCHANGED verdict
BY DEF FinalizeNext, ByCommand, ByOthers, FinalizeStep, Call

Quiet ==
  \/ CheckBase
  \/ (\E f \in Files : Apply(f))
  \/ InspectFails
  \/ Stage
  \/ Add
  \/ RestoreIndex
  \/ (\E f \in Files : RestoreFile(f))
  \/ UpdateRef
  \/ (Resume("finalize") \/ Resume("recover"))
  \/ BeginCommit
  \/ Edit
  \/ UndoEdit
  \/ Die

\* Most steps change no record.
LEMMA QuietSteps ==
  ASSUME Quiet
  PROVE  UNCHANGED <<recordVars, issued, historyVars>>
<1>1. CASE CheckBase
  BY <1>1 DEF CheckBase, Fail, countVars
<1>2. CASE (\E f \in Files : Apply(f))
  BY <1>2 DEF Apply, Fail, countVars
<1>3. CASE InspectFails
  BY <1>3 DEF InspectFails, Fail, countVars
<1>4. CASE Stage
  BY <1>4 DEF Stage, Fail, Move, countVars
<1>5. CASE Add
  BY <1>5 DEF Add, Move, countVars
<1>6. CASE RestoreIndex
  BY <1>6 DEF RestoreIndex, countVars
<1>7. CASE (\E f \in Files : RestoreFile(f))
  BY <1>7 DEF RestoreFile, countVars
<1>8. CASE UpdateRef
  BY <1>8 DEF UpdateRef, Move, countVars
<1>9. CASE (Resume("finalize") \/ Resume("recover"))
  BY <1>9 DEF Resume, countVars
<1>10. CASE BeginCommit
  BY <1>10 DEF BeginCommit, countVars
<1>11. CASE Edit
  BY <1>11 DEF Edit, countVars
<1>12. CASE UndoEdit
  BY <1>12 DEF UndoEdit, countVars
<1>13. CASE Die
  BY <1>13 DEF Die, countVars
<1> QED
  BY <1>1, <1>2, <1>3, <1>4, <1>5, <1>6, <1>7, <1>8, <1>9, <1>10, <1>11, <1>12, <1>13
     DEF Quiet

\* The journal is a record of its type ...
LEMMA JournalType ==
  ASSUME FinalizeTypeOK, journal # NoJournal
  PROVE  journal \in Journals /\ journal.id \in Ids
BY DEF FinalizeTypeOK, Journals

\* ... and stays one when its phase is advanced.
LEMMA Advanced ==
  ASSUME FinalizeTypeOK, journal # NoJournal, NEW p \in Phases, Advance(p)
  PROVE  /\ journal' \in Journals /\ journal' # NoJournal
         /\ journal'.phase = p /\ journal'.id = journal.id
         /\ journal'.base = journal.base /\ journal'.tree = journal.tree
<1>1. journal \in Journals
  BY JournalType
<1>2. journal' = [id |-> journal.id, phase |-> p, base |-> journal.base, tree |-> journal.tree]
  BY <1>1 DEF Advance, Journals
<1>3. journal' \in Journals
  BY <1>1, <1>2 DEF Journals
<1> QED
  BY <1>2, <1>3, SentinelsAssumption

\* The functions and records of the state.
LEMMA StateTypes ==
  ASSUME FinalizeTypeOK
  PROVE  /\ runs \in [Ids -> Nat] /\ tested \in [Ids -> Trees \cup {NoTree}]
         /\ finish \in [Ids -> Trees \cup {NoTree}]
         /\ verdict \in [Ids -> {"none", "changes", "satisfied"}]
         /\ cancellation \in [Ids -> Cancellations \cup {NoCancellation}]
         /\ session \in Sessions /\ issued \in 0 .. MaxTransactions
         /\ text \in [Files -> Texts] /\ Worktree \in Trees /\ NoTree \notin Trees
         /\ Ids \subseteq Nat \ {0} /\ session.finish \in Ids \cup {0}
BY BoundsAssumption, TreesAssumption DEF FinalizeTypeOK, Worktree, Trees, Ids, Sessions

\* The journal of a new transaction ...
LEMMA Published ==
  ASSUME FinalizeTypeOK, Publish
  PROVE  /\ issued < MaxTransactions /\ issued' = issued + 1 /\ issued' \in Ids
         /\ journal' = [id |-> issued', phase |-> "projection-prepared", base |-> work,
                        tree |-> NoTree]
         /\ journal' \in Journals /\ journal' # NoJournal
<1>1. /\ issued < MaxTransactions /\ issued' = issued + 1
      /\ journal' = [id |-> issued', phase |-> "projection-prepared", base |-> work,
                     tree |-> NoTree]
  BY DEF Publish
<1>2. issued' \in Ids
  BY <1>1, StateTypes, BoundsAssumption DEF Ids
<1>3. work \in Work
  BY DEF FinalizeTypeOK
<1>4. journal' \in Journals
  BY <1>1, <1>2, <1>3 DEF Journals, Phases
<1> QED
  BY <1>1, <1>2, <1>4, SentinelsAssumption

\* ... and the one that has its candidate.
LEMMA Prepared ==
  ASSUME FinalizeTypeOK, journal # NoJournal,
         journal' = [journal EXCEPT !.phase = "candidate-prepared", !.tree = Worktree]
  PROVE  /\ journal' = [id |-> journal.id, phase |-> "candidate-prepared",
                        base |-> journal.base, tree |-> Worktree]
         /\ journal' \in Journals /\ journal' # NoJournal
<1>1. journal \in Journals /\ Worktree \in Trees
  BY JournalType, StateTypes
<1>2. journal' = [id |-> journal.id, phase |-> "candidate-prepared",
                  base |-> journal.base, tree |-> Worktree]
  BY <1>1 DEF Journals
<1>3. journal' \in Journals
  BY <1>1, <1>2 DEF Journals, Phases
<1> QED
  BY <1>2, <1>3, SentinelsAssumption

-----------------------------------------------------------------------------
(* The journal and the place of the command *)

\* What the phase of the journal says is kept.
LEMMA JournalStep ==
  ASSUME FinalizeInv, FinalizeNext
  PROVE  JournalInv'
<1> USE DEF FinalizeInv
<1>1. CASE Prepare /\ UNCHANGED verdict
  <2>1. journal # NoJournal /\ journal.phase = "projection-prepared"
    BY <1>1 DEF Prepare, PlaceInv, Unjournalled
  <2>2. UNCHANGED <<issued, runs, cancellation, tested, verdict, finish, session>>
    BY <1>1 DEF Prepare, Fail, recordVars, historyVars, countVars
  <2>3. CASE UNCHANGED journal
    BY <2>2, <2>3 DEF JournalInv
  <2>4. CASE journal' = [journal EXCEPT !.phase = "candidate-prepared", !.tree = Worktree]
    <3>1. journal' = [id |-> journal.id, phase |-> "candidate-prepared",
                      base |-> journal.base, tree |-> Worktree]
      BY <2>1, <2>4, Prepared
    <3> QED
      BY <2>1, <2>2, <3>1, StateTypes DEF JournalInv, Early, Tested, Reviewed, Reported
  <2> QED
    BY <1>1, <2>3, <2>4 DEF Prepare, Fail, recordVars
<1>2. CASE Inspect /\ UNCHANGED verdict
  <2>1. journal # NoJournal
    BY <1>2 DEF Inspect, PlaceInv, Unjournalled
  <2>2. UNCHANGED <<issued, runs, cancellation, tested, verdict, finish, session>>
    BY <1>2 DEF Inspect, historyVars, countVars
  <2>3. CASE UNCHANGED journal
    BY <2>2, <2>3 DEF JournalInv
  <2>4. CASE journal.phase = "candidate-prepared" /\ Advance("checks-running")
    <3>1. /\ journal' # NoJournal /\ journal'.phase = "checks-running"
          /\ journal'.id = journal.id /\ journal'.tree = journal.tree
      BY <2>1, <2>4, Advanced DEF Phases
    <3>2. journal.tree \in Trees /\ \A f \in Files : journal.tree.text[f] = "after"
      <4>1. \A f \in Files : text[f] = "after"
        BY <1>2 DEF Inspect, InspectionFails, AsCandidate
      <4>2. Worktree = journal.tree
        BY <1>2 DEF Inspect, InspectionFails, AsCandidate
      <4> QED
        BY <4>1, <4>2, StateTypes DEF Worktree
    <3> QED
      BY <2>1, <2>2, <2>4, <3>1, <3>2 DEF JournalInv, Early, Tested, Reviewed, Reported
  <2> QED
    BY <1>2, <2>3, <2>4 DEF Inspect, BeginChecks
<1>3. CASE StartChecks /\ UNCHANGED verdict
  <2>1. journal # NoJournal /\ journal.phase = "checks-running"
    BY <1>3 DEF StartChecks, PlaceInv, Unjournalled
  <2>2. UNCHANGED <<issued, journal, cancellation, verdict, finish, session>>
    BY <1>3 DEF StartChecks, recordVars, countVars
  <2> QED
    BY <2>1, <2>2 DEF JournalInv, Early, Tested, Reviewed, Reported
<1>4. CASE EndChecks /\ UNCHANGED verdict
  <2>1. UNCHANGED <<issued, runs, cancellation, tested, verdict, finish, session>>
    BY <1>4 DEF EndChecks, Fail, recordVars, historyVars, countVars
  <2>2. CASE UNCHANGED journal
    BY <2>1, <2>2 DEF JournalInv
  <2>3. CASE CheckedCandidate /\ Advance("checked")
    <3>1. journal # NoJournal /\ journal.phase = "checks-running" /\ runs[journal.id] = 1
      BY <1>4 DEF EndChecks, PlaceInv, Unjournalled, RunsInv
    <3>2. /\ journal' # NoJournal /\ journal'.phase = "checked"
          /\ journal'.id = journal.id /\ journal'.tree = journal.tree
      BY <2>3, <3>1, Advanced DEF Phases
    <3>3. tested[journal.id] = journal.tree
      BY <2>3 DEF CheckedCandidate
    <3> QED
      BY <2>1, <3>1, <3>2, <3>3 DEF JournalInv, Early, Tested, Reviewed, Reported
  <2> QED
    BY <1>4, <2>2, <2>3 DEF EndChecks, Fail, recordVars
<1>5. CASE Verify /\ UNCHANGED verdict
  <2>1. UNCHANGED <<issued, runs, cancellation, tested, verdict, finish, session>>
    BY <1>5 DEF Verify, recordVars, historyVars, countVars
  <2>2. CASE UNCHANGED journal
    BY <2>1, <2>2 DEF JournalInv
  <2>3. CASE Advance("staged")
    <3>1. journal # NoJournal /\ journal.phase = "checked" /\ verdict[journal.id] = "satisfied"
      BY <1>5 DEF Verify, PlaceInv, Unjournalled
    <3>2. /\ journal' # NoJournal /\ journal'.phase = "staged"
          /\ journal'.id = journal.id /\ journal'.tree = journal.tree
      BY <2>3, <3>1, Advanced DEF Phases
    <3> QED
      BY <2>1, <3>1, <3>2 DEF JournalInv, Early, Tested, Reviewed, Reported
  <2> QED
    BY <1>5, <2>2, <2>3 DEF Verify, recordVars
<1>6. CASE AdvanceStaged /\ UNCHANGED verdict
  <2>1. journal # NoJournal /\ journal.phase = "checked" /\ verdict[journal.id] = "satisfied"
    BY <1>6 DEF AdvanceStaged, PlaceInv, Unjournalled
  <2>2. /\ journal' # NoJournal /\ journal'.phase = "staged"
        /\ journal'.id = journal.id /\ journal'.tree = journal.tree
    BY <1>6, <2>1, Advanced DEF AdvanceStaged, Phases
  <2>3. UNCHANGED <<issued, runs, cancellation, tested, verdict, finish, session>>
    BY <1>6 DEF AdvanceStaged, recordVars, historyVars, countVars
  <2> QED
    BY <2>1, <2>2, <2>3 DEF JournalInv, Early, Tested, Reviewed, Reported
<1>7. CASE Report /\ UNCHANGED verdict
  <2>1. journal # NoJournal /\ journal.phase = "staged"
    BY <1>7 DEF Report, PlaceInv, Unjournalled
  <2>2. /\ journal' # NoJournal /\ journal'.phase = "reports-persisted"
        /\ journal'.id = journal.id /\ journal'.tree = journal.tree
    BY <1>7, <2>1, Advanced DEF Report, Phases
  <2>3. UNCHANGED <<issued, runs, cancellation, tested, verdict, session>>
    BY <1>7 DEF Report, historyVars, countVars
  <2>4. finish'[journal.id] = journal.tree
    BY <1>7, <2>1, StateTypes, JournalType DEF Report
  <2> QED
    BY <2>1, <2>2, <2>3, <2>4 DEF JournalInv, Early, Tested, Reviewed, Reported
<1>8. CASE Pointers /\ UNCHANGED verdict
  <2>1. journal # NoJournal /\ journal.phase = "reports-persisted"
    BY <1>8 DEF Pointers, PlaceInv, Unjournalled
  <2>2. UNCHANGED <<issued, journal, runs, cancellation, tested, verdict, finish>>
    BY <1>8 DEF Pointers, Fail, recordVars, historyVars, countVars
  <2> QED
    BY <2>1, <2>2 DEF JournalInv, Early, Tested, Reviewed, Reported
<1>9. CASE Complete /\ UNCHANGED verdict
  <2>1. journal # NoJournal /\ journal.phase = "reports-persisted"
    BY <1>9 DEF Complete, PlaceInv, Unjournalled
  <2>2. /\ journal' # NoJournal /\ journal'.phase = "completed"
        /\ journal'.id = journal.id /\ journal'.tree = journal.tree
    BY <1>9, <2>1, Advanced DEF Complete, Phases
  <2>3. UNCHANGED <<issued, runs, cancellation, tested, verdict, finish, session>>
    BY <1>9 DEF Complete, recordVars, historyVars, countVars
  <2> QED
    BY <2>1, <2>2, <2>3 DEF JournalInv, Early, Tested, Reviewed, Reported
<1>10. CASE Discard /\ UNCHANGED verdict
  BY <1>10 DEF Discard, historyVars, countVars, JournalInv
<1>11. CASE MarkRestored /\ UNCHANGED verdict
  <2>1. journal # NoJournal /\ cancellation[journal.id] # NoCancellation
    BY <1>11 DEF MarkRestored, PlaceInv, RollbackInv, Unjournalled, Undone
  <2>2. UNCHANGED <<issued, journal, runs, tested, verdict, finish, session>>
    BY <1>11 DEF MarkRestored, historyVars, countVars
  <2> QED
    BY <2>1, <2>2 DEF JournalInv
<1>12. CASE Archive /\ UNCHANGED verdict
  <2>1. journal # NoJournal /\ cancellation[journal.id] # NoCancellation
    BY <1>12 DEF Archive, PlaceInv, RollbackInv, Unjournalled, Undone
  <2>2. UNCHANGED <<issued, journal, runs, tested, verdict, finish, session>>
    BY <1>12 DEF Archive, historyVars, countVars
  <2> QED
    BY <2>1, <2>2 DEF JournalInv
<1>13. CASE Drop /\ UNCHANGED verdict
  BY <1>13 DEF Drop, historyVars, countVars, JournalInv
<1>14. CASE Commit /\ UNCHANGED verdict
  <2>1. session'.finish = session.finish
    BY <1>14, StateTypes DEF Commit, Sessions
  <2> QED
    BY <1>14, <2>1 DEF Commit, historyVars, countVars, JournalInv
<1>15. CASE RecordCommit /\ UNCHANGED verdict
  <2>1. session'.finish = session.finish
    BY <1>15, StateTypes DEF RecordCommit, Sessions
  <2> QED
    BY <1>15, <2>1 DEF RecordCommit, historyVars, countVars, JournalInv
<1>16. CASE Publish /\ UNCHANGED verdict
  <2>1. /\ issued' = issued + 1 /\ journal' # NoJournal
        /\ journal' = [id |-> issued', phase |-> "projection-prepared", base |-> work,
                       tree |-> NoTree]
        /\ issued' \in Ids
    BY <1>16, Published
  <2>2. issued' > issued /\ issued' <= issued'
    BY <2>1, StateTypes
  <2>3. UNCHANGED <<runs, cancellation, tested, verdict, finish, session>>
    BY <1>16 DEF Publish, historyVars
  <2> QED
    BY <2>1, <2>2, <2>3 DEF JournalInv, FreshInv, Early, Tested, Reviewed, Reported
<1>17. CASE Cancel /\ UNCHANGED verdict
  <2>1. UNCHANGED <<issued, journal, runs, tested, verdict, finish, session>>
    BY <1>17 DEF Cancel, historyVars, countVars
  <2>2. cancellation' = cancellation \/ Cancellable
    BY <1>17 DEF Cancel
  <2> QED
    BY <2>1, <2>2 DEF JournalInv, Cancellable, Early
<1>18. CASE Abort /\ UNCHANGED verdict
  <2>1. session'.finish = session.finish
    BY <1>18, StateTypes DEF Abort, Sessions
  <2> QED
    BY <1>18, <2>1 DEF Abort, historyVars, countVars, JournalInv
<1>19. CASE Review
  <2>1. /\ journal.phase = "checked"
        /\ UNCHANGED <<issued, journal, runs, cancellation, tested, finish, session>>
    BY <1>19 DEF Review, recordVars, historyVars, countVars
  <2> QED
    BY <2>1 DEF JournalInv, Reviewed
<1> QED
  BY <1>1, <1>2, <1>3, <1>4, <1>5, <1>6, <1>7, <1>8, <1>9, <1>10, <1>11, <1>12, <1>13,
     <1>14, <1>15, <1>16, <1>17, <1>18, <1>19, QuietSteps, NextCases DEF Quiet,
     recordVars, historyVars, JournalInv

\* Nothing becomes known of a transaction before it is published.
LEMMA FreshStep ==
  ASSUME FinalizeInv, FinalizeNext
  PROVE  FreshInv'
<1> USE DEF FinalizeInv
<1>1. CASE StartChecks /\ UNCHANGED verdict
  <2>1. journal # NoJournal /\ issued' = issued
    BY <1>1 DEF StartChecks, PlaceInv, Unjournalled, countVars
  <2>2. \A i \in Ids : i > issued => i # journal.id
    BY <2>1, JournalType, StateTypes DEF JournalInv
  <2> QED
    BY <1>1, <2>1, <2>2, StateTypes DEF StartChecks, FreshInv, recordVars, historyVars
<1>2. CASE Report /\ UNCHANGED verdict
  <2>1. journal # NoJournal /\ issued' = issued
    BY <1>2 DEF Report, PlaceInv, Unjournalled, countVars
  <2>2. \A i \in Ids : i > issued => i # journal.id
    BY <2>1, JournalType, StateTypes DEF JournalInv
  <2> QED
    BY <1>2, <2>1, <2>2, StateTypes DEF Report, FreshInv, recordVars, historyVars
<1>3. CASE Pointers /\ UNCHANGED verdict
  <2>1. journal # NoJournal /\ issued' = issued
    BY <1>3 DEF Pointers, Fail, PlaceInv, Unjournalled, countVars
  <2>2. \A i \in Ids : i > issued => i # journal.id
    BY <2>1, JournalType, StateTypes DEF JournalInv
  <2> QED
    BY <1>3, <2>1, <2>2, StateTypes DEF Pointers, Fail, Sessions, FreshInv, recordVars,
       historyVars
<1>4. CASE MarkRestored /\ UNCHANGED verdict
  <2>1. journal # NoJournal /\ issued' = issued
    BY <1>4 DEF MarkRestored, PlaceInv, Unjournalled, countVars
  <2>2. \A i \in Ids : i > issued => i # journal.id
    BY <2>1, JournalType, StateTypes DEF JournalInv
  <2> QED
    BY <1>4, <2>1, <2>2, StateTypes DEF MarkRestored, FreshInv, recordVars, historyVars
<1>5. CASE Archive /\ UNCHANGED verdict
  <2>1. journal # NoJournal /\ issued' = issued
    BY <1>5 DEF Archive, PlaceInv, Unjournalled, countVars
  <2>2. \A i \in Ids : i > issued => i # journal.id
    BY <2>1, JournalType, StateTypes DEF JournalInv
  <2> QED
    BY <1>5, <2>1, <2>2, StateTypes DEF Archive, FreshInv, recordVars, historyVars
<1>6. CASE Commit /\ UNCHANGED verdict
  BY <1>6, StateTypes DEF Commit, FreshInv, Sessions, historyVars, countVars
<1>7. CASE RecordCommit /\ UNCHANGED verdict
  BY <1>7, StateTypes DEF RecordCommit, FreshInv, Sessions, historyVars, countVars
<1>8. CASE Publish /\ UNCHANGED verdict
  <2>1. issued' = issued + 1 /\ UNCHANGED <<runs, cancellation, finish, session>>
    BY <1>8 DEF Publish, historyVars
  <2>2. \A i \in Ids : i > issued' => i > issued
    BY <2>1, StateTypes
  <2> QED
    BY <2>1, <2>2 DEF FreshInv
<1>9. CASE Cancel /\ UNCHANGED verdict
  <2>1. journal # NoJournal /\ issued' = issued
    BY <1>9 DEF Cancel, countVars
  <2>2. \A i \in Ids : i > issued => i # journal.id
    BY <2>1, JournalType, StateTypes DEF JournalInv
  <2> QED
    BY <1>9, <2>1, <2>2, StateTypes DEF Cancel, FreshInv, recordVars, historyVars
<1>10. CASE Abort /\ UNCHANGED verdict
  BY <1>10, StateTypes DEF Abort, FreshInv, Sessions, historyVars, countVars
<1> QED
  BY <1>1, <1>2, <1>3, <1>4, <1>5, <1>6, <1>7, <1>8, <1>9, <1>10, QuietSteps, NextCases
     DEF Quiet, recordVars, historyVars, countVars, FreshInv, Prepare, Inspect, EndChecks,
     Verify, AdvanceStaged, Complete, Discard, Drop, Review, Fail

\* The checks of a transaction are started when they were not yet.
LEMMA RunsStep ==
  ASSUME FinalizeInv, FinalizeNext
  PROVE  RunsInv'
<1> USE DEF FinalizeInv
<1>1. CASE CheckBase /\ UNCHANGED verdict
  <2>1. UNCHANGED runs
    BY <1>1 DEF CheckBase, Fail, historyVars
  <2>2. at' \notin {"start checks", "checking"}
    BY <1>1 DEF CheckBase, Fail
  <2> QED
    BY <2>1, <2>2 DEF RunsInv
<1>2. CASE (\E f \in Files : Apply(f)) /\ UNCHANGED verdict
  <2>1. UNCHANGED runs
    BY <1>2 DEF Apply, Fail, historyVars
  <2>2. at' \notin {"start checks", "checking"}
    BY <1>2 DEF Apply, Fail
  <2> QED
    BY <2>1, <2>2 DEF RunsInv
<1>3. CASE Prepare /\ UNCHANGED verdict
  <2>1. UNCHANGED runs
    BY <1>3 DEF Prepare, Fail, historyVars
  <2>2. at' \notin {"start checks", "checking"}
    BY <1>3 DEF Prepare, Fail, Move
  <2> QED
    BY <2>1, <2>2 DEF RunsInv
<1>4. CASE InspectFails /\ UNCHANGED verdict
  <2>1. UNCHANGED runs
    BY <1>4 DEF InspectFails, Fail, historyVars
  <2>2. at' \notin {"start checks", "checking"}
    BY <1>4 DEF InspectFails, Fail
  <2> QED
    BY <2>1, <2>2 DEF RunsInv
<1>5. CASE Inspect /\ UNCHANGED verdict
  <2>1. CASE at' # "start checks"
    <3>1. UNCHANGED runs /\ at' # "checking"
      BY <1>5 DEF Inspect, Move, historyVars
    <3> QED
      BY <2>1, <3>1 DEF RunsInv
  <2>2. CASE at' = "start checks"
    <3>1. journal.phase = "candidate-prepared" /\ Advance("checks-running") /\ UNCHANGED runs
      BY <1>5, <2>2 DEF Inspect, BeginChecks, Move, historyVars
    <3>2. journal # NoJournal
      BY <1>5 DEF Inspect, PlaceInv, Unjournalled
    <3>3. journal'.id = journal.id
      BY <3>1, <3>2, Advanced DEF Phases
    <3> QED
      BY <2>2, <3>1, <3>2, <3>3 DEF RunsInv, JournalInv, Early
  <2> QED
    BY <2>1, <2>2
<1>6. CASE StartChecks /\ UNCHANGED verdict
  <2>1. journal # NoJournal /\ journal.id \in Ids
    BY <1>6, JournalType DEF StartChecks, PlaceInv, Unjournalled
  <2>2. runs[journal.id] = 0 /\ UNCHANGED journal /\ at' = "checking"
    BY <1>6 DEF StartChecks, Move, RunsInv, recordVars
  <2>3. runs \in [Ids -> Nat] /\ runs' = [runs EXCEPT ![journal.id] = runs[journal.id] + 1]
    BY <1>6, StateTypes DEF StartChecks
  <2>4. runs'[journal.id] = 1 /\ \A i \in Ids \ {journal.id} : runs'[i] = runs[i]
    BY <2>1, <2>2, <2>3
  <2> QED
    BY <2>1, <2>2, <2>4 DEF RunsInv
<1>7. CASE EndChecks /\ UNCHANGED verdict
  <2>1. UNCHANGED runs
    BY <1>7 DEF EndChecks, Fail, historyVars
  <2>2. at' \notin {"start checks", "checking"}
    BY <1>7 DEF EndChecks, Fail, Move, Advance
  <2> QED
    BY <2>1, <2>2 DEF RunsInv
<1>8. CASE Stage /\ UNCHANGED verdict
  <2>1. UNCHANGED runs
    BY <1>8 DEF Stage, Fail, historyVars
  <2>2. at' \notin {"start checks", "checking"}
    BY <1>8 DEF Stage, Fail, Move
  <2> QED
    BY <2>1, <2>2 DEF RunsInv
<1>9. CASE Add /\ UNCHANGED verdict
  <2>1. UNCHANGED runs
    BY <1>9 DEF Add, historyVars
  <2>2. at' \notin {"start checks", "checking"}
    BY <1>9 DEF Add, Move
  <2> QED
    BY <2>1, <2>2 DEF RunsInv
<1>10. CASE Verify /\ UNCHANGED verdict
  <2>1. UNCHANGED runs
    BY <1>10 DEF Verify, historyVars
  <2>2. at' \notin {"start checks", "checking"}
    BY <1>10 DEF Verify, Move, Advance
  <2> QED
    BY <2>1, <2>2 DEF RunsInv
<1>11. CASE AdvanceStaged /\ UNCHANGED verdict
  <2>1. UNCHANGED runs
    BY <1>11 DEF AdvanceStaged, historyVars
  <2>2. at' \notin {"start checks", "checking"}
    BY <1>11 DEF AdvanceStaged, Move, Advance
  <2> QED
    BY <2>1, <2>2 DEF RunsInv
<1>12. CASE Report /\ UNCHANGED verdict
  <2>1. UNCHANGED runs
    BY <1>12 DEF Report, historyVars
  <2>2. at' \notin {"start checks", "checking"}
    BY <1>12 DEF Report, Move, Advance
  <2> QED
    BY <2>1, <2>2 DEF RunsInv
<1>13. CASE Pointers /\ UNCHANGED verdict
  <2>1. UNCHANGED runs
    BY <1>13 DEF Pointers, Fail, historyVars
  <2>2. at' \notin {"start checks", "checking"}
    BY <1>13 DEF Pointers, Move, Fail
  <2> QED
    BY <2>1, <2>2 DEF RunsInv
<1>14. CASE Complete /\ UNCHANGED verdict
  <2>1. UNCHANGED runs
    BY <1>14 DEF Complete, historyVars
  <2>2. at' \notin {"start checks", "checking"}
    BY <1>14 DEF Complete, Move, Advance
  <2> QED
    BY <2>1, <2>2 DEF RunsInv
<1>15. CASE RestoreIndex /\ UNCHANGED verdict
  <2>1. UNCHANGED runs
    BY <1>15 DEF RestoreIndex, historyVars
  <2>2. at' \notin {"start checks", "checking"}
    BY <1>15 DEF RestoreIndex
  <2> QED
    BY <2>1, <2>2 DEF RunsInv
<1>16. CASE (\E f \in Files : RestoreFile(f)) /\ UNCHANGED verdict
  <2>1. UNCHANGED runs
    BY <1>16 DEF RestoreFile, historyVars
  <2>2. at' \notin {"start checks", "checking"}
    BY <1>16 DEF RestoreFile
  <2> QED
    BY <2>1, <2>2 DEF RunsInv
<1>17. CASE Discard /\ UNCHANGED verdict
  <2>1. UNCHANGED runs
    BY <1>17 DEF Discard, historyVars
  <2>2. at' \notin {"start checks", "checking"}
    BY <1>17 DEF Discard, Move
  <2> QED
    BY <2>1, <2>2 DEF RunsInv
<1>18. CASE MarkRestored /\ UNCHANGED verdict
  <2>1. UNCHANGED runs
    BY <1>18 DEF MarkRestored, historyVars
  <2>2. at' \notin {"start checks", "checking"}
    BY <1>18 DEF MarkRestored, Move
  <2> QED
    BY <2>1, <2>2 DEF RunsInv
<1>19. CASE Archive /\ UNCHANGED verdict
  <2>1. UNCHANGED runs
    BY <1>19 DEF Archive, historyVars
  <2>2. at' \notin {"start checks", "checking"}
    BY <1>19 DEF Archive, Move
  <2> QED
    BY <2>1, <2>2 DEF RunsInv
<1>20. CASE Drop /\ UNCHANGED verdict
  <2>1. UNCHANGED runs
    BY <1>20 DEF Drop, historyVars
  <2>2. at' \notin {"start checks", "checking"}
    BY <1>20 DEF Drop, Move
  <2> QED
    BY <2>1, <2>2 DEF RunsInv
<1>21. CASE Commit /\ UNCHANGED verdict
  <2>1. UNCHANGED runs
    BY <1>21 DEF Commit, historyVars
  <2>2. at' \notin {"start checks", "checking"}
    BY <1>21 DEF Commit, Move, Resumption
  <2> QED
    BY <2>1, <2>2 DEF RunsInv
<1>22. CASE UpdateRef /\ UNCHANGED verdict
  <2>1. UNCHANGED runs
    BY <1>22 DEF UpdateRef, historyVars
  <2>2. at' \notin {"start checks", "checking"}
    BY <1>22 DEF UpdateRef, Move
  <2> QED
    BY <2>1, <2>2 DEF RunsInv
<1>23. CASE RecordCommit /\ UNCHANGED verdict
  <2>1. UNCHANGED runs
    BY <1>23 DEF RecordCommit, historyVars
  <2>2. at' \notin {"start checks", "checking"}
    BY <1>23 DEF RecordCommit, Move
  <2> QED
    BY <2>1, <2>2 DEF RunsInv
<1>24. CASE Publish /\ UNCHANGED verdict
  <2>1. UNCHANGED runs
    BY <1>24 DEF Publish, historyVars
  <2>2. at' \notin {"start checks", "checking"}
    BY <1>24 DEF Publish
  <2> QED
    BY <2>1, <2>2 DEF RunsInv
<1>25. CASE (Resume("finalize") \/ Resume("recover")) /\ UNCHANGED verdict
  <2>1. UNCHANGED runs
    BY <1>25 DEF Resume, historyVars
  <2>2. at' \notin {"start checks", "checking"}
    BY <1>25 DEF Resume
  <2> QED
    BY <2>1, <2>2 DEF RunsInv
<1>26. CASE Cancel /\ UNCHANGED verdict
  <2>1. UNCHANGED runs
    BY <1>26 DEF Cancel, historyVars
  <2>2. at' \notin {"start checks", "checking"}
    BY <1>26 DEF Cancel
  <2> QED
    BY <2>1, <2>2 DEF RunsInv
<1>27. CASE BeginCommit /\ UNCHANGED verdict
  <2>1. UNCHANGED runs
    BY <1>27 DEF BeginCommit, historyVars
  <2>2. at' \notin {"start checks", "checking"}
    BY <1>27 DEF BeginCommit
  <2> QED
    BY <2>1, <2>2 DEF RunsInv
<1>28. CASE Die /\ UNCHANGED verdict
  <2>1. UNCHANGED runs
    BY <1>28 DEF Die, historyVars
  <2>2. at' \notin {"start checks", "checking"}
    BY <1>28 DEF Die
  <2> QED
    BY <2>1, <2>2 DEF RunsInv
<1> QED
  BY <1>1, <1>2, <1>3, <1>4, <1>5, <1>6, <1>7, <1>8, <1>9, <1>10, <1>11, <1>12, <1>13,
     <1>14, <1>15, <1>16, <1>17, <1>18, <1>19, <1>20, <1>21, <1>22, <1>23, <1>24, <1>25,
     <1>26, <1>27, <1>28, NextCases DEF RunsInv, recordVars, historyVars, Abort, Review,
     Edit, UndoEdit

\* The command stands where its journal allows it.
LEMMA PlaceStep ==
  ASSUME FinalizeInv, FinalizeNext
  PROVE  PlaceInv'
<1> USE DEF FinalizeInv
<1>1. CASE CheckBase /\ UNCHANGED verdict
  BY <1>1 DEF CheckBase, Fail, PlaceInv, Unjournalled, Passed, recordVars
<1>2. CASE (\E f \in Files : Apply(f)) /\ UNCHANGED verdict
  BY <1>2 DEF Apply, Fail, PlaceInv, Unjournalled, Passed, recordVars
<1>3. CASE Prepare /\ UNCHANGED verdict
  <2>1. journal # NoJournal /\ kind # "cancel"
    BY <1>3 DEF Prepare, PlaceInv, Unjournalled
  <2>2. CASE at' = "inspect" /\ journal' # NoJournal
    BY <1>3, <2>1, <2>2 DEF Prepare, Fail, Move, PlaceInv, Unjournalled, Passed
  <2>3. CASE at' # "inspect"
    BY <1>3, <2>1, <2>3 DEF Prepare, Fail, Move, PlaceInv, Unjournalled, Passed, recordVars
  <2> QED
    BY <1>3, <2>1, <2>2, <2>3, Prepared DEF Prepare, Fail
<1>4. CASE InspectFails /\ UNCHANGED verdict
  BY <1>4 DEF InspectFails, Fail, PlaceInv, Unjournalled, Passed, recordVars
<1>5. CASE Inspect /\ UNCHANGED verdict
  BY <1>5, Advanced DEF Inspect, Advance, Move, BeginChecks, PlaceInv, Unjournalled,
     Passed, Phases, Staged, recordVars
<1>6. CASE StartChecks /\ UNCHANGED verdict
  BY <1>6 DEF StartChecks, Move, PlaceInv, Unjournalled, Passed, recordVars
<1>7. CASE EndChecks /\ UNCHANGED verdict
  BY <1>7, Advanced DEF EndChecks, Fail, Move, Advance, PlaceInv, Unjournalled, Passed,
     Phases, recordVars
<1>8. CASE Stage /\ UNCHANGED verdict
  BY <1>8 DEF Stage, Fail, Move, PlaceInv, Unjournalled, Passed, recordVars
<1>9. CASE Add /\ UNCHANGED verdict
  BY <1>9 DEF Add, Move, PlaceInv, Unjournalled, Passed, recordVars
<1>10. CASE Verify /\ UNCHANGED verdict
  BY <1>10, Advanced DEF Verify, Move, Advance, PlaceInv, Unjournalled, Passed, Phases,
     Staged, recordVars
<1>11. CASE AdvanceStaged /\ UNCHANGED verdict
  BY <1>11, Advanced DEF AdvanceStaged, Move, Advance, PlaceInv, Unjournalled, Passed,
     Phases, recordVars
<1>12. CASE Report /\ UNCHANGED verdict
  BY <1>12, Advanced DEF Report, Move, Advance, PlaceInv, Unjournalled, Passed, Phases,
     recordVars
<1>13. CASE Pointers /\ UNCHANGED verdict
  BY <1>13 DEF Pointers, Move, Fail, PlaceInv, Unjournalled, Passed, recordVars
<1>14. CASE Complete /\ UNCHANGED verdict
  BY <1>14, Advanced DEF Complete, Move, Advance, PlaceInv, Unjournalled, Passed, Phases,
     recordVars
<1>15. CASE RestoreIndex /\ UNCHANGED verdict
  BY <1>15 DEF RestoreIndex, PlaceInv, Unjournalled, Passed, recordVars
<1>16. CASE (\E f \in Files : RestoreFile(f)) /\ UNCHANGED verdict
  BY <1>16 DEF RestoreFile, PlaceInv, Unjournalled, Passed, recordVars
<1>17. CASE Discard /\ UNCHANGED verdict
  BY <1>17 DEF Discard, Move, PlaceInv, Unjournalled, Passed, recordVars
<1>18. CASE MarkRestored /\ UNCHANGED verdict
  BY <1>18 DEF MarkRestored, Move, PlaceInv, Unjournalled, Passed, recordVars
<1>19. CASE Archive /\ UNCHANGED verdict
  BY <1>19 DEF Archive, Move, PlaceInv, Unjournalled, Passed, recordVars
<1>20. CASE Drop /\ UNCHANGED verdict
  BY <1>20 DEF Drop, Move, PlaceInv, Unjournalled, Passed, recordVars
<1>21. CASE Commit /\ UNCHANGED verdict
  BY <1>21 DEF Commit, Move, PlaceInv, Unjournalled, Passed, Resumption, recordVars
<1>22. CASE UpdateRef /\ UNCHANGED verdict
  BY <1>22 DEF UpdateRef, Move, PlaceInv, Unjournalled, Passed, recordVars
<1>23. CASE RecordCommit /\ UNCHANGED verdict
  BY <1>23 DEF RecordCommit, Move, PlaceInv, Unjournalled, Passed, recordVars
<1>24. CASE Publish /\ UNCHANGED verdict
  <2>1. /\ at' = "base" /\ kind' = "finalize" /\ journal' # NoJournal
        /\ journal'.phase = "projection-prepared"
    BY <1>24, Published DEF Publish
  <2> QED
    BY <2>1 DEF PlaceInv, Unjournalled, Passed
<1>25. CASE (Resume("finalize") \/ Resume("recover")) /\ UNCHANGED verdict
  BY <1>25 DEF Resume, PlaceInv, Unjournalled, Passed, recordVars
<1>26. CASE Cancel /\ UNCHANGED verdict
  BY <1>26 DEF Cancel, PlaceInv, Unjournalled, Passed, recordVars
<1>27. CASE BeginCommit /\ UNCHANGED verdict
  BY <1>27 DEF BeginCommit, PlaceInv, Unjournalled, Passed, recordVars
<1>28. CASE Abort /\ UNCHANGED verdict
  BY <1>28 DEF Abort, PlaceInv, Unjournalled, Passed, recordVars
<1>29. CASE Review
  BY <1>29 DEF Review, PlaceInv, Unjournalled, Passed, recordVars
<1>30. CASE Edit /\ UNCHANGED verdict
  BY <1>30 DEF Edit, PlaceInv, Unjournalled, Passed, recordVars
<1>31. CASE UndoEdit /\ UNCHANGED verdict
  BY <1>31 DEF UndoEdit, PlaceInv, Unjournalled, Passed, recordVars
<1>32. CASE Die /\ UNCHANGED verdict
  BY <1>32 DEF Die, PlaceInv, Unjournalled, Passed, recordVars
<1> QED
  BY <1>1, <1>2, <1>3, <1>4, <1>5, <1>6, <1>7, <1>8, <1>9, <1>10, <1>11, <1>12, <1>13,
     <1>14, <1>15, <1>16, <1>17, <1>18, <1>19, <1>20, <1>21, <1>22, <1>23, <1>24, <1>25,
     <1>26, <1>27, <1>28, <1>29, <1>30, <1>31, <1>32, NextCases

-----------------------------------------------------------------------------
(* What a step leaves alone *)

\* A transaction stays in the journal until it is discarded or dropped, and is
\* followed by a new one only when there is none.
LEMMA JournalAfter ==
  ASSUME FinalizeInv, FinalizeNext
  PROVE  /\ journal' = NoJournal => journal = NoJournal \/ Discard \/ Drop
         /\ journal' # NoJournal =>
              Publish \/ (journal # NoJournal /\ journal'.id = journal.id)
<1> USE DEF FinalizeInv
<1>1. CASE Prepare
  <2>1. journal # NoJournal
    BY <1>1 DEF Prepare, PlaceInv, Unjournalled
  <2> QED
    BY <1>1, <2>1, Prepared DEF Prepare, Fail, recordVars
<1>2. CASE Inspect
  <2>1. journal # NoJournal
    BY <1>2 DEF Inspect, PlaceInv, Unjournalled
  <2> QED
    BY <1>2, <2>1, Advanced DEF Inspect, BeginChecks, Phases
<1>3. CASE EndChecks
  <2>1. journal # NoJournal
    BY <1>3 DEF EndChecks, PlaceInv, Unjournalled
  <2> QED
    BY <1>3, <2>1, Advanced DEF EndChecks, Fail, recordVars, Phases
<1>4. CASE Verify
  <2>1. journal # NoJournal
    BY <1>4 DEF Verify, PlaceInv, Unjournalled
  <2> QED
    BY <1>4, <2>1, Advanced DEF Verify, recordVars, Phases
<1>5. CASE AdvanceStaged
  <2>1. journal # NoJournal
    BY <1>5 DEF AdvanceStaged, PlaceInv, Unjournalled
  <2> QED
    BY <1>5, <2>1, Advanced DEF AdvanceStaged, Phases
<1>6. CASE Report
  <2>1. journal # NoJournal
    BY <1>6 DEF Report, PlaceInv, Unjournalled
  <2> QED
    BY <1>6, <2>1, Advanced DEF Report, Phases
<1>7. CASE Complete
  <2>1. journal # NoJournal
    BY <1>7 DEF Complete, PlaceInv, Unjournalled
  <2> QED
    BY <1>7, <2>1, Advanced DEF Complete, Phases
<1>8. CASE MarkRestored \/ Archive
  BY <1>8 DEF MarkRestored, Archive
<1>9. CASE Pointers \/ StartChecks
  BY <1>9 DEF Pointers, StartChecks, Fail, recordVars
<1>10. CASE Cancel \/ Commit \/ RecordCommit \/ Abort \/ Review
  BY <1>10 DEF Cancel, Commit, RecordCommit, Abort, Review, recordVars
<1> QED
  BY <1>1, <1>2, <1>3, <1>4, <1>5, <1>6, <1>7, <1>8, <1>9, <1>10, QuietSteps, Published,
     NextCases DEF Quiet, recordVars, Drop, Discard

\* The session takes the reports of a transaction in one step only.
LEMMA FinishAfter ==
  ASSUME FinalizeInv, FinalizeNext
  PROVE  session'.finish = session.finish \/ Pointers
<1>1. CASE Commit \/ RecordCommit \/ Abort
  BY <1>1, StateTypes DEF FinalizeInv, Commit, RecordCommit, Abort, Sessions
<1> QED
  BY <1>1, QuietSteps, NextCases DEF Quiet, recordVars,
     Prepare, Inspect, StartChecks, EndChecks, Verify, AdvanceStaged, Report, Complete,
     Discard, MarkRestored, Archive, Drop, Publish, Cancel, Review, Fail

\* A transaction is undone for its cancellation in one step only.
LEMMA UndoneAfter ==
  ASSUME FinalizeInv, FinalizeNext, NEW i \in Undone'
  PROVE  i \in Undone \/ (MarkRestored /\ i = journal.id)
<1> USE DEF FinalizeInv
<1>1. CASE MarkRestored
  BY <1>1, StateTypes DEF MarkRestored, Undone
<1>2. CASE Archive
  BY <1>2, StateTypes DEF Archive, Undone, RollbackInv
<1>3. CASE Cancel
  <2>1. \/ cancellation' = cancellation
        \/ cancellation' = [cancellation EXCEPT ![journal.id] =
                              [phase |-> "requested", of |-> journal]]
    BY <1>3 DEF Cancel
  <2> QED
    BY <2>1, StateTypes DEF Undone
<1>4. CASE UNCHANGED cancellation
  BY <1>4 DEF Undone
<1> QED
  BY <1>1, <1>2, <1>3, <1>4, QuietSteps, NextCases DEF Quiet, recordVars,
     Prepare, Inspect, StartChecks, EndChecks, Verify, AdvanceStaged, Report, Pointers,
     Complete, Discard, Drop, Commit, RecordCommit, Publish, Abort, Review, Fail

\* Nothing is projected or staged but by the two steps that do it.
LEMMA CleanAfter ==
  ASSUME FinalizeInv, FinalizeNext, Clean, at \notin {"apply", "add"}
  PROVE  Clean'
<1> USE StateTypes, TreesAssumption DEF FinalizeInv
<1>1. CASE Verify
  BY <1>1 DEF Verify, Clean
<1>2. CASE RestoreIndex
  BY <1>2 DEF RestoreIndex, Clean
<1>3. CASE \E f \in Files : RestoreFile(f)
  BY <1>3 DEF RestoreFile, Clean
<1>4. CASE Edit
  BY <1>4 DEF Edit, Clean
<1>5. CASE UndoEdit
  BY <1>5 DEF UndoEdit, Clean
<1>6. CASE UNCHANGED <<text, index>>
  BY <1>6 DEF Clean
<1> QED
  BY <1>1, <1>2, <1>3, <1>4, <1>5, <1>6, NextCases DEF worktreeVars,
     CheckBase, Fail, Apply, Prepare, Move, InspectFails, Inspect, Advance, BeginChecks,
     StartChecks, EndChecks, Stage, Add, AdvanceStaged, Report, Pointers, Complete,
     Discard, MarkRestored, Archive, Drop, Commit, UpdateRef, RecordCommit, Publish,
     Resume, Cancel, BeginCommit, Abort, Review, Die

\* The two steps that advance a cancellation.
LEMMA Cancelling ==
  ASSUME FinalizeInv, MarkRestored \/ Archive
  PROVE  /\ journal # NoJournal /\ UNCHANGED journal
         /\ cancellation' \in [Ids -> Cancellations \cup {NoCancellation}]
         /\ journal.id \in Undone'
<1> USE DEF FinalizeInv
<1>1. /\ journal # NoJournal /\ UNCHANGED journal
      /\ cancellation[journal.id] # NoCancellation
  BY DEF MarkRestored, Archive, PlaceInv, RollbackInv, Undone, Unjournalled
<1>2. cancellation[journal.id] \in Cancellations /\ journal.id \in Ids
  BY <1>1, StateTypes, JournalType
<1>3. PICK p \in {"projection-restored", "completed"} :
        cancellation' = [cancellation EXCEPT ![journal.id].phase = p]
  BY DEF MarkRestored, Archive
<1>4. cancellation'[journal.id] = [phase |-> p, of |-> cancellation[journal.id].of]
  BY <1>2, <1>3, StateTypes DEF Cancellations
<1>5. cancellation'[journal.id] \in Cancellations
  BY <1>2, <1>4 DEF Cancellations
<1>6. \A i \in Ids \ {journal.id} : cancellation'[i] = cancellation[i]
  BY <1>3, StateTypes
<1>7. cancellation' \in [Ids -> Cancellations \cup {NoCancellation}]
  BY <1>2, <1>3, <1>5, <1>6, StateTypes
<1> QED
  BY <1>1, <1>2, <1>4, <1>5, <1>7, SentinelsAssumption DEF Undone

\* A cancellation that is requested.
LEMMA Requested ==
  ASSUME FinalizeInv, Cancel
  PROVE  /\ cancellation' \in [Ids -> Cancellations \cup {NoCancellation}]
         /\ cancellation'[journal.id] # NoCancellation
         /\ \/ cancellation' = cancellation
            \/ at' \in {"idle", "restore index"}
<1> USE DEF FinalizeInv
<1>1. journal # NoJournal
  BY DEF Cancel
<1>2. CASE cancellation[journal.id] # NoCancellation
  BY <1>1, <1>2, StateTypes DEF Cancel
<1>3. CASE cancellation[journal.id] = NoCancellation
  <2>1. /\ cancellation' = [cancellation EXCEPT ![journal.id] =
                             [phase |-> "requested", of |-> journal]]
        /\ Cancellable /\ at' \in {"idle", "restore index"}
    BY <1>3 DEF Cancel
  <2>2. [phase |-> "requested", of |-> journal] \in Cancellations
    BY <1>1, <2>1, JournalType DEF Cancellations, Cancellable
  <2>3. cancellation'[journal.id] = [phase |-> "requested", of |-> journal]
    BY <1>1, <2>1, StateTypes, JournalType
  <2>4. cancellation' \in [Ids -> Cancellations \cup {NoCancellation}]
    BY <1>1, <2>1, <2>2, StateTypes, JournalType
  <2> QED
    BY <2>1, <2>2, <2>3, <2>4, SentinelsAssumption
<1> QED
  BY <1>2, <1>3

-----------------------------------------------------------------------------
(* Rollback, cancellation, projections, reports, types *)

\* A rollback knows what it has undone; a cancellation, how far it is.
LEMMA RollbackStep ==
  ASSUME FinalizeInv, FinalizeNext
  PROVE  RollbackInv'
<1> USE DEF FinalizeInv
<1>1. CASE CheckBase /\ UNCHANGED verdict
  <2>1. CASE at' \notin {"restore index", "restore files", "archive", "drop"}
    BY <2>1 DEF RollbackInv
  <2>2. CASE at' = "restore index"
    <3>1. journal # NoJournal /\ kind' # "cancel" /\ session.finish # journal.id /\ todo' = Files
      BY <1>1, <2>2 DEF CheckBase, Fail, SessionHasReports, PlaceInv, JournalInv,
         Reported, Unjournalled, Passed
    <3>2. UNCHANGED <<journal, session>>
      BY <1>1, <2>2 DEF CheckBase, Fail, recordVars
    <3> QED
      BY <2>2, <3>1, <3>2 DEF RollbackInv
  <2> QED
    BY <1>1, <2>1, <2>2 DEF CheckBase, Fail
<1>2. CASE (\E f \in Files : Apply(f)) /\ UNCHANGED verdict
  <2>1. CASE at' \notin {"restore index", "restore files", "archive", "drop"}
    BY <2>1 DEF RollbackInv
  <2>2. CASE at' = "restore index"
    <3>1. journal # NoJournal /\ kind' # "cancel" /\ session.finish # journal.id /\ todo' = Files
      BY <1>2, <2>2 DEF Apply, Fail, SessionHasReports, PlaceInv, JournalInv, Reported,
         Unjournalled, Passed
    <3>2. UNCHANGED <<journal, session>>
      BY <1>2, <2>2 DEF Apply, Fail, recordVars
    <3> QED
      BY <2>2, <3>1, <3>2 DEF RollbackInv
  <2> QED
    BY <1>2, <2>1, <2>2 DEF Apply, Fail
<1>3. CASE Prepare /\ UNCHANGED verdict
  <2>1. CASE at' \notin {"restore index", "restore files", "archive", "drop"}
    BY <2>1 DEF RollbackInv
  <2>2. CASE at' = "restore index"
    <3>1. journal # NoJournal /\ kind' # "cancel" /\ session.finish # journal.id /\ todo' = Files
      BY <1>3, <2>2 DEF Prepare, Fail, Move, SessionHasReports, PlaceInv, JournalInv,
         Reported, Unjournalled, Passed
    <3>2. UNCHANGED <<journal, session>>
      BY <1>3, <2>2 DEF Prepare, Fail, Move, recordVars
    <3> QED
      BY <2>2, <3>1, <3>2 DEF RollbackInv
  <2> QED
    BY <1>3, <2>1, <2>2 DEF Prepare, Fail, Move
<1>4. CASE InspectFails /\ UNCHANGED verdict
  <2>1. CASE at' \notin {"restore index", "restore files", "archive", "drop"}
    BY <2>1 DEF RollbackInv
  <2>2. CASE at' = "restore index"
    <3>1. journal # NoJournal /\ kind' # "cancel" /\ session.finish # journal.id /\ todo' = Files
      BY <1>4, <2>2 DEF InspectFails, Fail, SessionHasReports, PlaceInv, JournalInv,
         Reported, Unjournalled, Passed
    <3>2. UNCHANGED <<journal, session>>
      BY <1>4, <2>2 DEF InspectFails, Fail, recordVars
    <3> QED
      BY <2>2, <3>1, <3>2 DEF RollbackInv
  <2> QED
    BY <1>4, <2>1, <2>2 DEF InspectFails, Fail
<1>5. CASE Inspect /\ UNCHANGED verdict
  BY <1>5 DEF Inspect, Advance, Move, BeginChecks, RollbackInv
<1>6. CASE StartChecks /\ UNCHANGED verdict
  BY <1>6 DEF StartChecks, Move, RollbackInv
<1>7. CASE EndChecks /\ UNCHANGED verdict
  <2>1. CASE at' \notin {"restore index", "restore files", "archive", "drop"}
    BY <2>1 DEF RollbackInv
  <2>2. CASE at' = "restore index"
    <3>1. journal # NoJournal /\ kind' # "cancel" /\ session.finish # journal.id /\ todo' = Files
      BY <1>7, <2>2 DEF EndChecks, Fail, Move, Advance, SessionHasReports, PlaceInv,
         JournalInv, Reported, Unjournalled, Passed
    <3>2. UNCHANGED <<journal, session>>
      BY <1>7, <2>2 DEF EndChecks, Fail, Move, Advance, recordVars
    <3> QED
      BY <2>2, <3>1, <3>2 DEF RollbackInv
  <2> QED
    BY <1>7, <2>1, <2>2 DEF EndChecks, Fail, Move, Advance
<1>8. CASE Stage /\ UNCHANGED verdict
  <2>1. CASE at' \notin {"restore index", "restore files", "archive", "drop"}
    BY <2>1 DEF RollbackInv
  <2>2. CASE at' = "restore index"
    <3>1. journal # NoJournal /\ kind' # "cancel" /\ session.finish # journal.id /\ todo' = Files
      BY <1>8, <2>2 DEF Stage, Fail, Move, SessionHasReports, PlaceInv, JournalInv,
         Reported, Unjournalled, Passed
    <3>2. UNCHANGED <<journal, session>>
      BY <1>8, <2>2 DEF Stage, Fail, Move, recordVars
    <3> QED
      BY <2>2, <3>1, <3>2 DEF RollbackInv
  <2> QED
    BY <1>8, <2>1, <2>2 DEF Stage, Fail, Move
<1>9. CASE Add /\ UNCHANGED verdict
  BY <1>9 DEF Add, Move, RollbackInv
<1>10. CASE Verify /\ UNCHANGED verdict
  <2>1. CASE at' \notin {"restore index", "restore files", "archive", "drop"}
    BY <2>1 DEF RollbackInv
  <2>2. CASE at' = "restore index"
    <3>1. journal # NoJournal /\ kind' # "cancel" /\ session.finish # journal.id /\ todo' = Files
      BY <1>10, <2>2 DEF Verify, Move, Advance, SessionHasReports, PlaceInv, JournalInv,
         Reported, Unjournalled, Passed
    <3>2. UNCHANGED <<journal, session>>
      BY <1>10, <2>2 DEF Verify, Move, Advance, recordVars
    <3> QED
      BY <2>2, <3>1, <3>2 DEF RollbackInv
  <2> QED
    BY <1>10, <2>1, <2>2 DEF Verify, Move, Advance
<1>11. CASE AdvanceStaged /\ UNCHANGED verdict
  BY <1>11 DEF AdvanceStaged, Move, Advance, RollbackInv
<1>12. CASE Report /\ UNCHANGED verdict
  BY <1>12 DEF Report, Move, Advance, RollbackInv
<1>13. CASE Pointers /\ UNCHANGED verdict
  <2>1. CASE at' \notin {"restore index", "restore files", "archive", "drop"}
    BY <2>1 DEF RollbackInv
  <2>2. CASE at' = "restore index"
    <3>1. journal # NoJournal /\ kind' # "cancel" /\ session.finish # journal.id /\ todo' = Files
      BY <1>13, <2>2 DEF Pointers, Move, Fail, SessionHasReports, PlaceInv, JournalInv,
         Reported, Unjournalled, Passed
    <3>2. UNCHANGED <<journal, session>>
      BY <1>13, <2>2 DEF Pointers, Move, Fail, recordVars
    <3> QED
      BY <2>2, <3>1, <3>2 DEF RollbackInv
  <2> QED
    BY <1>13, <2>1, <2>2 DEF Pointers, Move, Fail
<1>14. CASE Complete /\ UNCHANGED verdict
  BY <1>14 DEF Complete, Move, Advance, RollbackInv
<1>15. CASE RestoreIndex /\ UNCHANGED verdict
  <2>1. CASE at' = "idle"
    BY <2>1 DEF RollbackInv
  <2>2. CASE at' = "restore files"
    <3>1. index' \notin Trees /\ UNCHANGED <<kind, todo, text, journal, cancellation, session>>
      BY <1>15, <2>2, TreesAssumption DEF RestoreIndex, recordVars
    <3> QED
      BY <1>15, <2>2, <3>1 DEF RestoreIndex, RollbackInv
  <2> QED
    BY <1>15, <2>1, <2>2 DEF RestoreIndex
<1>16. CASE (\E f \in Files : RestoreFile(f)) /\ UNCHANGED verdict
  <2>1. CASE at' = "idle"
    BY <2>1 DEF RollbackInv
  <2>2. CASE at' # "idle"
    <3>1. PICK f \in Files : RestoreFile(f)
      BY <1>16
    <3>2. /\ at = "restore files" /\ at' = "restore files"
          /\ text' = [text EXCEPT ![f] = "before"] /\ todo' = todo \ {f}
          /\ UNCHANGED <<kind, index, journal, cancellation, session>>
      BY <2>2, <3>1 DEF RestoreFile, recordVars
    <3>3. \A g \in Files \ todo' : text'[g] # "after"
      BY <3>2, StateTypes DEF RollbackInv
    <3> QED
      BY <3>2, <3>3 DEF RollbackInv
  <2> QED
    BY <2>1, <2>2
<1>17. CASE Discard /\ UNCHANGED verdict
  BY <1>17 DEF Discard, Move, RollbackInv
<1>18. CASE MarkRestored /\ UNCHANGED verdict
  <2>1. at' = "archive"
    BY <1>18 DEF MarkRestored, Move
  <2> QED
    BY <1>18, <2>1, Cancelling DEF RollbackInv
<1>19. CASE Archive /\ UNCHANGED verdict
  <2>1. at' = "drop"
    BY <1>19 DEF Archive, Move
  <2> QED
    BY <1>19, <2>1, Cancelling DEF RollbackInv
<1>20. CASE Drop /\ UNCHANGED verdict
  BY <1>20 DEF Drop, Move, RollbackInv
<1>21. CASE Commit /\ UNCHANGED verdict
  BY <1>21 DEF Commit, Move, Resumption, RollbackInv
<1>22. CASE UpdateRef /\ UNCHANGED verdict
  BY <1>22 DEF UpdateRef, Move, RollbackInv
<1>23. CASE RecordCommit /\ UNCHANGED verdict
  BY <1>23 DEF RecordCommit, Move, RollbackInv
<1>24. CASE Publish /\ UNCHANGED verdict
  BY <1>24 DEF Publish, RollbackInv
<1>25. CASE (Resume("finalize") \/ Resume("recover")) /\ UNCHANGED verdict
  BY <1>25 DEF Resume, RollbackInv
<1>26. CASE Cancel /\ UNCHANGED verdict
  <2>1. CASE at' = "restore index"
    <3>1. /\ session.finish # journal.id /\ todo' = Files
          /\ UNCHANGED <<journal, session>>
      BY <1>26, <2>1 DEF Cancel, Restorable, SessionHasReports
    <3> QED
      BY <1>26, <2>1, <3>1, Requested DEF RollbackInv
  <2>2. CASE at' \in {"archive", "drop"}
    <3>1. UNCHANGED <<cancellation, journal>> /\ journal.id \in Ids
      BY <1>26, <2>2, Requested, JournalType DEF Cancel
    <3>2. /\ cancellation[journal.id] # NoCancellation
          /\ cancellation[journal.id].phase \in {"projection-restored", "completed"}
      BY <1>26, <2>2 DEF Cancel
    <3> QED
      BY <2>2, <3>1, <3>2 DEF RollbackInv, Undone
  <2>3. CASE at' = "idle"
    BY <2>3 DEF RollbackInv
  <2> QED
    BY <1>26, <2>1, <2>2, <2>3 DEF Cancel
<1>27. CASE BeginCommit /\ UNCHANGED verdict
  BY <1>27 DEF BeginCommit, RollbackInv
<1>28. CASE Abort /\ UNCHANGED verdict
  <2>1. at' = "idle"
    BY <1>28 DEF Abort
  <2> QED
    BY <2>1 DEF RollbackInv
<1>29. CASE Review
  BY <1>29 DEF Review, RollbackInv, Undone, recordVars, worktreeVars
<1>30. CASE Edit /\ UNCHANGED verdict
  <2>1. UNCHANGED <<at, kind, todo, journal, cancellation, session>>
    BY <1>30 DEF Edit, recordVars
  <2>2. index \notin Trees => index' \notin Trees
    BY <1>30, TreesAssumption DEF Edit
  <2>3. \A f \in Files : text[f] # "after" => text'[f] # "after"
    BY <1>30, StateTypes DEF Edit
  <2> QED
    BY <2>1, <2>2, <2>3 DEF RollbackInv, Undone
<1>31. CASE UndoEdit /\ UNCHANGED verdict
  BY <1>31 DEF UndoEdit, RollbackInv
<1>32. CASE Die /\ UNCHANGED verdict
  BY <1>32 DEF Die, RollbackInv
<1> QED
  BY <1>1, <1>2, <1>3, <1>4, <1>5, <1>6, <1>7, <1>8, <1>9, <1>10, <1>11, <1>12, <1>13,
     <1>14, <1>15, <1>16, <1>17, <1>18, <1>19, <1>20, <1>21, <1>22, <1>23, <1>24, <1>25,
     <1>26, <1>27, <1>28, <1>29, <1>30, <1>31, <1>32, NextCases

\* What is cancelled stays undone.
LEMMA CancelStep ==
  ASSUME FinalizeInv, FinalizeNext
  PROVE  CancelInv'
<1> USE DEF FinalizeInv
<1>1. \A i \in Undone' : session'.finish # i
  <2> SUFFICES ASSUME NEW i \in Undone' PROVE session'.finish # i
    OBVIOUS
  <2>1. CASE Pointers
    <3>1. journal.id \notin Undone /\ at = "pointers"
      BY <2>1 DEF Pointers, CancelInv, Passed
    <3>2. i \in Undone
      BY <3>1, UndoneAfter DEF MarkRestored
    <3>3. session'.finish \in {session.finish, journal.id}
      BY <2>1, StateTypes DEF Pointers, Fail, recordVars, Sessions
    <3> QED
      BY <3>1, <3>2, <3>3 DEF CancelInv
  <2>2. CASE ~Pointers
    BY <2>2, FinishAfter, UndoneAfter DEF CancelInv, RollbackInv, MarkRestored
  <2> QED
    BY <2>1, <2>2
<1>2. journal' # NoJournal /\ journal'.id \in Undone' => Clean'
  <2> SUFFICES ASSUME journal' # NoJournal, journal'.id \in Undone' PROVE Clean'
    OBVIOUS
  <2>1. CASE MarkRestored
    <3>1. Clean
      BY <2>1 DEF MarkRestored, Restored, RollbackInv, Clean
    <3>2. at \notin {"apply", "add"}
      BY <2>1 DEF MarkRestored
    <3> QED
      BY <3>1, <3>2, CleanAfter
  <2>2. CASE ~MarkRestored
    <3>1. journal'.id \in Undone
      BY <2>2, UndoneAfter
    <3>2. ~Publish
      <4>1. cancellation[journal'.id] # NoCancellation /\ journal'.id \in Ids
        BY <3>1 DEF Undone
      <4>2. ASSUME Publish PROVE journal'.id > issued
        <5>1. journal'.id = issued + 1
          BY <4>2, Published
        <5> QED
          BY <5>1, StateTypes
      <4> QED
        BY <4>1, <4>2 DEF FreshInv
    <3>3. journal # NoJournal /\ journal.id \in Undone
      BY <3>1, <3>2, JournalAfter
    <3>4. Clean
      BY <3>3 DEF CancelInv
    <3>5. at \notin {"apply", "add"}
      BY <3>3 DEF CancelInv, PlaceInv, JournalInv, Early, Passed, Undone
    <3> QED
      BY <3>4, <3>5, CleanAfter
  <2> QED
    BY <2>1, <2>2
<1>3. at' \in Passed => journal'.id \notin Undone'
  <2> SUFFICES ASSUME at' \in Passed PROVE journal'.id \notin Undone'
    OBVIOUS
  <2>1. UNCHANGED cancellation /\ journal'.id = journal.id /\ journal.id \notin Undone
    <3>1. CASE Inspect
      <4>1. journal # NoJournal /\ AsCandidate
        BY <3>1 DEF Inspect, InspectionFails, PlaceInv, Unjournalled
      <4>2. text[Tasks] = "after"
        BY <4>1 DEF AsCandidate, Files
      <4>3. ~Clean
        BY <4>2 DEF Clean, Files
      <4>4. UNCHANGED cancellation /\ journal' # NoJournal /\ journal'.id = journal.id
        BY <3>1, <4>1, Advanced DEF Inspect, BeginChecks, Phases
      <4> QED
        BY <4>1, <4>3, <4>4 DEF CancelInv
    <3>2. CASE at \in Passed
      <4>1. journal # NoJournal /\ at \notin {"restore files", "archive", "drop", "idle"}
        BY <3>2 DEF PlaceInv, Unjournalled, Passed
      <4>2. UNCHANGED cancellation
        BY <4>1, QuietSteps, NextCases DEF Quiet, recordVars, Prepare, Inspect,
           StartChecks, EndChecks, Verify, AdvanceStaged, Report, Pointers, Complete,
           Discard, MarkRestored, Archive, Drop, Commit, RecordCommit, Publish, Cancel,
           Abort, Review, Fail
      <4>3. journal' # NoJournal
        BY <4>1, JournalAfter DEF Discard, Drop
      <4>4. journal'.id = journal.id
        BY <4>1, <4>3, JournalAfter DEF Publish
      <4> QED
        BY <3>2, <4>2, <4>4 DEF CancelInv
    <3>3. CASE ~Inspect /\ at \notin Passed
      BY <3>3, NextCases DEF Passed, Resumption, Places, CheckBase, Fail, Apply, Prepare,
         Move, InspectFails, StartChecks, EndChecks, Advance, Stage, Add, Verify,
         AdvanceStaged, Report, Pointers, Complete, RestoreIndex, RestoreFile, Discard,
         MarkRestored, Archive, Drop, Commit, UpdateRef, RecordCommit, Publish, Resume,
         Cancel, BeginCommit, Abort, Review, Edit, UndoEdit, Die
    <3> QED
      BY <3>1, <3>2, <3>3
  <2> QED
    BY <2>1 DEF Undone
<1> QED
  BY <1>1, <1>2, <1>3 DEF CancelInv

\* Only a rollback to its end, or a cancellation, ends the journal of a projection.
LEMMA ProjectionStep ==
  ASSUME FinalizeInv, FinalizeNext
  PROVE  ProjectionsAreJournalled'
<1> USE DEF FinalizeInv
<1> SUFFICES ASSUME journal' = NoJournal, session'.finish = 0 PROVE Clean'
  BY DEF ProjectionsAreJournalled, Clean
<1>1. CASE Discard
  <2>1. Clean /\ at \notin {"apply", "add"}
    BY <1>1 DEF Discard, Restored, RollbackInv, Clean
  <2> QED
    BY <2>1, CleanAfter
<1>2. CASE Drop /\ journal # NoJournal
  <2>1. Clean /\ at \notin {"apply", "add"}
    BY <1>2 DEF Drop, RollbackInv, CancelInv
  <2> QED
    BY <2>1, CleanAfter
<1>3. CASE journal = NoJournal
  <2>1. at \in Unjournalled
    BY <1>3 DEF PlaceInv
  <2>2. session.finish = 0
    BY <2>1, FinishAfter DEF Pointers, Unjournalled
  <2>3. Clean /\ at \notin {"apply", "add"}
    BY <1>3, <2>1, <2>2 DEF ProjectionsAreJournalled, Clean, Unjournalled
  <2> QED
    BY <2>3, CleanAfter
<1> QED
  BY <1>1, <1>2, <1>3, JournalAfter

\* What the session and the branch take is a report, and reports are of candidates
\* that were tested and reviewed.
LEMMA ReportStep ==
  ASSUME FinalizeInv, FinalizeNext
  PROVE  ReportInv'
<1> USE DEF FinalizeInv
<1>0. \A i \in Ids : finish[i] # NoTree =>
        /\ finish[i] \in Trees /\ tested[i] = finish[i] /\ runs[i] = 1
        /\ verdict[i] = "satisfied"
        /\ \A f \in Files : finish[i].text[f] = "after"
  BY DEF ReportInv
<1>1. \A i \in Ids : finish'[i] # NoTree =>
        /\ finish'[i] \in Trees /\ tested'[i] = finish'[i] /\ runs'[i] = 1
        /\ verdict'[i] = "satisfied"
        /\ \A f \in Files : finish'[i].text[f] = "after"
  <2>1. CASE Report /\ UNCHANGED verdict
    <3>1. journal # NoJournal /\ journal.phase = "staged" /\ journal.id \in Ids
      BY <2>1, JournalType DEF Report, PlaceInv, Unjournalled
    <3>2. /\ journal.tree \in Trees /\ tested[journal.id] = journal.tree
          /\ runs[journal.id] = 1 /\ verdict[journal.id] = "satisfied"
          /\ \A f \in Files : journal.tree.text[f] = "after"
      BY <3>1 DEF JournalInv, Tested, Reviewed, Early
    <3>3. /\ finish'[journal.id] = journal.tree
          /\ \A i \in Ids \ {journal.id} : finish'[i] = finish[i]
      BY <2>1, <3>1, StateTypes DEF Report
    <3>4. UNCHANGED <<tested, runs, verdict>>
      BY <2>1 DEF Report, historyVars
    <3> QED
      BY <1>0, <3>2, <3>3, <3>4
  <2>2. CASE StartChecks /\ UNCHANGED verdict
    <3>1. journal # NoJournal /\ journal.id \in Ids /\ runs[journal.id] = 0
      BY <2>2, JournalType DEF StartChecks, PlaceInv, Unjournalled, RunsInv
    <3>2. finish[journal.id] = NoTree
      BY <1>0, <3>1
    <3>3. UNCHANGED <<finish, verdict>>
      BY <2>2 DEF StartChecks, recordVars
    <3>4. \A i \in Ids \ {journal.id} : tested'[i] = tested[i] /\ runs'[i] = runs[i]
      BY <2>2, StateTypes DEF StartChecks
    <3> QED
      BY <1>0, <3>2, <3>3, <3>4
  <2>3. CASE Review
    <3>1. journal # NoJournal /\ journal.id \in Ids /\ verdict[journal.id] # "satisfied"
      BY <2>3, JournalType DEF Review
    <3>2. finish[journal.id] = NoTree
      BY <1>0, <3>1
    <3>3. UNCHANGED <<finish, tested, runs>>
      BY <2>3 DEF Review, recordVars, historyVars
    <3>4. \A i \in Ids \ {journal.id} : verdict'[i] = verdict[i]
      BY <2>3, StateTypes DEF Review
    <3> QED
      BY <1>0, <3>2, <3>3, <3>4
  <2>4. CASE UNCHANGED <<finish, tested, runs, verdict>>
    BY <1>0, <2>4
  <2> QED
    BY <2>1, <2>2, <2>3, <2>4, QuietSteps, NextCases DEF Quiet, recordVars, historyVars,
       Prepare, Inspect, EndChecks, Verify, AdvanceStaged, Pointers, Complete, Discard,
       MarkRestored, Archive, Drop, Commit, RecordCommit, Publish, Cancel, Abort, Fail
<1>2. \A i \in Ids : finish[i] # NoTree => finish'[i] = finish[i]
  <2>1. CASE Report
    <3>1. finish[journal.id] = NoTree
      BY <2>1 DEF Report, PlaceInv, JournalInv, Reported, Unjournalled
    <3> QED
      BY <2>1, <3>1, StateTypes DEF Report
  <2>2. CASE UNCHANGED finish
    BY <2>2
  <2> QED
    BY <2>1, <2>2, QuietSteps, NextCases DEF Quiet, recordVars, Prepare, Inspect,
       StartChecks, EndChecks, Verify, AdvanceStaged, Pointers, Complete, Discard,
       MarkRestored, Archive, Drop, Commit, RecordCommit, Publish, Cancel, Abort, Review,
       Fail
<1>3. session'.finish # 0 => finish'[session'.finish] # NoTree
  <2>1. CASE session'.finish = session.finish
    <3>1. session.finish # 0 => finish[session.finish] # NoTree /\ session.finish \in Ids
      BY StateTypes DEF ReportInv
    <3> QED
      BY <1>2, <2>1, <3>1
  <2>2. CASE Pointers
    <3>1. journal # NoJournal /\ journal.phase = "reports-persisted" /\ journal.id \in Ids
      BY <2>2, JournalType DEF Pointers, PlaceInv, Unjournalled
    <3>2. finish[journal.id] \in Trees
      BY <3>1 DEF JournalInv, Reported
    <3>3. session'.finish \in {session.finish, journal.id}
      BY <2>2, StateTypes DEF Pointers, Fail, recordVars, Sessions
    <3> QED
      BY <1>2, <2>1, <3>1, <3>2, <3>3, StateTypes
  <2> QED
    BY <2>1, <2>2, FinishAfter
<1>4. at' = "commit" => session'.finish # 0
  <2>1. CASE BeginCommit
    BY <2>1 DEF BeginCommit, recordVars
  <2>2. CASE at = "commit" /\ session'.finish = session.finish
    BY <2>2 DEF ReportInv
  <2>3. at' = "commit" =>
          \/ BeginCommit
          \/ /\ at = "inspect" /\ Inspect /\ kind = "finalize"
          \/ at = "commit" /\ ~Pointers
    BY NextCases DEF Resumption, CheckBase, Fail, Apply, Prepare, Move, InspectFails,
       Inspect, Advance, BeginChecks, StartChecks, EndChecks, Stage, Add, Verify,
       AdvanceStaged, Report, Pointers, Complete, RestoreIndex, RestoreFile, Discard,
       MarkRestored, Archive, Drop, Commit, UpdateRef, RecordCommit, Publish, Resume,
       Cancel, Abort, Review, Edit, UndoEdit, Die
  <2>4. CASE Inspect /\ at' = "commit"
    <3>1. session.finish = journal.id /\ journal # NoJournal
      BY <2>4 DEF Inspect, InspectionFails, SessionHasReports, Move, PlaceInv, Unjournalled
    <3>2. UNCHANGED session /\ journal.id \in Ids
      BY <2>4, <3>1, JournalType DEF Inspect
    <3> QED
      BY <3>1, <3>2, StateTypes
  <2> QED
    BY <2>1, <2>2, <2>3, <2>4, FinishAfter
<1>5. \/ session'.commit = session.commit
      \/ /\ at = "commit" /\ session'.commit = finish[session.finish]
         /\ session'.commit # NoTree /\ session.finish \in Ids /\ UNCHANGED finish
  <2>1. CASE Commit
    <3>1. session.finish \in Ids /\ finish[session.finish] # NoTree /\ at = "commit"
      BY <2>1, StateTypes DEF Commit, ReportInv
    <3> QED
      BY <2>1, <3>1, StateTypes DEF Commit, Sessions
  <2>2. CASE Pointers \/ RecordCommit \/ Abort
    BY <2>2, StateTypes DEF Pointers, RecordCommit, Abort, Fail, recordVars, Sessions
  <2> QED
    BY <2>1, <2>2, QuietSteps, NextCases DEF Quiet, recordVars, Prepare, Inspect,
       StartChecks, EndChecks, Verify, AdvanceStaged, Report, Complete, Discard,
       MarkRestored, Archive, Drop, Publish, Cancel, Review, Fail
<1>6. at' = "update ref" => session'.commit # NoTree
  <2>1. at' = "update ref" => at = "update ref" \/ Commit
    BY NextCases DEF CheckBase, Fail, Apply, Prepare, Move, InspectFails, Inspect,
       Advance, BeginChecks, StartChecks, EndChecks, Stage, Add, Verify, AdvanceStaged,
       Report, Pointers, Complete, RestoreIndex, RestoreFile, Discard, MarkRestored,
       Archive, Drop, UpdateRef, RecordCommit, Publish, Resume, Cancel, BeginCommit,
       Abort, Review, Edit, UndoEdit, Die
  <2>2. CASE Commit /\ at' = "update ref"
    BY <1>5, <2>2, StateTypes DEF Commit, Resumption, Move, Sessions
  <2>3. CASE at = "update ref"
    BY <1>5, <2>3 DEF ReportInv
  <2> QED
    BY <2>1, <2>2, <2>3
<1>7. session'.commit # NoTree => \E i \in Ids : finish'[i] = session'.commit
  <2>1. CASE session'.commit = session.commit
    BY <1>2, <2>1 DEF ReportInv
  <2>2. CASE session'.commit # session.commit
    BY <1>5, <2>2
  <2> QED
    BY <2>1, <2>2
<1>8. head' \in Trees => \E i \in Ids : finish'[i] = head'
  <2>1. CASE UpdateRef
    <3>1. session.commit # NoTree /\ UNCHANGED finish
      BY <2>1 DEF UpdateRef, ReportInv, recordVars
    <3> QED
      BY <2>1, <3>1 DEF UpdateRef, ReportInv
  <2>2. CASE Edit
    BY <1>2, <2>2, TreesAssumption DEF Edit, ReportInv
  <2>3. CASE UNCHANGED head
    BY <1>2, <2>3, TreesAssumption DEF ReportInv
  <2> QED
    BY <2>1, <2>2, <2>3, NextCases DEF worktreeVars, CheckBase, Fail, Apply, Prepare,
       Move, InspectFails, Inspect, Advance, BeginChecks, StartChecks, EndChecks, Stage,
       Add, Verify, AdvanceStaged, Report, Pointers, Complete, RestoreIndex, RestoreFile,
       Discard, MarkRestored, Archive, Drop, Commit, RecordCommit, Publish, Resume,
       Cancel, BeginCommit, Abort, Review, UndoEdit, Die
<1> QED
  BY <1>1, <1>3, <1>4, <1>6, <1>7, <1>8 DEF ReportInv

\* Types are kept.
LEMMA TypeStep ==
  ASSUME FinalizeInv, FinalizeNext
  PROVE  FinalizeTypeOK'
<1> USE DEF FinalizeInv
<1>1. work' \in Work /\ text' \in [Files -> Texts]
  <2>0. work \in Work /\ text \in [Files -> Texts]
    BY DEF FinalizeTypeOK
  <2>1. CASE \E f \in Files : Apply(f)
    BY <2>0, <2>1 DEF Apply, Fail, worktreeVars, Texts
  <2>2. CASE \E f \in Files : RestoreFile(f)
    BY <2>0, <2>2 DEF RestoreFile, Texts
  <2>3. CASE Edit \/ UndoEdit
    BY <2>0, <2>3 DEF Edit, UndoEdit, Texts
  <2>4. CASE UNCHANGED <<work, text>>
    BY <2>0, <2>4
  <2> QED
    BY <2>1, <2>2, <2>3, <2>4, NextCases DEF worktreeVars, CheckBase, Fail, Prepare, Move,
       InspectFails, Inspect, Advance, BeginChecks, StartChecks, EndChecks, Stage, Add,
       Verify, AdvanceStaged, Report, Pointers, Complete, RestoreIndex, Discard,
       MarkRestored, Archive, Drop, Commit, UpdateRef, RecordCommit, Publish, Resume,
       Cancel, BeginCommit, Abort, Review, Die
<1>2. index' \in Trees \cup {Previous, Foreign}
  <2>0. index \in Trees \cup {Previous, Foreign} /\ Worktree \in Trees
    BY StateTypes DEF FinalizeTypeOK
  <2>1. CASE Add \/ Verify \/ RestoreIndex \/ Edit \/ UndoEdit
    <3>1. index' \in {index, Worktree, Foreign, Previous}
      BY <2>1 DEF Add, Verify, RestoreIndex, Edit, UndoEdit, worktreeVars
    <3> QED
      BY <2>0, <3>1
  <2>2. CASE UNCHANGED index
    BY <2>0, <2>2
  <2> QED
    BY <2>1, <2>2, NextCases DEF worktreeVars, CheckBase, Fail, Apply, Prepare, Move,
       InspectFails, Inspect, Advance, BeginChecks, StartChecks, EndChecks, Stage,
       AdvanceStaged, Report, Pointers, Complete, RestoreFile, Discard, MarkRestored,
       Archive, Drop, Commit, UpdateRef, RecordCommit, Publish, Resume, Cancel,
       BeginCommit, Abort, Review, Die
<1>3. head' \in Trees \cup {Baseline, Foreign}
  <2>0. head \in Trees \cup {Baseline, Foreign} /\ session.commit \in Trees \cup {NoTree}
    BY DEF FinalizeTypeOK, Sessions
  <2>1. CASE UpdateRef
    BY <2>0, <2>1 DEF UpdateRef, ReportInv
  <2>2. CASE Edit
    BY <2>0, <2>2 DEF Edit
  <2>3. CASE UNCHANGED head
    BY <2>0, <2>3
  <2> QED
    BY <2>1, <2>2, <2>3, NextCases DEF worktreeVars, CheckBase, Fail, Apply, Prepare,
       Move, InspectFails, Inspect, Advance, BeginChecks, StartChecks, EndChecks, Stage,
       Add, Verify, AdvanceStaged, Report, Pointers, Complete, RestoreIndex, RestoreFile,
       Discard, MarkRestored, Archive, Drop, Commit, RecordCommit, Publish, Resume,
       Cancel, BeginCommit, Abort, Review, UndoEdit, Die
<1>4. journal' \in Journals \cup {NoJournal}
  <2>0. journal \in Journals \cup {NoJournal} /\ (at \notin Unjournalled => journal # NoJournal)
    BY DEF FinalizeTypeOK, PlaceInv
  <2>1. CASE Prepare
    BY <2>0, <2>1, Prepared DEF Prepare, Fail, recordVars, Unjournalled
  <2>2. CASE Inspect
    BY <2>0, <2>2, Advanced DEF Inspect, BeginChecks, Phases, Unjournalled
  <2>3. CASE EndChecks
    BY <2>0, <2>3, Advanced DEF EndChecks, Fail, recordVars, Phases, Unjournalled
  <2>4. CASE Verify
    BY <2>0, <2>4, Advanced DEF Verify, recordVars, Phases, Unjournalled
  <2>5. CASE AdvanceStaged \/ Report \/ Complete
    BY <2>0, <2>5, Advanced DEF AdvanceStaged, Report, Complete, Phases, Unjournalled
  <2>6. CASE Publish
    BY <2>6, Published
  <2>7. CASE Discard \/ Drop
    BY <2>0, <2>7 DEF Discard, Drop
  <2>8. CASE UNCHANGED journal
    BY <2>0, <2>8
  <2> QED
    BY <2>1, <2>2, <2>3, <2>4, <2>5, <2>6, <2>7, <2>8, QuietSteps, NextCases
    DEF Quiet, recordVars, StartChecks, Pointers, MarkRestored, Archive, Commit,
        RecordCommit, Cancel, Abort, Review, Fail
<1>5. cancellation' \in [Ids -> Cancellations \cup {NoCancellation}]
  <2>1. CASE UNCHANGED cancellation
    BY <2>1, StateTypes
  <2> QED
    BY <2>1, Cancelling, Requested, QuietSteps, NextCases DEF Quiet, recordVars, Prepare,
       Inspect, StartChecks, EndChecks, Verify, AdvanceStaged, Report, Pointers, Complete,
       Discard, Drop, Commit, RecordCommit, Publish, Abort, Review, Fail
<1>6. finish' \in [Ids -> Trees \cup {NoTree}]
  <2>1. CASE Report
    <3>1. journal.tree \in Trees
      BY <2>1 DEF Report, PlaceInv, JournalInv, Unjournalled
    <3> QED
      BY <2>1, <3>1, StateTypes DEF Report
  <2>2. CASE UNCHANGED finish
    BY <2>2, StateTypes
  <2> QED
    BY <2>1, <2>2, QuietSteps, NextCases DEF Quiet, recordVars, Prepare, Inspect,
       StartChecks, EndChecks, Verify, AdvanceStaged, Pointers, Complete, Discard,
       MarkRestored, Archive, Drop, Commit, RecordCommit, Publish, Cancel, Abort, Review,
       Fail
<1>7. session' \in Sessions
  <2>1. CASE Pointers
    <3>1. journal.id \in Ids
      BY <2>1, JournalType DEF Pointers, PlaceInv, Unjournalled
    <3> QED
      BY <2>1, <3>1, StateTypes DEF Pointers, Fail, recordVars, Sessions
  <2>2. CASE Commit
    <3>1. session.finish # 0 /\ session.finish \in Ids
      BY <2>2, StateTypes DEF Commit, ReportInv
    <3>2. finish[session.finish] \in Trees \cup {NoTree}
      BY <3>1, StateTypes
    <3> QED
      BY <2>2, <3>2, StateTypes DEF Commit, Sessions
  <2>3. CASE RecordCommit \/ Abort
    BY <2>3, StateTypes DEF RecordCommit, Abort, Sessions
  <2>4. CASE UNCHANGED session
    BY <2>4, StateTypes
  <2> QED
    BY <2>1, <2>2, <2>3, <2>4, QuietSteps, NextCases DEF Quiet, recordVars, Prepare,
       Inspect, StartChecks, EndChecks, Verify, AdvanceStaged, Report, Complete, Discard,
       MarkRestored, Archive, Drop, Publish, Cancel, Review, Fail
<1>8. verdict' \in [Ids -> {"none", "changes", "satisfied"}]
  <2>1. CASE Review
    BY <2>1, StateTypes DEF Review
  <2>2. CASE UNCHANGED verdict
    BY <2>2, StateTypes
  <2> QED
    BY <2>1, <2>2, NextCases
<1>9. kind' \in {"finalize", "recover", "commit", "cancel"} /\ todo' \subseteq Files
  <2>0. kind \in {"finalize", "recover", "commit", "cancel"} /\ todo \subseteq Files
    BY DEF FinalizeTypeOK
  <2> QED
    BY <2>0, NextCases DEF CheckBase, Fail, Apply, Prepare, Move, InspectFails, Inspect,
       Advance, BeginChecks, StartChecks, EndChecks, Stage, Add, Verify, AdvanceStaged,
       Report, Pointers, Complete, RestoreIndex, RestoreFile, Discard, MarkRestored,
       Archive, Drop, Commit, UpdateRef, RecordCommit, Publish, Resume, Cancel,
       BeginCommit, Abort, Review, Edit, UndoEdit, Die
<1>10. at' \in Places
  <2>0. at \in Places
    BY DEF FinalizeTypeOK
  <2>1. CASE CheckBase
    BY <2>0, <2>1 DEF CheckBase, Fail, Places
  <2>2. CASE (\E f \in Files : Apply(f))
    BY <2>0, <2>2 DEF Apply, Fail, Places
  <2>3. CASE Prepare
    BY <2>0, <2>3 DEF Prepare, Fail, Move, Places
  <2>4. CASE InspectFails
    BY <2>0, <2>4 DEF InspectFails, Fail, Places
  <2>5. CASE Inspect
    BY <2>0, <2>5 DEF Inspect, Advance, Move, BeginChecks, Places
  <2>6. CASE StartChecks
    BY <2>0, <2>6 DEF StartChecks, Move, Places
  <2>7. CASE EndChecks
    BY <2>0, <2>7 DEF EndChecks, Fail, Move, Advance, Places
  <2>8. CASE Stage
    BY <2>0, <2>8 DEF Stage, Fail, Move, Places
  <2>9. CASE Add
    BY <2>0, <2>9 DEF Add, Move, Places
  <2>10. CASE Verify
    BY <2>0, <2>10 DEF Verify, Move, Advance, Places
  <2>11. CASE AdvanceStaged
    BY <2>0, <2>11 DEF AdvanceStaged, Move, Advance, Places
  <2>12. CASE Report
    BY <2>0, <2>12 DEF Report, Move, Advance, Places
  <2>13. CASE Pointers
    BY <2>0, <2>13 DEF Pointers, Move, Fail, Places
  <2>14. CASE Complete
    BY <2>0, <2>14 DEF Complete, Move, Advance, Places
  <2>15. CASE RestoreIndex
    BY <2>0, <2>15 DEF RestoreIndex, Places
  <2>16. CASE (\E f \in Files : RestoreFile(f))
    BY <2>0, <2>16 DEF RestoreFile, Places
  <2>17. CASE Discard
    BY <2>0, <2>17 DEF Discard, Move, Places
  <2>18. CASE MarkRestored
    BY <2>0, <2>18 DEF MarkRestored, Move, Places
  <2>19. CASE Archive
    BY <2>0, <2>19 DEF Archive, Move, Places
  <2>20. CASE Drop
    BY <2>0, <2>20 DEF Drop, Move, Places
  <2>21. CASE Commit
    BY <2>0, <2>21 DEF Commit, Move, Places, Resumption
  <2>22. CASE UpdateRef
    BY <2>0, <2>22 DEF UpdateRef, Move, Places
  <2>23. CASE RecordCommit
    BY <2>0, <2>23 DEF RecordCommit, Move, Places
  <2>24. CASE Publish
    BY <2>0, <2>24 DEF Publish, Places
  <2>25. CASE (Resume("finalize") \/ Resume("recover"))
    BY <2>0, <2>25 DEF Resume, Places
  <2>26. CASE Cancel
    BY <2>0, <2>26 DEF Cancel, Places
  <2>27. CASE BeginCommit
    BY <2>0, <2>27 DEF BeginCommit, Places
  <2>28. CASE Abort
    BY <2>0, <2>28 DEF Abort, Places
  <2>29. CASE Review
    BY <2>0, <2>29 DEF Review, Places
  <2>30. CASE Edit
    BY <2>0, <2>30 DEF Edit, Places
  <2>31. CASE UndoEdit
    BY <2>0, <2>31 DEF UndoEdit, Places
  <2>32. CASE Die
    BY <2>0, <2>32 DEF Die, Places
  <2> QED
    BY <2>1, <2>2, <2>3, <2>4, <2>5, <2>6, <2>7, <2>8, <2>9, <2>10, <2>11, <2>12, <2>13,
       <2>14, <2>15, <2>16, <2>17, <2>18, <2>19, <2>20, <2>21, <2>22, <2>23, <2>24, <2>25,
       <2>26, <2>27, <2>28, <2>29, <2>30, <2>31, <2>32, NextCases
<1>11. /\ issued' \in 0 .. MaxTransactions /\ edits' \in 0 .. MaxEdits
       /\ crashes' \in 0 .. MaxCrashes
  <2>0. /\ issued \in 0 .. MaxTransactions /\ edits \in 0 .. MaxEdits
        /\ crashes \in 0 .. MaxCrashes
    BY DEF FinalizeTypeOK
  <2>1. CASE Publish
    BY <2>0, <2>1, BoundsAssumption DEF Publish
  <2>2. CASE Edit
    BY <2>0, <2>2, BoundsAssumption DEF Edit
  <2>3. CASE Die
    BY <2>0, <2>3, BoundsAssumption DEF Die
  <2>4. CASE UNCHANGED <<issued, edits, crashes>>
    BY <2>0, <2>4
  <2> QED
    BY <2>1, <2>2, <2>3, <2>4, NextCases DEF countVars, CheckBase, Fail, Apply, Prepare,
       Move, InspectFails, Inspect, Advance, BeginChecks, StartChecks, EndChecks, Stage,
       Add, Verify, AdvanceStaged, Report, Pointers, Complete, RestoreIndex, RestoreFile,
       Discard, MarkRestored, Archive, Drop, Commit, UpdateRef, RecordCommit, Resume,
       Cancel, BeginCommit, Abort, Review, UndoEdit
<1>12. tested' \in [Ids -> Trees \cup {NoTree}] /\ runs' \in [Ids -> Nat]
  <2>1. CASE StartChecks
    <3>1. runs \in [Ids -> Nat] /\ tested \in [Ids -> Trees \cup {NoTree}] /\ Worktree \in Trees
      BY StateTypes
    <3>2. /\ runs' = [runs EXCEPT ![journal.id] = runs[journal.id] + 1]
          /\ tested' = [tested EXCEPT ![journal.id] = Worktree]
          /\ journal.id \in Ids
      BY <2>1, JournalType DEF StartChecks, PlaceInv, Unjournalled
    <3>3. runs[journal.id] + 1 \in Nat
      BY <3>1, <3>2
    <3> QED
      BY <3>1, <3>2, <3>3
  <2>2. CASE UNCHANGED <<tested, runs>>
    BY <2>2, StateTypes
  <2> QED
    BY <2>1, <2>2, QuietSteps, NextCases DEF Quiet, historyVars, Prepare, Inspect,
       EndChecks, Verify, AdvanceStaged, Report, Pointers, Complete, Discard,
       MarkRestored, Archive, Drop, Commit, RecordCommit, Publish, Cancel, Abort, Review,
       Fail
<1> QED
  BY <1>1, <1>2, <1>3, <1>4, <1>5, <1>6, <1>7, <1>8, <1>9, <1>10, <1>11, <1>12
  DEF FinalizeTypeOK

-----------------------------------------------------------------------------
(* Theorems *)

LEMMA InvInit ==
  ASSUME FinalizeInit
  PROVE  FinalizeInv
<1> USE DEF FinalizeInit
<1>1. FinalizeTypeOK
  <2>1. session \in Sessions
    BY DEF Sessions
  <2>2. text \in [Files -> Texts]
    BY DEF Texts
  <2>3. at \in Places
    BY DEF Places
  <2> QED
    BY <2>1, <2>2, <2>3, BoundsAssumption DEF FinalizeTypeOK
<1>2. Clean
  BY TreesAssumption DEF Clean
<1>3. JournalInv /\ FreshInv /\ PlaceInv /\ RunsInv
  BY <1>1, StateTypes DEF JournalInv, FreshInv, PlaceInv, RunsInv, Unjournalled, Passed
<1>4. RollbackInv /\ CancelInv
  BY DEF RollbackInv, CancelInv, Undone, Passed
<1>5. ReportInv
  BY TreesAssumption DEF ReportInv
<1>6. ProjectionsAreJournalled
  BY <1>2 DEF ProjectionsAreJournalled, Clean
<1> QED
  BY <1>1, <1>3, <1>4, <1>5, <1>6 DEF FinalizeInv

LEMMA InvNext ==
  ASSUME FinalizeInv, [FinalizeNext]_finalizeVars
  PROVE  FinalizeInv'
<1>1. CASE FinalizeNext
  BY <1>1, TypeStep, JournalStep, FreshStep, PlaceStep, RunsStep, RollbackStep, CancelStep,
     ReportStep, ProjectionStep DEF FinalizeInv
<1>2. CASE UNCHANGED finalizeVars
  <2> USE <1>2 DEF FinalizeInv, finalizeVars, worktreeVars, recordVars, countVars, historyVars
  <2>1. FinalizeTypeOK'
    BY DEF FinalizeTypeOK
  <2>2. JournalInv'
    BY DEF JournalInv
  <2>3. FreshInv' /\ RunsInv'
    BY DEF FreshInv, RunsInv
  <2>4. PlaceInv'
    BY DEF PlaceInv
  <2>5. RollbackInv' /\ CancelInv'
    BY DEF RollbackInv, CancelInv, Undone, Clean
  <2>6. ReportInv'
    BY DEF ReportInv
  <2>7. ProjectionsAreJournalled'
    BY DEF ProjectionsAreJournalled
  <2> QED
    BY <2>1, <2>2, <2>3, <2>4, <2>5, <2>6, <2>7
<1> QED
  BY <1>1, <1>2

\* The inductive invariant: what the phase of the journal and the place of the
\* command say of the worktree, the records, the checks and the review.
THEOREM FinalizeInvariant == FinalizeSpec => []FinalizeInv
<1>1. FinalizeInit => FinalizeInv
  BY InvInit
<1>2. FinalizeInv /\ [FinalizeNext]_finalizeVars => FinalizeInv'
  BY InvNext
<1> QED
  BY <1>1, <1>2, PTL DEF FinalizeSpec

\* Type correctness.
THEOREM FinalizeTypeCorrect == FinalizeSpec => []FinalizeTypeOK
<1>1. FinalizeInv => FinalizeTypeOK
  BY DEF FinalizeInv
<1> QED
  BY <1>1, FinalizeInvariant, PTL

\* What the branch is moved to was projected in full, tested once and reviewed,
\* whatever was edited and wherever a command died.
THEOREM CommittedTreesChecked == FinalizeSpec => []CommittedTreeChecked
<1>1. FinalizeInv => CommittedTreeChecked
  <2> SUFFICES ASSUME FinalizeInv, head \in Trees PROVE CommittedTreeChecked
    BY DEF CommittedTreeChecked
  <2>1. PICK i \in Ids : finish[i] = head
    BY DEF FinalizeInv, ReportInv
  <2>2. finish[i] # NoTree
    BY <2>1, TreesAssumption
  <2>3. /\ tested[i] = finish[i] /\ runs[i] = 1 /\ verdict[i] = "satisfied"
        /\ \A f \in Files : finish[i].text[f] = "after"
    BY <2>2 DEF FinalizeInv, ReportInv
  <2> QED
    BY <2>1, <2>3 DEF CommittedTreeChecked
<1> QED
  BY <1>1, FinalizeInvariant, PTL

\* The checks of a transaction are started once at most.
THEOREM ChecksAreNotRepeated == FinalizeSpec => []ChecksStartOnce
<1>1. FinalizeInv => ChecksStartOnce
  BY DEF FinalizeInv, RunsInv, ChecksStartOnce
<1> QED
  BY <1>1, FinalizeInvariant, PTL

\* Nothing is left projected or staged without the journal that undoes it.
THEOREM NoProjectionWithoutJournal == FinalizeSpec => []ProjectionsAreJournalled
<1>1. FinalizeInv => ProjectionsAreJournalled
  BY DEF FinalizeInv
<1> QED
  BY <1>1, FinalizeInvariant, PTL

\* A cancelled transaction never gets its reports into the session.
THEOREM CancelledNeverReported == FinalizeSpec => []CancelledNeverFinished
<1>1. FinalizeInv => CancelledNeverFinished
  BY DEF FinalizeInv, CancelInv, CancelledNeverFinished, Undone
<1> QED
  BY <1>1, FinalizeInvariant, PTL

=============================================================================
