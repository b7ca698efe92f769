----------------------- MODULE MaterializationJournal -----------------------
(***************************************************************************)
(* materialization_journal.zig, and the lifecycle around it in             *)
(* materialization_runtime.zig and duckdb_file_materialization.zig: an     *)
(* external model's file is replaced together with the view that reads it. *)
(*                                                                         *)
(* The file is written beside the target, the old one is moved aside, the  *)
(* new one moved in, and only then the view is created and the transaction *)
(* committed.  An error undoes the moves; with disable_transactions what   *)
(* was published is kept, for a view may refer to it already.  A lock file *)
(* keeps other writers of the target out until the journal is closed.      *)
(*                                                                         *)
(* Every call of the file system is one step and may fail; a removal that  *)
(* fails may have removed a part.  A writer may die between two steps.     *)
(* Loops over a journal's entries take them in any order: entries are      *)
(* independent, and the code's orders are among these.  A journal's lock   *)
(* files are closed together.                                              *)
(***************************************************************************)
EXTENDS Naturals

CONSTANTS Writers, Nobody,
          Targets,
          Contents,         \* what runs write: each run takes a fresh one
          Old, Absent, Torn \* a file's first content; no file; half removed

Files == Contents \cup {Old, Absent, Torn}

ASSUME JournalAssumption ==
  /\ Nobody \notin Writers
  /\ Absent \notin Contents \cup {Old, Torn} /\ Torn \notin Contents \cup {Old}
  /\ Old \notin Contents

VARIABLES
  autocommit,         \* disable_transactions: fixed for the invocation
  file, lock,         \* a target's content, and who holds its lock file
  view,               \* the content the committed view was created for
  pending,            \* views a writer created in its open transaction
  staged, backup,     \* a writer's files beside the targets
  orphans,            \* backups whose writer is gone
  entries, had,       \* Journal.entries by their targets; had_original,
  published, retained,\* published and retained by the targets they are set for
  finalized,
  slipped,            \* where the current loop failed: `failure' is {} or not
  left, passes,       \* what the current loop has not visited; rollbacks to come
  content, original,  \* what the run writes; what it found
  used,
  disturbed,          \* targets a crash or a failed rollback left behind
  pc

disk == <<file, staged, backup, orphans>>
sql == <<view, pending>>
journal == <<entries, had, published, retained, finalized>>
loop == <<slipped, left, passes>>
run == <<content, original, used>>
vars == <<autocommit, lock, disk, sql, journal, loop, run, disturbed, pc>>

Each(value) == [w \in Writers |-> value]
NoFiles == [t \in Targets |-> Absent]

Init ==
  /\ autocommit \in BOOLEAN
  /\ file \in [Targets -> {Absent, Old}] /\ view = file
  /\ lock = [t \in Targets |-> Nobody]
  /\ pending = Each({})
  /\ staged = Each(NoFiles) /\ backup = Each(NoFiles)
  /\ orphans = [t \in Targets |-> {}]
  /\ entries = Each({}) /\ had = Each({})
  /\ published = Each({}) /\ retained = Each({}) /\ finalized = Each(FALSE)
  /\ slipped = Each({}) /\ left = Each({}) /\ passes = Each(0)
  /\ content = Each(Absent) /\ original = Each(NoFiles) /\ used = {}
  /\ disturbed = {}
  /\ pc = Each("idle")

Goto(w, p) == pc' = [pc EXCEPT ![w] = p]
With(f, w, t) == f' = [f EXCEPT ![w] = @ \cup {t}]
Without(f, w, t) == f' = [f EXCEPT ![w] = @ \ {t}]

\* A writer's call fails and the error is passed on.
Fails(w) ==
  /\ Goto(w, "failed")
  /\ UNCHANGED <<autocommit, lock, disk, sql, journal, loop, run, disturbed>>

-----------------------------------------------------------------------------
(* The body: prepare, copy, publish, create view. *)

Begin(w) ==
  /\ pc[w] = "idle"
  /\ \E c \in Contents \ used : content' = [content EXCEPT ![w] = c] /\ used' = used \cup {c}
  /\ Goto(w, "body")
  /\ UNCHANGED <<autocommit, lock, disk, sql, journal, loop, original, disturbed>>

\* The lock is tried once and not waited for.
Prepare(w, t) ==
  /\ pc[w] = "body" /\ t \notin entries[w]
  /\ lock[t] = Nobody
  /\ lock' = [lock EXCEPT ![t] = w]
  /\ With(entries, w, t)
  /\ original' = [original EXCEPT ![w][t] = file[t]]
  /\ UNCHANGED <<autocommit, disk, sql, had, published, retained, finalized, loop,
                 content, used, disturbed, pc>>

\* DuckDB's copy writes the staged file, or fails with a part of it.
Copy(w, t) ==
  /\ pc[w] = "body" /\ t \in entries[w] \ published[w]
  /\ \/ staged' = [staged EXCEPT ![w][t] = content[w]] /\ UNCHANGED pc
     \/ staged' = [staged EXCEPT ![w][t] = Torn] /\ Goto(w, "failed")
  /\ UNCHANGED <<autocommit, lock, file, backup, orphans, sql, journal, loop, run, disturbed>>

Publish(w) ==
  /\ pc[w] = "body" /\ entries[w] # published[w]
  /\ left' = [left EXCEPT ![w] = entries[w] \ published[w]]
  /\ Goto(w, "publishing")
  /\ UNCHANGED <<autocommit, lock, disk, sql, journal, slipped, passes, run, disturbed>>

\* Mutation: the old file is overwritten.
Overwrite(w, t) ==
  /\ pc[w] = "publishing" /\ t \in left[w] /\ staged[w][t] # Absent
  /\ left' = [left EXCEPT ![w] = {t}]
  /\ Goto(w, "moving")
  /\ UNCHANGED <<autocommit, lock, disk, sql, journal, slipped, passes, run, disturbed>>

\* The staged file is there; an old target is moved aside.
MoveAside(w, t) ==
  /\ pc[w] = "publishing" /\ t \in left[w] /\ staged[w][t] # Absent
  /\ IF file[t] # Absent
     THEN /\ backup' = [backup EXCEPT ![w][t] = file[t]]
          /\ file' = [file EXCEPT ![t] = Absent]
          /\ With(had, w, t)
     ELSE UNCHANGED <<backup, file, had>>
  /\ left' = [left EXCEPT ![w] = {t}]
  /\ Goto(w, "moving")
  /\ UNCHANGED <<autocommit, lock, staged, orphans, sql, entries, published, retained,
                 finalized, slipped, passes, run, disturbed>>

MoveIn(w, t) ==
  /\ pc[w] = "moving" /\ t \in left[w]
  /\ file' = [file EXCEPT ![t] = staged[w][t]]
  /\ staged' = [staged EXCEPT ![w][t] = Absent]
  /\ With(published, w, t)
  /\ left' = [left EXCEPT ![w] = entries[w] \ published'[w]]
  /\ Goto(w, "publishing")
  /\ UNCHANGED <<autocommit, lock, backup, orphans, sql, entries, had, retained, finalized,
                 slipped, passes, run, disturbed>>

MoveInFails(w, t) ==
  /\ pc[w] = "moving" /\ t \in left[w]
  /\ Goto(w, IF t \in had[w] THEN "restoring" ELSE "failed")
  /\ UNCHANGED <<autocommit, lock, disk, sql, journal, loop, run, disturbed>>

\* The original goes back to its place.
MoveBack(w, t) ==
  /\ file' = [file EXCEPT ![t] = backup[w][t]]
  /\ backup' = [backup EXCEPT ![w][t] = Absent]
  /\ Without(had, w, t)
  /\ UNCHANGED <<staged, orphans, entries, published, retained, finalized>>

Restore(w, t) ==
  /\ pc[w] = "restoring" /\ t \in left[w]
  /\ MoveBack(w, t)
  /\ Goto(w, "failed")
  /\ UNCHANGED <<autocommit, lock, sql, loop, run, disturbed>>

EndPublish(w) ==
  /\ pc[w] = "publishing" /\ left[w] = {}
  /\ Goto(w, "body")
  /\ UNCHANGED <<autocommit, lock, disk, sql, journal, loop, run, disturbed>>

CreateView(w, t) ==
  /\ pc[w] = "body" /\ t \in published[w]
  /\ IF autocommit
     THEN view' = [view EXCEPT ![t] = content[w]] /\ UNCHANGED pending
     ELSE With(pending, w, t) /\ UNCHANGED view
  /\ UNCHANGED <<autocommit, lock, disk, journal, loop, run, disturbed, pc>>

-----------------------------------------------------------------------------
(* The end of the transaction. *)

\* Every view is created; publish is called once more and finds nothing to do.
Complete(w) ==
  /\ pc[w] = "body" /\ entries[w] # {} /\ entries[w] = published[w]
  /\ IF autocommit THEN \A t \in entries[w] : view[t] = content[w]
     ELSE pending[w] = entries[w]

Commit(w) ==
  /\ Complete(w)
  /\ view' = [t \in Targets |-> IF t \in pending[w] THEN content[w] ELSE view[t]]
  /\ pending' = [pending EXCEPT ![w] = {}]
  /\ finalized' = [finalized EXCEPT ![w] = TRUE]
  /\ left' = [left EXCEPT ![w] = had[w]]
  /\ disturbed' = disturbed \ entries[w]
  /\ Goto(w, "finalizing")
  /\ UNCHANGED <<autocommit, lock, disk, entries, had, published, retained, slipped, passes, run>>

\* A loop step that removes a backup nobody needs any more.
RemoveBackup(w, t) ==
  \/ /\ backup' = [backup EXCEPT ![w][t] = Absent]
     /\ Without(had, w, t) /\ UNCHANGED slipped
  \/ /\ backup' \in {backup, [backup EXCEPT ![w][t] = Torn]}
     /\ With(slipped, w, t) /\ UNCHANGED had

DropBackup(w, t) ==
  /\ pc[w] \in {"finalizing", "retaining"} /\ t \in left[w]
  /\ RemoveBackup(w, t)
  /\ Without(left, w, t)
  /\ UNCHANGED <<autocommit, lock, file, staged, orphans, sql, entries, published, retained,
                 finalized, passes, run, disturbed, pc>>

\* finalize fails if a backup could not be removed; hooks may fail after it.
EndFinalize(w) ==
  /\ pc[w] = "finalizing" /\ left[w] = {}
  /\ \/ slipped[w] = {} /\ Goto(w, "closed")
     \/ Goto(w, "failed")
  /\ UNCHANGED <<autocommit, lock, disk, sql, journal, loop, run, disturbed>>

-----------------------------------------------------------------------------
(* Errors: the transaction is rolled back, then the journal. *)

\* Mutation: a finalized journal is rolled back too.
RollbackEverything(w) == entries[w] \ retained[w]

\* Mutation: what autocommit published is rolled back too.
RollbackRetained(w) == IF finalized[w] THEN {} ELSE entries[w]

\* What a rollback visits.
Reverts(w) == IF finalized[w] THEN {} ELSE entries[w] \ retained[w]

\* autocommitFailure first keeps what was published.  A journal of the
\* lifecycle's own is rolled back before it is closed, which rolls back again.
SqlRollback(w) ==
  /\ pc[w] = "failed"
  /\ pending' = [pending EXCEPT ![w] = {}]
  /\ slipped' = [slipped EXCEPT ![w] = {}]
  /\ IF autocommit
     THEN /\ retained' = [retained EXCEPT ![w] = published[w]]
          /\ left' = [left EXCEPT ![w] = published[w] \cap had[w]]
          /\ passes' = [passes EXCEPT ![w] = 2]
          /\ Goto(w, "retaining")
     ELSE /\ left' = [left EXCEPT ![w] = Reverts(w)]
          /\ \E n \in {1, 2} : passes' = [passes EXCEPT ![w] = n]
          /\ Goto(w, "reverting")
          /\ UNCHANGED retained
  /\ UNCHANGED <<autocommit, lock, disk, view, entries, had, published, finalized, run, disturbed>>

EndRetain(w) ==
  /\ pc[w] = "retaining" /\ left[w] = {}
  /\ slipped' = [slipped EXCEPT ![w] = {}]
  /\ left' = [left EXCEPT ![w] = Reverts(w)]
  /\ Goto(w, "reverting")
  /\ UNCHANGED <<autocommit, lock, disk, sql, journal, passes, run, disturbed>>

Skip(w, t) == With(slipped, w, t) /\ Without(left, w, t)

\* Mutation: the entry is not published any more even if its file is still there.
ForgetTarget(w, t) ==
  /\ pc[w] = "reverting" /\ t \in left[w] \cap published[w]
  /\ \/ /\ file' = [file EXCEPT ![t] = Absent]
        /\ UNCHANGED <<slipped, left>>
     \/ /\ file' \in {file, [file EXCEPT ![t] = Torn]}
        /\ Skip(w, t)
  /\ Without(published, w, t)
  /\ UNCHANGED <<autocommit, lock, staged, backup, orphans, sql, entries, had, retained,
                 finalized, passes, run, disturbed, pc>>

RemoveTarget(w, t) ==
  /\ pc[w] = "reverting" /\ t \in left[w] \cap published[w]
  /\ \/ /\ file' = [file EXCEPT ![t] = Absent]
        /\ Without(published, w, t)
        /\ UNCHANGED <<slipped, left>>
     \/ /\ file' \in {file, [file EXCEPT ![t] = Torn]}
        /\ Skip(w, t)
        /\ UNCHANGED published
  /\ UNCHANGED <<autocommit, lock, staged, backup, orphans, sql, entries, had, retained,
                 finalized, passes, run, disturbed, pc>>

RestoreBackup(w, t) ==
  /\ pc[w] = "reverting" /\ t \in (left[w] \cap had[w]) \ published[w]
  /\ \/ MoveBack(w, t) /\ UNCHANGED <<slipped, left>>
     \/ UNCHANGED <<disk, journal>> /\ Skip(w, t)
  /\ UNCHANGED <<autocommit, lock, sql, passes, run, disturbed, pc>>

RemoveStaged(w, t) ==
  /\ pc[w] = "reverting" /\ t \in left[w] \ (published[w] \cup had[w])
  /\ \/ /\ staged' = [staged EXCEPT ![w][t] = Absent]
        /\ UNCHANGED slipped
     \/ /\ staged' \in {staged, [staged EXCEPT ![w][t] = Torn]}
        /\ With(slipped, w, t)
  /\ Without(left, w, t)
  /\ UNCHANGED <<autocommit, lock, file, backup, orphans, sql, journal, passes, run, disturbed, pc>>

\* deinit rolls back again whatever the first rollback could not.
EndRevert(w) ==
  /\ pc[w] = "reverting" /\ left[w] = {}
  /\ passes' = [passes EXCEPT ![w] = IF @ = 2 THEN 1 ELSE 0]
  /\ IF passes[w] = 2
     THEN /\ left' = [left EXCEPT ![w] = Reverts(w)]
          /\ slipped' = [slipped EXCEPT ![w] = {}]
          /\ UNCHANGED pc
     ELSE /\ Goto(w, "closed")
          /\ UNCHANGED <<left, slipped>>
  /\ UNCHANGED <<autocommit, lock, disk, sql, journal, run, disturbed>>

-----------------------------------------------------------------------------
(* The end of a writer: its locks are free, its files stay where they are. *)

Leave(w, behind) ==
  /\ lock' = [t \in Targets |-> IF lock[t] = w THEN Nobody ELSE lock[t]]
  /\ orphans' = [t \in Targets |-> orphans[t] \cup ({backup[w][t]} \ {Absent})]
  /\ staged' = [staged EXCEPT ![w] = NoFiles] /\ backup' = [backup EXCEPT ![w] = NoFiles]
  /\ pending' = [pending EXCEPT ![w] = {}]
  /\ entries' = [entries EXCEPT ![w] = {}] /\ had' = [had EXCEPT ![w] = {}]
  /\ published' = [published EXCEPT ![w] = {}] /\ retained' = [retained EXCEPT ![w] = {}]
  /\ finalized' = [finalized EXCEPT ![w] = FALSE]
  /\ slipped' = [slipped EXCEPT ![w] = {}] /\ left' = [left EXCEPT ![w] = {}]
  /\ passes' = [passes EXCEPT ![w] = 0]
  /\ content' = [content EXCEPT ![w] = Absent] /\ original' = [original EXCEPT ![w] = NoFiles]
  /\ disturbed' = disturbed \cup behind
  /\ Goto(w, "idle")
  /\ UNCHANGED <<autocommit, file, view, used>>

Close(w) ==
  /\ pc[w] = "closed"
  /\ Leave(w, IF finalized[w] THEN {} ELSE slipped[w])

\* The process dies: DuckDB drops the open transaction.
Crash(w) ==
  /\ pc[w] # "idle"
  /\ Leave(w, IF finalized[w] THEN {} ELSE entries[w])

\* Whatever else fails: a lock that is taken, SQL, a hook, a call of the file
\* system while publishing, the commit.
Error(w) == pc[w] \in {"body", "publishing", "restoring"} /\ Fails(w)

Step(w) ==
  \/ Begin(w) \/ Publish(w) \/ EndPublish(w) \/ Commit(w) \/ EndFinalize(w)
  \/ SqlRollback(w) \/ EndRetain(w) \/ EndRevert(w) \/ Close(w) \/ Crash(w) \/ Error(w)
  \/ \E t \in Targets :
       \/ Prepare(w, t) \/ Copy(w, t) \/ MoveAside(w, t) \/ MoveIn(w, t)
       \/ MoveInFails(w, t) \/ Restore(w, t) \/ CreateView(w, t) \/ DropBackup(w, t)
       \/ RemoveTarget(w, t) \/ RestoreBackup(w, t) \/ RemoveStaged(w, t)

Next == \E w \in Writers : Step(w)

Spec == Init /\ [][Next]_vars

-----------------------------------------------------------------------------
(* Properties *)

\* A journal's entries are the targets its writer has locked, and its flags are
\* flags of its entries.
EntriesAgree(w) ==
  /\ entries[w] = {t \in Targets : lock[t] = w}
  /\ had[w] \cup published[w] \cup retained[w] \cup pending[w] \cup slipped[w] \cup left[w]
       \subseteq entries[w]

ValuesTyped ==
  /\ autocommit \in BOOLEAN
  /\ file \in [Targets -> Files] /\ view \in [Targets -> Files]
  /\ lock \in [Targets -> Writers \cup {Nobody}]
  /\ staged \in [Writers -> [Targets -> Files]] /\ backup \in [Writers -> [Targets -> Files]]
  /\ orphans \in [Targets -> SUBSET Files]
  /\ pending \in [Writers -> SUBSET Targets] /\ entries \in [Writers -> SUBSET Targets]
  /\ had \in [Writers -> SUBSET Targets] /\ published \in [Writers -> SUBSET Targets]
  /\ retained \in [Writers -> SUBSET Targets] /\ finalized \in [Writers -> BOOLEAN]
  /\ slipped \in [Writers -> SUBSET Targets] /\ left \in [Writers -> SUBSET Targets]
  /\ passes \in [Writers -> 0..2]
  /\ content \in [Writers -> Contents \cup {Absent}]
  /\ original \in [Writers -> [Targets -> Files]]
  /\ used \subseteq Contents /\ disturbed \subseteq Targets
  /\ pc \in [Writers -> {"idle", "body", "publishing", "moving", "restoring", "finalizing",
                         "failed", "retaining", "reverting", "closed"}]

\* Every variable holds a value of its type, and the journals of different
\* writers have no target in common.
TypeOK == ValuesTyped /\ \A w \in Writers : EntriesAgree(w)

\* With transactions, what the committed view was created for is never lost,
\* whatever fails or dies: it is in place or in a backup.
NothingLost ==
  ~autocommit =>
    \A t \in Targets :
      view[t] \in {Absent, file[t]} \cup orphans[t] \cup {backup[w][t] : w \in Writers}

\* Between runs the view and its file are the same run's, unless a crash or a
\* failed rollback left the target behind.
ViewAndFileAgree ==
  ~autocommit =>
    \A t \in Targets \ disturbed : lock[t] = Nobody => file[t] = view[t]

\* A journal that is closed without a commit has put everything back, also what
\* an earlier rollback or publish could not, unless its last rollback failed.
ClosedIsClean ==
  \A w \in Writers :
    (pc[w] = "closed" /\ ~finalized[w]) =>
      \A t \in entries[w] \ (retained[w] \cup slipped[w]) :
        file[t] = original[w][t] /\ staged[w][t] = Absent /\ backup[w][t] = Absent

\* Without transactions a file that a view already refers to stays in place.
ReferencedIsKept ==
  \A w \in Writers : \A t \in entries[w] :
    view[t] = content[w] => file[t] = content[w]
=============================================================================
