-------------------- MODULE MaterializationJournal_proofs --------------------
(***************************************************************************)
(* Proofs about materialization_journal.zig for any number of writers,     *)
(* targets and runs: what is committed is never lost, and what is undone   *)
(* is undone completely.                                                   *)
(***************************************************************************)
EXTENDS MaterializationJournal, TLAPS

-----------------------------------------------------------------------------
(* The inductive invariant. *)

Runs(w) == pc[w] # "idle"
Undoes(w) == pc[w] \in {"reverting", "closed"}

\* What a journal's flags say of the writer as a whole.
WriterRight(w) ==
  /\ Runs(w) => content[w] \in used
  /\ ~Runs(w) => entries[w] = {} /\ ~finalized[w]
  /\ pc[w] = "finalizing" => finalized[w]
  /\ finalized[w] => /\ published[w] = entries[w]
                     /\ pc[w] \in {"finalizing", "failed", "retaining", "reverting", "closed"}
                     /\ pc[w] = "reverting" => left[w] = {}
  /\ pc[w] = "closed" => left[w] = {}
  /\ retained[w] # {} => autocommit /\ (pc[w] = "retaining" \/ Undoes(w))
  /\ retained[w] \subseteq published[w]
  /\ pc[w] = "retaining" => autocommit /\ retained[w] = published[w]
  /\ pc[w] \in {"moving", "restoring"} => \A t, x \in left[w] : t = x
  /\ \A t \in Targets \ entries[w] : staged[w][t] = Absent /\ backup[w][t] = Absent

\* Where the old and the new content are while a run may still be undone.
PlacesRight(w, t) ==
  /\ t \in had[w] \ retained[w] => backup[w][t] = original[w][t] /\ original[w][t] # Absent
  /\ t \notin had[w] => backup[w][t] = Absent
  /\ t \in had[w] \ published[w] => file[t] = Absent
  /\ t \notin published[w] \cup had[w] => file[t] = original[w][t]
  /\ t \in published[w] \ (had[w] \cup retained[w]) => original[w][t] = Absent
  /\ t \in published[w] => \/ file[t] = content[w]
                           \/ file[t] = Torn /\ t \notin retained[w] /\ Undoes(w)

\* What the loops have done with the targets they left.
LoopRight(w, t) ==
  /\ pc[w] \in {"body", "publishing", "moving"} => staged[w][t] \in {Absent, content[w]}
  /\ pc[w] = "publishing" /\ t \in left[w] => t \notin published[w]
  /\ pc[w] = "moving" /\ t \in left[w] =>
       t \notin published[w] /\ staged[w][t] = content[w] /\ file[t] = Absent
  /\ pc[w] = "restoring" /\ t \in left[w] => t \in had[w] \ published[w]
  /\ pc[w] = "retaining" /\ t \in left[w] => t \in had[w] \cap retained[w]
  /\ pc[w] = "reverting" /\ t \in left[w] => t \notin retained[w]
  /\ Undoes(w) /\ t \notin left[w] \cup retained[w] \cup slipped[w] =>
       t \notin published[w] \cup had[w] /\ staged[w][t] = Absent

\* Which content the committed view reads.
ViewRight(w, t) ==
  /\ view[t] = content[w] =>
       /\ autocommit /\ t \in published[w]
       /\ t \in retained[w] \/ (~Undoes(w) /\ pc[w] # "retaining")
  /\ ~autocommit /\ t \notin disturbed => view[t] = original[w][t]

EntryRight(w, t) ==
  IF finalized[w] THEN file[t] = content[w] /\ view[t] = content[w]
  ELSE PlacesRight(w, t) /\ LoopRight(w, t) /\ ViewRight(w, t)

\* No two runs write the same content, and views read what some run wrote.
RunsDiffer ==
  /\ \A t \in Targets : view[t] \in used \cup {Old, Absent}
  /\ \A w, u \in Writers : w # u /\ Runs(w) /\ Runs(u) => content[w] # content[u]
  /\ \A w \in Writers : \A t \in Targets \ entries[w] : Runs(w) => view[t] # content[w]

JournalsRight ==
  \A w \in Writers : WriterRight(w) /\ \A t \in entries[w] : EntryRight(w, t)

Books == TypeOK /\ RunsDiffer /\ JournalsRight /\ ViewAndFileAgree

-----------------------------------------------------------------------------
(* A step of one writer leaves the others' journals and targets alone. *)

Same(u) ==
  /\ pc'[u] = pc[u] /\ entries'[u] = entries[u] /\ had'[u] = had[u]
  /\ published'[u] = published[u] /\ retained'[u] = retained[u]
  /\ finalized'[u] = finalized[u] /\ slipped'[u] = slipped[u] /\ left'[u] = left[u]
  /\ pending'[u] = pending[u] /\ content'[u] = content[u] /\ original'[u] = original[u]
  /\ staged'[u] = staged[u] /\ backup'[u] = backup[u]
  /\ \A t \in Targets : lock'[t] = u <=> lock[t] = u
  /\ \A t \in entries[u] :
       file'[t] = file[t] /\ view'[t] = view[t] /\ (t \in disturbed' <=> t \in disturbed)

\* Whatever one writer does, the others' journals, and the file and view of each of
\* their targets, stay as they are: the lock file keeps journals apart.
LEMMA Apart ==
  ASSUME TypeOK, NEW w \in Writers, Step(w), NEW u \in Writers, u # w
  PROVE  Same(u)
<1>0. u # Nobody /\ w # Nobody
  BY JournalAssumption
<1>1. \A t \in entries[u] : t \in Targets /\ lock[t] = u
  BY DEF TypeOK, EntriesAgree
<1>2. \A t \in entries[w] \cup pending[w] \cup published[w] \cup left[w] :
        t \in Targets /\ lock[t] = w
  BY DEF TypeOK, EntriesAgree
<1>3. ValuesTyped
  BY DEF TypeOK
<1> USE <1>0, <1>1, <1>2, <1>3
    DEF ValuesTyped, Same, disk, sql, journal, loop, run, Goto, With, Without
<1>4. CASE Begin(w)
  BY <1>4 DEF Begin
<1>5. CASE Publish(w)
  BY <1>5 DEF Publish
<1>6. CASE EndPublish(w)
  BY <1>6 DEF EndPublish
<1>7. CASE Commit(w)
  BY <1>7 DEF Commit
<1>8. CASE EndFinalize(w)
  BY <1>8 DEF EndFinalize
<1>9. CASE SqlRollback(w)
  BY <1>9 DEF SqlRollback
<1>10. CASE EndRetain(w)
  BY <1>10 DEF EndRetain
<1>11. CASE EndRevert(w)
  BY <1>11 DEF EndRevert
<1>12. CASE Error(w)
  BY <1>12 DEF Error, Fails
<1>13. ASSUME NEW t \in Targets, Prepare(w, t) PROVE Same(u)
  BY <1>13 DEF Prepare
<1>14. ASSUME NEW t \in Targets, Copy(w, t) PROVE Same(u)
  BY <1>14 DEF Copy
<1>15. ASSUME NEW t \in Targets, MoveAside(w, t) PROVE Same(u)
  BY <1>15 DEF MoveAside
<1>16. ASSUME NEW t \in Targets, MoveIn(w, t) PROVE Same(u)
  BY <1>16 DEF MoveIn
<1>17. ASSUME NEW t \in Targets, MoveInFails(w, t) PROVE Same(u)
  BY <1>17 DEF MoveInFails
<1>18. ASSUME NEW t \in Targets, Restore(w, t) PROVE Same(u)
  BY <1>18 DEF Restore, MoveBack
<1>19. ASSUME NEW t \in Targets, CreateView(w, t) PROVE Same(u)
  BY <1>19 DEF CreateView
<1>20. ASSUME NEW t \in Targets, DropBackup(w, t) PROVE Same(u)
  BY <1>20 DEF DropBackup, RemoveBackup
<1>21. ASSUME NEW t \in Targets, RemoveTarget(w, t) PROVE Same(u)
  BY <1>21 DEF RemoveTarget, Skip
<1>22. ASSUME NEW t \in Targets, RestoreBackup(w, t) PROVE Same(u)
  BY <1>22 DEF RestoreBackup, MoveBack, Skip
<1>23. ASSUME NEW t \in Targets, RemoveStaged(w, t) PROVE Same(u)
  BY <1>23 DEF RemoveStaged
<1>24. ASSUME NEW behind \in SUBSET entries[w], Leave(w, behind) PROVE Same(u)
  BY <1>24 DEF Leave
<1>25. CASE Close(w)
  BY <1>24, <1>25 DEF Close, TypeOK, EntriesAgree
<1>26. CASE Crash(w)
  BY <1>24, <1>26 DEF Crash
<1> QED BY <1>4, <1>5, <1>6, <1>7, <1>8, <1>9, <1>10, <1>11, <1>12, <1>13, <1>14, <1>15,
           <1>16, <1>17, <1>18, <1>19, <1>20, <1>21, <1>22, <1>23, <1>25, <1>26 DEF Step

-----------------------------------------------------------------------------
(* Types. *)

\* At the start every variable has its type.
LEMMA TypesInit == Init => TypeOK
BY JournalAssumption DEF Init, TypeOK, ValuesTyped, EntriesAgree, Each, NoFiles, Files

\* A file put beside one target of one writer.
LEMMA PutFile ==
  ASSUME NEW f \in [Writers -> [Targets -> Files]], NEW w \in Writers, NEW t \in Targets,
         NEW c \in Files
  PROVE  [f EXCEPT ![w][t] = c] \in [Writers -> [Targets -> Files]]
<1>1. [f[w] EXCEPT ![t] = c] \in [Targets -> Files]
  OBVIOUS
<1> QED BY <1>1

\* A set of targets replaced for one writer.
LEMMA PutSet ==
  ASSUME NEW f \in [Writers -> SUBSET Targets], NEW w \in Writers, NEW S \in SUBSET Targets
  PROVE  [f EXCEPT ![w] = S] \in [Writers -> SUBSET Targets]
OBVIOUS

\* A writer that moves on, or does not.
LEMMA PutPc ==
  ASSUME ValuesTyped, NEW w \in Writers,
         NEW p \in {"body", "publishing", "moving", "restoring", "finalizing", "failed",
                   "retaining", "reverting", "closed"},
         pc' = pc \/ pc' = [pc EXCEPT ![w] = p]
  PROVE  pc' \in [Writers -> {"idle", "body", "publishing", "moving", "restoring", "finalizing",
                        "failed", "retaining", "reverting", "closed"}]
BY DEF ValuesTyped

\* The end of a writer keeps every type.
LEMMA TypesLeave ==
  ASSUME TypeOK, NEW w \in Writers, NEW behind \in SUBSET Targets, Leave(w, behind)
  PROVE  ValuesTyped'
<1>1. /\ lock' \in [Targets -> Writers \cup {Nobody}]
      /\ orphans' \in [Targets -> SUBSET Files]
  <2>1. \A t \in Targets : backup[w][t] \in Files
    BY DEF TypeOK, ValuesTyped
  <2> QED BY <2>1 DEF TypeOK, ValuesTyped, Leave
<1>2. NoFiles \in [Targets -> Files]
  BY DEF NoFiles, Files
<1>3. /\ autocommit' \in BOOLEAN /\ file' \in [Targets -> Files] /\ view' \in [Targets -> Files]
      /\ staged' \in [Writers -> [Targets -> Files]] /\ backup' \in [Writers -> [Targets -> Files]]
      /\ original' \in [Writers -> [Targets -> Files]]
      /\ used' \subseteq Contents /\ disturbed' \subseteq Targets
  BY <1>2 DEF TypeOK, ValuesTyped, Leave
<1>4. /\ pending' \in [Writers -> SUBSET Targets] /\ entries' \in [Writers -> SUBSET Targets]
      /\ had' \in [Writers -> SUBSET Targets] /\ published' \in [Writers -> SUBSET Targets]
      /\ retained' \in [Writers -> SUBSET Targets] /\ finalized' \in [Writers -> BOOLEAN]
      /\ slipped' \in [Writers -> SUBSET Targets] /\ left' \in [Writers -> SUBSET Targets]
      /\ passes' \in [Writers -> 0..2]
      /\ content' \in [Writers -> Contents \cup {Absent}]
      /\ pc' \in [Writers -> {"idle", "body", "publishing", "moving", "restoring", "finalizing",
                             "failed", "retaining", "reverting", "closed"}]
  BY DEF TypeOK, ValuesTyped, Leave, Goto
<1> QED BY <1>1, <1>3, <1>4 DEF ValuesTyped

\* A writer's step keeps every type.
LEMMA TypesStep ==
  ASSUME TypeOK, NEW w \in Writers, Step(w)
  PROVE  ValuesTyped'
<1>1. ValuesTyped /\ Absent \in Files /\ Torn \in Files
  BY DEF TypeOK, Files
<1>2. \A t \in Targets : file[t] \in Files /\ staged[w][t] \in Files /\ backup[w][t] \in Files
                         /\ content[w] \in Files
  BY <1>1 DEF ValuesTyped, Files
<1>staged. staged \in [Writers -> [Targets -> Files]]
  BY <1>1 DEF ValuesTyped
<1>backup. backup \in [Writers -> [Targets -> Files]]
  BY <1>1 DEF ValuesTyped
<1>file. file \in [Targets -> Files]
  BY <1>1 DEF ValuesTyped
<1>view. view \in [Targets -> Files]
  BY <1>1 DEF ValuesTyped
<1>had. had \in [Writers -> SUBSET Targets] /\ had[w] \in SUBSET Targets
  BY <1>1 DEF ValuesTyped
<1>published. published \in [Writers -> SUBSET Targets] /\ published[w] \in SUBSET Targets
  BY <1>1 DEF ValuesTyped
<1>pending. pending \in [Writers -> SUBSET Targets] /\ pending[w] \in SUBSET Targets
  BY <1>1 DEF ValuesTyped
<1>retained. retained \in [Writers -> SUBSET Targets] /\ published[w] \in SUBSET Targets
  BY <1>1 DEF ValuesTyped
<1>slipped. slipped \in [Writers -> SUBSET Targets] /\ slipped[w] \in SUBSET Targets
  BY <1>1 DEF ValuesTyped
<1>left. left \in [Writers -> SUBSET Targets] /\ left[w] \in SUBSET Targets
         /\ Reverts(w) \in SUBSET Targets /\ published[w] \cap had[w] \in SUBSET Targets
  BY <1>1 DEF ValuesTyped, Reverts
<1>passes. passes \in [Writers -> 0..2]
  BY <1>1 DEF ValuesTyped
<1>pc. ValuesTyped
  BY <1>1
<1> USE DEF disk, sql, journal, loop, run, Goto, With, Without
<1>4. CASE Begin(w)
  BY <1>4, <1>1, <1>2 DEF ValuesTyped, Begin
<1>5. CASE Publish(w)
  BY <1>5, <1>1, <1>2 DEF ValuesTyped, Publish
<1>6. CASE EndPublish(w)
  BY <1>6, <1>1, <1>2 DEF ValuesTyped, EndPublish
<1>7. CASE Commit(w)
  BY <1>7, <1>1, <1>2 DEF ValuesTyped, Commit, Complete
<1>8. CASE EndFinalize(w)
  BY <1>8, <1>1, <1>2 DEF ValuesTyped, EndFinalize
<1>9. CASE SqlRollback(w)
  <2>1. pending' = [pending EXCEPT ![w] = {}]
    BY <1>9 DEF SqlRollback
  <2>2. pending' \in [Writers -> SUBSET Targets]
    BY <2>1, <1>pending, PutSet
  <2>3. slipped' = [slipped EXCEPT ![w] = {}]
    BY <1>9 DEF SqlRollback
  <2>4. slipped' \in [Writers -> SUBSET Targets]
    BY <2>3, <1>slipped, PutSet
  <2>5. retained' = retained \/ retained' = [retained EXCEPT ![w] = published[w]]
    BY <1>9 DEF SqlRollback
  <2>6. retained' \in [Writers -> SUBSET Targets]
    BY <2>5, <1>retained, PutSet
  <2>7. \/ left' = [left EXCEPT ![w] = published[w] \cap had[w]]
        \/ left' = [left EXCEPT ![w] = Reverts(w)]
    BY <1>9 DEF SqlRollback
  <2>8. left' \in [Writers -> SUBSET Targets]
    BY <2>7, <1>left, PutSet
  <2>9. passes' = [passes EXCEPT ![w] = 1] \/ passes' = [passes EXCEPT ![w] = 2]
    BY <1>9 DEF SqlRollback
  <2>10. passes' \in [Writers -> 0..2]
    BY <2>9, <1>passes, <1>1, <1>2
  <2>11. pc' = [pc EXCEPT ![w] = "retaining"] \/ pc' = [pc EXCEPT ![w] = "reverting"]
    BY <1>9 DEF SqlRollback
  <2>12. pc' \in [Writers -> {"idle", "body", "publishing", "moving", "restoring", "finalizing",
                             "failed", "retaining", "reverting", "closed"}]
    BY <2>11, <1>pc, PutPc
  <2> QED BY <1>9, <1>1, <2>2, <2>4, <2>6, <2>8, <2>10, <2>12 DEF ValuesTyped, SqlRollback
<1>10. CASE EndRetain(w)
  BY <1>10, <1>1, <1>2 DEF ValuesTyped, EndRetain, Reverts
<1>11. CASE EndRevert(w)
  <2>1. slipped' = slipped \/ slipped' = [slipped EXCEPT ![w] = {}]
    BY <1>11 DEF EndRevert
  <2>2. slipped' \in [Writers -> SUBSET Targets]
    BY <2>1, <1>slipped, PutSet
  <2>3. left' = left \/ left' = [left EXCEPT ![w] = Reverts(w)]
    BY <1>11 DEF EndRevert
  <2>4. left' \in [Writers -> SUBSET Targets]
    BY <2>3, <1>left, PutSet
  <2>5. passes' = [passes EXCEPT ![w] = 0] \/ passes' = [passes EXCEPT ![w] = 1]
    BY <1>11 DEF EndRevert
  <2>6. passes' \in [Writers -> 0..2]
    BY <2>5, <1>passes, <1>1, <1>2
  <2>7. pc' = pc \/ pc' = [pc EXCEPT ![w] = "closed"]
    BY <1>11 DEF EndRevert
  <2>8. pc' \in [Writers -> {"idle", "body", "publishing", "moving", "restoring", "finalizing",
                             "failed", "retaining", "reverting", "closed"}]
    BY <2>7, <1>pc, PutPc
  <2> QED BY <1>11, <1>1, <2>2, <2>4, <2>6, <2>8 DEF ValuesTyped, EndRevert
<1>12. CASE Error(w)
  BY <1>12, <1>1, <1>2 DEF ValuesTyped, Error, Fails
<1>13. ASSUME NEW t \in Targets, Prepare(w, t) PROVE ValuesTyped'
  BY <1>13, <1>1, <1>2, PutFile DEF ValuesTyped, Prepare
<1>14. ASSUME NEW t \in Targets, Copy(w, t) PROVE ValuesTyped'
  <2>1. \/ staged' = [staged EXCEPT ![w][t] = content[w]]
        \/ staged' = [staged EXCEPT ![w][t] = Torn]
    BY <1>14 DEF Copy
  <2>2. [staged EXCEPT ![w][t] = content[w]] \in [Writers -> [Targets -> Files]]
    BY <1>staged, <1>1, <1>2, PutFile
  <2>3. [staged EXCEPT ![w][t] = Torn] \in [Writers -> [Targets -> Files]]
    BY <1>staged, <1>1, <1>2, PutFile
  <2>4. staged' \in [Writers -> [Targets -> Files]]
    BY <2>1, <2>2, <2>3, <1>staged
  <2>5. pc' = pc \/ pc' = [pc EXCEPT ![w] = "failed"]
    BY <1>14 DEF Copy
  <2>6. pc' \in [Writers -> {"idle", "body", "publishing", "moving", "restoring", "finalizing",
                             "failed", "retaining", "reverting", "closed"}]
    BY <2>5, <1>pc, PutPc
  <2> QED BY <1>14, <1>1, <2>4, <2>6 DEF ValuesTyped, Copy
<1>15. ASSUME NEW t \in Targets, MoveAside(w, t) PROVE ValuesTyped'
  <2>1. backup' = backup \/ backup' = [backup EXCEPT ![w][t] = file[t]]
    BY <1>15 DEF MoveAside
  <2>2. [backup EXCEPT ![w][t] = file[t]] \in [Writers -> [Targets -> Files]]
    BY <1>backup, <1>1, <1>2, PutFile
  <2>3. backup' \in [Writers -> [Targets -> Files]]
    BY <2>1, <2>2, <1>backup
  <2>4. file' = file \/ file' = [file EXCEPT ![t] = Absent]
    BY <1>15 DEF MoveAside
  <2>5. file' \in [Targets -> Files]
    BY <2>4, <1>file, <1>1, <1>2
  <2>6. had' = had \/ had' = [had EXCEPT ![w] = had[w] \cup {t}]
    BY <1>15 DEF MoveAside
  <2>7. had' \in [Writers -> SUBSET Targets]
    BY <2>6, <1>had, PutSet
  <2>8. left' = [left EXCEPT ![w] = {t}]
    BY <1>15 DEF MoveAside
  <2>9. left' \in [Writers -> SUBSET Targets]
    BY <2>8, <1>left, PutSet
  <2>10. pc' = [pc EXCEPT ![w] = "moving"]
    BY <1>15 DEF MoveAside
  <2>11. pc' \in [Writers -> {"idle", "body", "publishing", "moving", "restoring", "finalizing",
                             "failed", "retaining", "reverting", "closed"}]
    BY <2>10, <1>pc, PutPc
  <2> QED BY <1>15, <1>1, <2>3, <2>5, <2>7, <2>9, <2>11 DEF ValuesTyped, MoveAside
<1>16. ASSUME NEW t \in Targets, MoveIn(w, t) PROVE ValuesTyped'
  BY <1>16, <1>1, <1>2, PutFile DEF ValuesTyped, MoveIn
<1>17. ASSUME NEW t \in Targets, MoveInFails(w, t) PROVE ValuesTyped'
  BY <1>17, <1>1, <1>2 DEF ValuesTyped, MoveInFails
<1>18. ASSUME NEW t \in Targets, Restore(w, t) PROVE ValuesTyped'
  BY <1>18, <1>1, <1>2, PutFile DEF ValuesTyped, Restore, MoveBack
<1>19. ASSUME NEW t \in Targets, CreateView(w, t) PROVE ValuesTyped'
  <2>1. view' = view \/ view' = [view EXCEPT ![t] = content[w]]
    BY <1>19 DEF CreateView
  <2>2. view' \in [Targets -> Files]
    BY <2>1, <1>view, <1>1, <1>2
  <2>3. pending' = pending \/ pending' = [pending EXCEPT ![w] = pending[w] \cup {t}]
    BY <1>19 DEF CreateView
  <2>4. pending' \in [Writers -> SUBSET Targets]
    BY <2>3, <1>pending, PutSet
  <2> QED BY <1>19, <1>1, <2>2, <2>4 DEF ValuesTyped, CreateView
<1>20. ASSUME NEW t \in Targets, DropBackup(w, t) PROVE ValuesTyped'
  <2>1. \/ backup' = backup
        \/ backup' = [backup EXCEPT ![w][t] = Absent]
        \/ backup' = [backup EXCEPT ![w][t] = Torn]
    BY <1>20 DEF DropBackup, RemoveBackup
  <2>2. [backup EXCEPT ![w][t] = Absent] \in [Writers -> [Targets -> Files]]
    BY <1>backup, <1>1, <1>2, PutFile
  <2>3. [backup EXCEPT ![w][t] = Torn] \in [Writers -> [Targets -> Files]]
    BY <1>backup, <1>1, <1>2, PutFile
  <2>4. backup' \in [Writers -> [Targets -> Files]]
    BY <2>1, <2>2, <2>3, <1>backup
  <2>5. had' = had \/ had' = [had EXCEPT ![w] = had[w] \ {t}]
    BY <1>20 DEF DropBackup, RemoveBackup
  <2>6. had' \in [Writers -> SUBSET Targets]
    BY <2>5, <1>had, PutSet
  <2>7. slipped' = slipped \/ slipped' = [slipped EXCEPT ![w] = slipped[w] \cup {t}]
    BY <1>20 DEF DropBackup, RemoveBackup
  <2>8. slipped' \in [Writers -> SUBSET Targets]
    BY <2>7, <1>slipped, PutSet
  <2>9. left' = [left EXCEPT ![w] = left[w] \ {t}]
    BY <1>20 DEF DropBackup, RemoveBackup
  <2>10. left' \in [Writers -> SUBSET Targets]
    BY <2>9, <1>left, PutSet
  <2> QED BY <1>20, <1>1, <2>4, <2>6, <2>8, <2>10 DEF ValuesTyped, DropBackup, RemoveBackup
<1>21. ASSUME NEW t \in Targets, RemoveTarget(w, t) PROVE ValuesTyped'
  <2>1. file' = file \/ file' = [file EXCEPT ![t] = Absent] \/ file' = [file EXCEPT ![t] = Torn]
    BY <1>21 DEF RemoveTarget, Skip
  <2>2. file' \in [Targets -> Files]
    BY <2>1, <1>file, <1>1, <1>2
  <2>3. published' = published \/ published' = [published EXCEPT ![w] = published[w] \ {t}]
    BY <1>21 DEF RemoveTarget, Skip
  <2>4. published' \in [Writers -> SUBSET Targets]
    BY <2>3, <1>published, PutSet
  <2>5. slipped' = slipped \/ slipped' = [slipped EXCEPT ![w] = slipped[w] \cup {t}]
    BY <1>21 DEF RemoveTarget, Skip
  <2>6. slipped' \in [Writers -> SUBSET Targets]
    BY <2>5, <1>slipped, PutSet
  <2>7. left' = left \/ left' = [left EXCEPT ![w] = left[w] \ {t}]
    BY <1>21 DEF RemoveTarget, Skip
  <2>8. left' \in [Writers -> SUBSET Targets]
    BY <2>7, <1>left, PutSet
  <2> QED BY <1>21, <1>1, <2>2, <2>4, <2>6, <2>8 DEF ValuesTyped, RemoveTarget, Skip
<1>22. ASSUME NEW t \in Targets, RestoreBackup(w, t) PROVE ValuesTyped'
  <2>1. backup' = backup \/ backup' = [backup EXCEPT ![w][t] = Absent]
    BY <1>22 DEF RestoreBackup, MoveBack, Skip
  <2>2. backup' \in [Writers -> [Targets -> Files]]
    BY <2>1, <1>backup, <1>1, <1>2, PutFile
  <2>3. file' = file \/ file' = [file EXCEPT ![t] = backup[w][t]]
    BY <1>22 DEF RestoreBackup, MoveBack, Skip
  <2>4. file' \in [Targets -> Files]
    BY <2>3, <1>file, <1>1, <1>2
  <2>5. had' = had \/ had' = [had EXCEPT ![w] = had[w] \ {t}]
    BY <1>22 DEF RestoreBackup, MoveBack, Skip
  <2>6. had' \in [Writers -> SUBSET Targets]
    BY <2>5, <1>had, PutSet
  <2>7. slipped' = slipped \/ slipped' = [slipped EXCEPT ![w] = slipped[w] \cup {t}]
    BY <1>22 DEF RestoreBackup, MoveBack, Skip
  <2>8. slipped' \in [Writers -> SUBSET Targets]
    BY <2>7, <1>slipped, PutSet
  <2>9. left' = left \/ left' = [left EXCEPT ![w] = left[w] \ {t}]
    BY <1>22 DEF RestoreBackup, MoveBack, Skip
  <2>10. left' \in [Writers -> SUBSET Targets]
    BY <2>9, <1>left, PutSet
  <2> QED BY <1>22, <1>1, <2>2, <2>4, <2>6, <2>8, <2>10 DEF ValuesTyped, RestoreBackup,
             MoveBack, Skip
<1>23. ASSUME NEW t \in Targets, RemoveStaged(w, t) PROVE ValuesTyped'
  <2>1. \/ staged' = staged
        \/ staged' = [staged EXCEPT ![w][t] = Absent]
        \/ staged' = [staged EXCEPT ![w][t] = Torn]
    BY <1>23 DEF RemoveStaged
  <2>2. staged' \in [Writers -> [Targets -> Files]]
    BY <2>1, <1>staged, <1>1, <1>2, PutFile
  <2>3. slipped' = slipped \/ slipped' = [slipped EXCEPT ![w] = slipped[w] \cup {t}]
    BY <1>23 DEF RemoveStaged
  <2>4. slipped' \in [Writers -> SUBSET Targets]
    BY <2>3, <1>slipped, PutSet
  <2>5. left' = [left EXCEPT ![w] = left[w] \ {t}]
    BY <1>23 DEF RemoveStaged
  <2>6. left' \in [Writers -> SUBSET Targets]
    BY <2>5, <1>left, PutSet
  <2> QED BY <1>23, <1>1, <2>2, <2>4, <2>6 DEF ValuesTyped, RemoveStaged
<1>24. CASE Close(w)
  BY <1>24, <1>1, TypesLeave DEF Close, ValuesTyped
<1>25. CASE Crash(w)
  BY <1>25, <1>1, TypesLeave DEF Crash, ValuesTyped
<1> QED BY <1>4, <1>5, <1>6, <1>7, <1>8, <1>9, <1>10, <1>11, <1>12, <1>13, <1>14, <1>15,
           <1>16, <1>17, <1>18, <1>19, <1>20, <1>21, <1>22, <1>23, <1>24, <1>25 DEF Step

\* A writer's step keeps its own entries equal to its locks.
LEMMA AgreeStep ==
  ASSUME TypeOK, NEW w \in Writers, Step(w)
  PROVE  EntriesAgree(w)'
<1>1. EntriesAgree(w) /\ ValuesTyped /\ w # Nobody
  BY JournalAssumption DEF TypeOK
<1> USE <1>1 DEF ValuesTyped, EntriesAgree, disk, sql, journal, loop, run, Goto, With, Without
<1>2. CASE Begin(w)
  BY <1>2 DEF Begin
<1>3. CASE Publish(w)
  BY <1>3 DEF Publish
<1>4. CASE EndPublish(w)
  BY <1>4 DEF EndPublish
<1>5. CASE Commit(w)
  BY <1>5 DEF Commit, Complete
<1>6. CASE EndFinalize(w)
  BY <1>6 DEF EndFinalize
<1>7. CASE SqlRollback(w)
  BY <1>7 DEF SqlRollback, Reverts
<1>8. CASE EndRetain(w)
  BY <1>8 DEF EndRetain, Reverts
<1>9. CASE EndRevert(w)
  BY <1>9 DEF EndRevert, Reverts
<1>10. CASE Error(w)
  BY <1>10 DEF Error, Fails
<1>11. ASSUME NEW t \in Targets, Prepare(w, t) PROVE EntriesAgree(w)'
  BY <1>11 DEF Prepare
<1>12. ASSUME NEW t \in Targets, Copy(w, t) PROVE EntriesAgree(w)'
  BY <1>12 DEF Copy
<1>13. ASSUME NEW t \in Targets, MoveAside(w, t) PROVE EntriesAgree(w)'
  BY <1>13 DEF MoveAside
<1>14. ASSUME NEW t \in Targets, MoveIn(w, t) PROVE EntriesAgree(w)'
  BY <1>14 DEF MoveIn
<1>15. ASSUME NEW t \in Targets, MoveInFails(w, t) PROVE EntriesAgree(w)'
  BY <1>15 DEF MoveInFails
<1>16. ASSUME NEW t \in Targets, Restore(w, t) PROVE EntriesAgree(w)'
  BY <1>16 DEF Restore, MoveBack
<1>17. ASSUME NEW t \in Targets, CreateView(w, t) PROVE EntriesAgree(w)'
  BY <1>17 DEF CreateView
<1>18. ASSUME NEW t \in Targets, DropBackup(w, t) PROVE EntriesAgree(w)'
  BY <1>18 DEF DropBackup, RemoveBackup
<1>19. ASSUME NEW t \in Targets, RemoveTarget(w, t) PROVE EntriesAgree(w)'
  BY <1>19 DEF RemoveTarget, Skip
<1>20. ASSUME NEW t \in Targets, RestoreBackup(w, t) PROVE EntriesAgree(w)'
  BY <1>20 DEF RestoreBackup, MoveBack, Skip
<1>21. ASSUME NEW t \in Targets, RemoveStaged(w, t) PROVE EntriesAgree(w)'
  BY <1>21 DEF RemoveStaged
<1>22. ASSUME NEW behind, Leave(w, behind) PROVE EntriesAgree(w)'
  BY <1>22 DEF Leave
<1>23. CASE Close(w)
  BY <1>22, <1>23 DEF Close
<1>24. CASE Crash(w)
  BY <1>22, <1>24 DEF Crash
<1> QED BY <1>2, <1>3, <1>4, <1>5, <1>6, <1>7, <1>8, <1>9, <1>10, <1>11, <1>12, <1>13,
           <1>14, <1>15, <1>16, <1>17, <1>18, <1>19, <1>20, <1>21, <1>23, <1>24 DEF Step

\* Every step keeps the type invariant.
LEMMA TypesAreKept ==
  ASSUME TypeOK, [Next]_vars
  PROVE  TypeOK'
<1>1. ASSUME NEW w \in Writers, Step(w) PROVE TypeOK'
  <2>1. ValuesTyped' /\ EntriesAgree(w)'
    BY <1>1, TypesStep, AgreeStep
  <2>2. ASSUME NEW u \in Writers, u # w PROVE EntriesAgree(u)'
    <3>1. Same(u) /\ EntriesAgree(u)
      BY <1>1, <2>2, Apart DEF TypeOK
    <3> QED BY <3>1 DEF Same, EntriesAgree
  <2> QED BY <2>1, <2>2 DEF TypeOK
<1>2. CASE UNCHANGED vars
  BY <1>2 DEF TypeOK, ValuesTyped, EntriesAgree, vars, disk, sql, journal, loop, run
<1> QED BY <1>1, <1>2 DEF Next

\* Every variable keeps its type, and a journal's entries are exactly the targets
\* its writer has locked: no two journals share a target.
THEOREM TypesHold == Spec => []TypeOK
BY TypesInit, TypesAreKept, PTL DEF Spec

-----------------------------------------------------------------------------
(* The journals. *)

\* disable_transactions is fixed, and contents are not written twice.
LEMMA Steady ==
  ASSUME NEW w \in Writers, Step(w)
  PROVE  autocommit' = autocommit /\ used \subseteq used'
BY DEF Step, Begin, Prepare, Copy, Publish, MoveAside, MoveIn, MoveInFails, Restore, MoveBack,
       EndPublish, CreateView, Commit, DropBackup, EndFinalize, SqlRollback, EndRetain,
       RemoveTarget, RestoreBackup, RemoveStaged, EndRevert, Close, Crash, Leave, Error, Fails,
       disk, sql, journal, loop, run

\* The other writers' journals stay right.
LEMMA OthersRight ==
  ASSUME Books, NEW w \in Writers, Step(w), NEW u \in Writers, u # w
  PROVE  WriterRight(u)' /\ \A t \in entries'[u] : EntryRight(u, t)'
<1>1. /\ WriterRight(u) /\ \A t \in entries[u] : EntryRight(u, t)
      /\ Same(u) /\ autocommit' = autocommit /\ used \subseteq used'
  BY Apart, Steady DEF Books, JournalsRight
<1>2. WriterRight(u)'
  BY <1>1 DEF Same, WriterRight, Runs, Undoes
<1>3. ASSUME NEW t \in entries[u] PROVE EntryRight(u, t)'
  BY <1>1, <1>3 DEF Same, EntryRight, PlacesRight, LoopRight, ViewRight, Undoes
<1> QED BY <1>1, <1>2, <1>3 DEF Same

\* So does what the writer's own journal says of it,
LEMMA OwnWriterRight ==
  ASSUME Books, NEW w \in Writers, Step(w)
  PROVE  WriterRight(w)'
<1>1. /\ ValuesTyped /\ EntriesAgree(w) /\ WriterRight(w)
      /\ \A t \in entries[w] : EntryRight(w, t)
  BY DEF Books, TypeOK, JournalsRight
<1> USE <1>1 DEF ValuesTyped, EntriesAgree, WriterRight, Runs, Undoes, disk, sql, journal, loop,
                 run, Goto, With, Without
<1>2. CASE Begin(w)
  BY <1>2 DEF Begin
<1>3. CASE Publish(w)
  BY <1>3 DEF Publish
<1>4. CASE EndPublish(w)
  BY <1>4 DEF EndPublish
<1>5. CASE Commit(w)
  BY <1>5 DEF Commit, Complete
<1>6. CASE EndFinalize(w)
  BY <1>6 DEF EndFinalize
<1>7. CASE SqlRollback(w)
  <2>1. CASE autocommit
    <3>1. /\ retained'[w] = published[w] /\ pc'[w] = "retaining"
          /\ published'[w] = published[w] /\ finalized'[w] = finalized[w]
          /\ entries'[w] = entries[w] /\ content'[w] = content[w] /\ used' = used
          /\ staged' = staged /\ backup' = backup /\ autocommit'
      BY <1>7, <2>1 DEF SqlRollback
    <3>2. pc[w] = "failed"
      BY <1>7 DEF SqlRollback
    <3> QED BY <3>1, <3>2
  <2>2. CASE ~autocommit
    <3>1. finalized[w] => Reverts(w) = {}
      BY DEF Reverts
    <3>2. left'[w] = Reverts(w) /\ pc'[w] = "reverting" /\ retained'[w] = retained[w]
      BY <1>7, <2>2 DEF SqlRollback
    <3> QED BY <1>7, <2>2, <3>1, <3>2 DEF SqlRollback
  <2> QED BY <2>1, <2>2
<1>8. CASE EndRetain(w)
  BY <1>8 DEF EndRetain, Reverts
<1>9. CASE EndRevert(w)
  <2>1. left[w] = {} /\ (finalized[w] => Reverts(w) = {})
    BY <1>9 DEF EndRevert, Reverts
  <2>2. CASE passes[w] = 2
    <3>1. left'[w] = Reverts(w) /\ pc'[w] = "reverting"
      BY <1>9, <2>2 DEF EndRevert
    <3> QED BY <1>9, <2>1, <3>1 DEF EndRevert
  <2>3. CASE passes[w] # 2
    <3>1. left'[w] = {} /\ pc'[w] = "closed"
      BY <1>9, <2>1, <2>3 DEF EndRevert
    <3> QED BY <1>9, <2>1, <3>1 DEF EndRevert
  <2> QED BY <2>2, <2>3
<1>10. CASE Error(w)
  BY <1>10 DEF Error, Fails
<1>11. ASSUME NEW t \in Targets, Prepare(w, t) PROVE WriterRight(w)'
  BY <1>11 DEF Prepare
<1>12. ASSUME NEW t \in Targets, Copy(w, t) PROVE WriterRight(w)'
  BY <1>12 DEF Copy
<1>13. ASSUME NEW t \in Targets, MoveAside(w, t) PROVE WriterRight(w)'
  BY <1>13 DEF MoveAside
<1>14. ASSUME NEW t \in Targets, MoveIn(w, t) PROVE WriterRight(w)'
  BY <1>14 DEF MoveIn
<1>15. ASSUME NEW t \in Targets, MoveInFails(w, t) PROVE WriterRight(w)'
  BY <1>15 DEF MoveInFails, EntryRight, LoopRight
<1>16. ASSUME NEW t \in Targets, Restore(w, t) PROVE WriterRight(w)'
  BY <1>16 DEF Restore, MoveBack
<1>17. ASSUME NEW t \in Targets, CreateView(w, t) PROVE WriterRight(w)'
  BY <1>17 DEF CreateView
<1>18. ASSUME NEW t \in Targets, DropBackup(w, t) PROVE WriterRight(w)'
  <2>1. t \in entries[w] /\ \A x \in Targets : x # t => backup'[w][x] = backup[w][x]
    BY <1>18 DEF DropBackup, RemoveBackup
  <2>2. /\ pc'[w] = pc[w] /\ entries'[w] = entries[w] /\ published'[w] = published[w]
        /\ retained'[w] = retained[w] /\ finalized'[w] = finalized[w]
        /\ content'[w] = content[w] /\ used' = used /\ autocommit' = autocommit
        /\ staged'[w] = staged[w]
    BY <1>18 DEF DropBackup
  <2>3. left'[w] = left[w] \ {t}
    BY <1>18 DEF DropBackup
  <2>4. pc[w] \notin {"moving", "restoring", "reverting", "closed"}
    BY <1>18 DEF DropBackup
  <2>5. \A x \in Targets \ entries'[w] : staged'[w][x] = Absent /\ backup'[w][x] = Absent
    <3>1. ASSUME NEW x \in Targets \ entries[w]
          PROVE  staged[w][x] = Absent /\ backup[w][x] = Absent /\ x # t
      BY <2>1
    <3> HIDE <1>1
    <3> QED BY <2>1, <2>2, <3>1
  <2> QED BY <2>2, <2>3, <2>4, <2>5
<1>19. ASSUME NEW t \in Targets, RemoveTarget(w, t) PROVE WriterRight(w)'
  BY <1>19 DEF RemoveTarget, Skip, EntryRight, LoopRight
<1>20. ASSUME NEW t \in Targets, RestoreBackup(w, t) PROVE WriterRight(w)'
  BY <1>20 DEF RestoreBackup, MoveBack, Skip
<1>21. ASSUME NEW t \in Targets, RemoveStaged(w, t) PROVE WriterRight(w)'
  BY <1>21 DEF RemoveStaged
<1>22. ASSUME NEW behind, Leave(w, behind) PROVE WriterRight(w)'
  BY <1>22 DEF Leave, NoFiles
<1>23. CASE Close(w)
  BY <1>22, <1>23 DEF Close
<1>24. CASE Crash(w)
  BY <1>22, <1>24 DEF Crash
<1> QED BY <1>2, <1>3, <1>4, <1>5, <1>6, <1>7, <1>8, <1>9, <1>10, <1>11, <1>12, <1>13,
           <1>14, <1>15, <1>16, <1>17, <1>18, <1>19, <1>20, <1>21, <1>23, <1>24 DEF Step

\* and of each of its entries.
LEMMA OwnEntriesRight ==
  ASSUME Books, NEW w \in Writers, Step(w), NEW x \in entries'[w]
  PROVE  EntryRight(w, x)'
<1>1. /\ ValuesTyped /\ EntriesAgree(w) /\ WriterRight(w) /\ x \in Targets
      /\ x \in entries[w] => EntryRight(w, x)
  BY AgreeStep, TypesStep DEF Books, TypeOK, JournalsRight, EntriesAgree, ValuesTyped
<1> USE <1>1 DEF ValuesTyped, EntriesAgree, WriterRight, EntryRight, PlacesRight, LoopRight,
                 ViewRight, Runs, Undoes, disk, sql, journal, loop, run, Goto, With, Without
<1>2. CASE Begin(w)
  BY <1>2 DEF Begin
<1>3. CASE Publish(w)
  BY <1>3 DEF Publish
<1>4. CASE EndPublish(w)
  BY <1>4 DEF EndPublish
<1>5. CASE Commit(w)
  BY <1>5 DEF Commit, Complete
<1>6. CASE EndFinalize(w)
  BY <1>6 DEF EndFinalize
<1>7. CASE SqlRollback(w)
  BY <1>7 DEF SqlRollback, Reverts
<1>8. CASE EndRetain(w)
  BY <1>8 DEF EndRetain, Reverts
<1>9. CASE EndRevert(w)
  BY <1>9 DEF EndRevert, Reverts
<1>10. CASE Error(w)
  BY <1>10 DEF Error, Fails
<1>11. ASSUME NEW t \in Targets, Prepare(w, t) PROVE EntryRight(w, x)'
  <2>1. CASE x = t
    <3>1. t \notin entries[w] /\ pc[w] = "body" /\ lock[t] = Nobody /\ ~finalized[w]
      BY <1>11 DEF Prepare
    <3>2. /\ view[t] # content[w] /\ staged[w][t] = Absent /\ backup[w][t] = Absent
          /\ ~autocommit /\ t \notin disturbed => view[t] = file[t]
      BY <3>1 DEF Books, RunsDiffer, ViewAndFileAgree
    <3>3. original'[w][t] = file[t]
      BY <1>11 DEF Prepare
    <3> QED BY <1>11, <2>1, <3>1, <3>2, <3>3 DEF Prepare
  <2>2. CASE x # t
    BY <1>11, <2>2 DEF Prepare
  <2> QED BY <2>1, <2>2
<1>12. ASSUME NEW t \in Targets, Copy(w, t) PROVE EntryRight(w, x)'
  BY <1>12 DEF Copy
<1>13. ASSUME NEW t \in Targets, MoveAside(w, t) PROVE EntryRight(w, x)'
  BY <1>13 DEF MoveAside
<1>14. ASSUME NEW t \in Targets, MoveIn(w, t) PROVE EntryRight(w, x)'
  BY <1>14 DEF MoveIn
<1>15. ASSUME NEW t \in Targets, MoveInFails(w, t) PROVE EntryRight(w, x)'
  BY <1>15 DEF MoveInFails
<1>16. ASSUME NEW t \in Targets, Restore(w, t) PROVE EntryRight(w, x)'
  BY <1>16 DEF Restore, MoveBack
<1>17. ASSUME NEW t \in Targets, CreateView(w, t) PROVE EntryRight(w, x)'
  BY <1>17 DEF CreateView
<1>18. ASSUME NEW t \in Targets, DropBackup(w, t) PROVE EntryRight(w, x)'
  BY <1>18 DEF DropBackup, RemoveBackup
<1>19. ASSUME NEW t \in Targets, RemoveTarget(w, t) PROVE EntryRight(w, x)'
  BY <1>19 DEF RemoveTarget, Skip
<1>20. ASSUME NEW t \in Targets, RestoreBackup(w, t) PROVE EntryRight(w, x)'
  BY <1>20 DEF RestoreBackup, MoveBack, Skip
<1>21. ASSUME NEW t \in Targets, RemoveStaged(w, t) PROVE EntryRight(w, x)'
  BY <1>21 DEF RemoveStaged
<1>22. ASSUME NEW behind, Leave(w, behind) PROVE FALSE
  BY <1>22 DEF Leave
<1>23. CASE Close(w)
  BY <1>22, <1>23 DEF Close
<1>24. CASE Crash(w)
  BY <1>22, <1>24 DEF Crash
<1> QED BY <1>2, <1>3, <1>4, <1>5, <1>6, <1>7, <1>8, <1>9, <1>10, <1>11, <1>12, <1>13,
           <1>14, <1>15, <1>16, <1>17, <1>18, <1>19, <1>20, <1>21, <1>23, <1>24 DEF Step

\* A run takes a content nobody took, and a view takes the content of its run.
LEMMA RunsStillDiffer ==
  ASSUME Books, NEW w \in Writers, Step(w)
  PROVE  RunsDiffer'
<1>1. /\ ValuesTyped /\ RunsDiffer /\ WriterRight(w) /\ EntriesAgree(w)
      /\ pending[w] \cup published[w] \subseteq entries[w]
      /\ Absent \notin Contents /\ Old \notin Contents
      /\ \A u \in Writers : Runs(u) => content[u] \in used
      /\ \A u \in Writers : entries[u] = {t \in Targets : lock[t] = u}
  BY JournalAssumption DEF Books, TypeOK, JournalsRight, EntriesAgree, WriterRight
<1> USE <1>1 DEF ValuesTyped, RunsDiffer, Runs, disk, sql, journal, loop, run, Goto, With, Without
<1>2. CASE Begin(w)
  <2>1. PICK c \in Contents \ used :
          content' = [content EXCEPT ![w] = c] /\ used' = used \cup {c}
    BY <1>2 DEF Begin
  <2>2. /\ view' = view /\ entries' = entries /\ content'[w] = c
        /\ \A u \in Writers : u # w => (Runs(u)' <=> Runs(u)) /\ content'[u] = content[u]
    BY <1>2, <2>1 DEF Begin
  <2>3. \A t \in Targets : view'[t] \in used' \cup {Old, Absent} /\ view'[t] # c
    BY <2>1, <2>2
  <2>4. \A u \in Writers :
          u # w /\ Runs(u)' => content'[u] # c /\ content'[u] = content[u] /\ Runs(u)
    BY <2>1, <2>2
  <2> QED BY <2>1, <2>2, <2>3, <2>4
<1>3. CASE Publish(w)
  BY <1>3 DEF Publish
<1>4. CASE EndPublish(w)
  BY <1>4 DEF EndPublish
<1>5. CASE Commit(w)
  BY <1>5 DEF Commit, Complete
<1>6. CASE EndFinalize(w)
  BY <1>6 DEF EndFinalize
<1>7. CASE SqlRollback(w)
  <2>1. /\ view' = view /\ used' = used /\ content' = content /\ entries' = entries
        /\ \A u \in Writers : Runs(u)' <=> Runs(u)
    BY <1>7 DEF SqlRollback
  <2> QED BY <2>1
<1>8. CASE EndRetain(w)
  BY <1>8 DEF EndRetain, Reverts
<1>9. CASE EndRevert(w)
  <2>1. /\ view' = view /\ used' = used /\ content' = content /\ entries' = entries
        /\ \A u \in Writers : Runs(u)' <=> Runs(u)
    BY <1>9 DEF EndRevert
  <2> QED BY <2>1
<1>10. CASE Error(w)
  BY <1>10 DEF Error, Fails
<1>11. ASSUME NEW t \in Targets, Prepare(w, t) PROVE RunsDiffer'
  BY <1>11 DEF Prepare
<1>12. ASSUME NEW t \in Targets, Copy(w, t) PROVE RunsDiffer'
  BY <1>12 DEF Copy
<1>13. ASSUME NEW t \in Targets, MoveAside(w, t) PROVE RunsDiffer'
  BY <1>13 DEF MoveAside
<1>14. ASSUME NEW t \in Targets, MoveIn(w, t) PROVE RunsDiffer'
  BY <1>14 DEF MoveIn
<1>15. ASSUME NEW t \in Targets, MoveInFails(w, t) PROVE RunsDiffer'
  BY <1>15 DEF MoveInFails
<1>16. ASSUME NEW t \in Targets, Restore(w, t) PROVE RunsDiffer'
  BY <1>16 DEF Restore, MoveBack
<1>17. ASSUME NEW t \in Targets, CreateView(w, t) PROVE RunsDiffer'
  BY <1>17 DEF CreateView
<1>18. ASSUME NEW t \in Targets, DropBackup(w, t) PROVE RunsDiffer'
  BY <1>18 DEF DropBackup, RemoveBackup
<1>19. ASSUME NEW t \in Targets, RemoveTarget(w, t) PROVE RunsDiffer'
  BY <1>19 DEF RemoveTarget, Skip
<1>20. ASSUME NEW t \in Targets, RestoreBackup(w, t) PROVE RunsDiffer'
  BY <1>20 DEF RestoreBackup, MoveBack, Skip
<1>21. ASSUME NEW t \in Targets, RemoveStaged(w, t) PROVE RunsDiffer'
  BY <1>21 DEF RemoveStaged
<1>22. ASSUME NEW behind, Leave(w, behind) PROVE RunsDiffer'
  BY <1>22 DEF Leave
<1>23. CASE Close(w)
  BY <1>22, <1>23 DEF Close
<1>24. CASE Crash(w)
  BY <1>22, <1>24 DEF Crash
<1> QED BY <1>2, <1>3, <1>4, <1>5, <1>6, <1>7, <1>8, <1>9, <1>10, <1>11, <1>12, <1>13,
           <1>14, <1>15, <1>16, <1>17, <1>18, <1>19, <1>20, <1>21, <1>23, <1>24 DEF Step

\* A target that is not locked has the view of its file.
LEMMA StillAgree ==
  ASSUME Books, NEW w \in Writers, Step(w),
         ~autocommit, NEW x \in Targets \ disturbed', lock'[x] = Nobody
  PROVE  file'[x] = view'[x]
<1>1. /\ ValuesTyped /\ WriterRight(w) /\ EntriesAgree(w) /\ w # Nobody
      /\ x \in entries[w] => EntryRight(w, x)
      /\ x \notin disturbed /\ lock[x] = Nobody => file[x] = view[x]
  BY JournalAssumption DEF Books, TypeOK, JournalsRight, ViewAndFileAgree
<1> USE <1>1 DEF ValuesTyped, EntriesAgree, disk, sql, journal, loop, run, Goto, With, Without
<1>2. CASE Begin(w)
  BY <1>2 DEF Begin
<1>3. CASE Publish(w)
  BY <1>3 DEF Publish
<1>4. CASE EndPublish(w)
  BY <1>4 DEF EndPublish
<1>5. CASE Commit(w)
  BY <1>5 DEF Commit, Complete
<1>6. CASE EndFinalize(w)
  BY <1>6 DEF EndFinalize
<1>7. CASE SqlRollback(w)
  BY <1>7 DEF SqlRollback, Reverts
<1>8. CASE EndRetain(w)
  BY <1>8 DEF EndRetain, Reverts
<1>9. CASE EndRevert(w)
  BY <1>9 DEF EndRevert, Reverts
<1>10. CASE Error(w)
  BY <1>10 DEF Error, Fails
<1>11. ASSUME NEW t \in Targets, Prepare(w, t) PROVE file'[x] = view'[x]
  BY <1>11 DEF Prepare
<1>12. ASSUME NEW t \in Targets, Copy(w, t) PROVE file'[x] = view'[x]
  BY <1>12 DEF Copy
<1>13. ASSUME NEW t \in Targets, MoveAside(w, t) PROVE file'[x] = view'[x]
  BY <1>13 DEF MoveAside
<1>14. ASSUME NEW t \in Targets, MoveIn(w, t) PROVE file'[x] = view'[x]
  BY <1>14 DEF MoveIn
<1>15. ASSUME NEW t \in Targets, MoveInFails(w, t) PROVE file'[x] = view'[x]
  BY <1>15 DEF MoveInFails
<1>16. ASSUME NEW t \in Targets, Restore(w, t) PROVE file'[x] = view'[x]
  BY <1>16 DEF Restore, MoveBack
<1>17. ASSUME NEW t \in Targets, CreateView(w, t) PROVE file'[x] = view'[x]
  BY <1>17 DEF CreateView
<1>18. ASSUME NEW t \in Targets, DropBackup(w, t) PROVE file'[x] = view'[x]
  BY <1>18 DEF DropBackup, RemoveBackup
<1>19. ASSUME NEW t \in Targets, RemoveTarget(w, t) PROVE file'[x] = view'[x]
  BY <1>19 DEF RemoveTarget, Skip
<1>20. ASSUME NEW t \in Targets, RestoreBackup(w, t) PROVE file'[x] = view'[x]
  BY <1>20 DEF RestoreBackup, MoveBack, Skip
<1>21. ASSUME NEW t \in Targets, RemoveStaged(w, t) PROVE file'[x] = view'[x]
  BY <1>21 DEF RemoveStaged
<1>22. CASE Close(w)
  BY <1>22 DEF Close, Leave, WriterRight, EntryRight, PlacesRight, LoopRight, ViewRight,
     Undoes, Runs
<1>23. CASE Crash(w)
  BY <1>23 DEF Crash, Leave, WriterRight, EntryRight
<1> QED BY <1>2, <1>3, <1>4, <1>5, <1>6, <1>7, <1>8, <1>9, <1>10, <1>11, <1>12, <1>13,
           <1>14, <1>15, <1>16, <1>17, <1>18, <1>19, <1>20, <1>21, <1>22, <1>23 DEF Step

\* What a view reads is moved aside or put into orphans, never removed.
LEMMA StillThere ==
  ASSUME Books, NothingLost, NEW w \in Writers, Step(w), ~autocommit, NEW x \in Targets,
         view'[x] # Absent, file'[x] # view'[x]
  PROVE  view'[x] \in orphans'[x] \/ \E u \in Writers : view'[x] = backup'[u][x]
<1>1. /\ ValuesTyped /\ WriterRight(w) /\ EntriesAgree(w)
      /\ x \in entries[w] => EntryRight(w, x)
      /\ view[x] \in {Absent, file[x]} \cup orphans[x] \/ \E u \in Writers : view[x] = backup[u][x]
      /\ view[x] # Torn
  BY JournalAssumption DEF Books, TypeOK, JournalsRight, NothingLost, RunsDiffer, ValuesTyped
<1> USE <1>1 DEF ValuesTyped, EntriesAgree, disk, sql, journal, loop, run, Goto, With, Without
<1>2. CASE Begin(w)
  BY <1>2 DEF Begin
<1>3. CASE Publish(w)
  BY <1>3 DEF Publish
<1>4. CASE EndPublish(w)
  BY <1>4 DEF EndPublish
<1>5. CASE Commit(w)
  BY <1>5 DEF Commit, Complete, WriterRight, EntryRight, PlacesRight, LoopRight, ViewRight,
     Undoes
<1>6. CASE EndFinalize(w)
  BY <1>6 DEF EndFinalize
<1>7. CASE SqlRollback(w)
  BY <1>7 DEF SqlRollback, Reverts
<1>8. CASE EndRetain(w)
  BY <1>8 DEF EndRetain, Reverts
<1>9. CASE EndRevert(w)
  BY <1>9 DEF EndRevert, Reverts
<1>10. CASE Error(w)
  BY <1>10 DEF Error, Fails
<1>11. ASSUME NEW t \in Targets, Prepare(w, t)
      PROVE  view'[x] \in orphans'[x] \/ \E u \in Writers : view'[x] = backup'[u][x]
  BY <1>11 DEF Prepare
<1>12. ASSUME NEW t \in Targets, Copy(w, t)
      PROVE  view'[x] \in orphans'[x] \/ \E u \in Writers : view'[x] = backup'[u][x]
  BY <1>12 DEF Copy
<1>13. ASSUME NEW t \in Targets, MoveAside(w, t)
      PROVE  view'[x] \in orphans'[x] \/ \E u \in Writers : view'[x] = backup'[u][x]
  <2>1. view' = view /\ orphans' = orphans
    BY <1>13 DEF MoveAside
  <2>2. CASE x = t /\ file[t] # Absent
    <3>1. t \in entries[w] \ published[w] /\ ~finalized[w]
      BY <1>13, <2>2 DEF MoveAside, WriterRight, EntryRight, LoopRight
    <3>2. t \notin had[w] /\ backup[w][t] = Absent
      BY <2>2, <3>1 DEF EntryRight, PlacesRight
    <3>3. backup'[w][t] = file[t] /\ \A u \in Writers : u # w => backup'[u][t] = backup[u][t]
      BY <1>13, <2>2 DEF MoveAside
    <3> QED BY <2>1, <2>2, <3>2, <3>3
  <2>3. CASE x # t \/ file[t] = Absent
    <3>1. CASE file[t] = Absent
      <4>1. backup' = backup /\ file' = file
        BY <1>13, <3>1 DEF MoveAside
      <4> QED BY <2>1, <4>1
    <3>2. CASE file[t] # Absent
      <4>1. file' = [file EXCEPT ![t] = Absent] /\ backup' = [backup EXCEPT ![w][t] = file[t]]
        BY <1>13, <3>2 DEF MoveAside
      <4>2. file'[x] = file[x] /\ \A u \in Writers : backup'[u][x] = backup[u][x]
        BY <4>1, <2>3, <3>2
      <4> QED BY <2>1, <4>2
    <3> QED BY <3>1, <3>2
  <2> QED BY <2>2, <2>3
<1>14. ASSUME NEW t \in Targets, MoveIn(w, t)
      PROVE  view'[x] \in orphans'[x] \/ \E u \in Writers : view'[x] = backup'[u][x]
  BY <1>14 DEF MoveIn, WriterRight, EntryRight, PlacesRight, LoopRight, ViewRight, Undoes
<1>15. ASSUME NEW t \in Targets, MoveInFails(w, t)
      PROVE  view'[x] \in orphans'[x] \/ \E u \in Writers : view'[x] = backup'[u][x]
  BY <1>15 DEF MoveInFails
<1>16. ASSUME NEW t \in Targets, Restore(w, t)
      PROVE  view'[x] \in orphans'[x] \/ \E u \in Writers : view'[x] = backup'[u][x]
  BY <1>16 DEF Restore, MoveBack, WriterRight, EntryRight, PlacesRight, LoopRight,
     ViewRight, Undoes
<1>17. ASSUME NEW t \in Targets, CreateView(w, t)
      PROVE  view'[x] \in orphans'[x] \/ \E u \in Writers : view'[x] = backup'[u][x]
  BY <1>17 DEF CreateView
<1>18. ASSUME NEW t \in Targets, DropBackup(w, t)
      PROVE  view'[x] \in orphans'[x] \/ \E u \in Writers : view'[x] = backup'[u][x]
  <2>1. view' = view /\ orphans' = orphans /\ file' = file
    BY <1>18 DEF DropBackup
  <2>2. CASE x = t
    <3>1. t \in entries[w] /\ finalized[w]
      BY <1>18 DEF DropBackup, WriterRight
    <3> QED BY <2>1, <2>2, <3>1 DEF EntryRight
  <2>3. CASE x # t
    <3>1. \A u \in Writers : backup'[u][x] = backup[u][x]
      BY <1>18, <2>3 DEF DropBackup, RemoveBackup
    <3> QED BY <2>1, <3>1
  <2> QED BY <2>2, <2>3
<1>19. ASSUME NEW t \in Targets, RemoveTarget(w, t)
      PROVE  view'[x] \in orphans'[x] \/ \E u \in Writers : view'[x] = backup'[u][x]
  BY <1>19 DEF RemoveTarget, Skip, WriterRight, EntryRight, PlacesRight, LoopRight,
     ViewRight, Undoes
<1>20. ASSUME NEW t \in Targets, RestoreBackup(w, t)
      PROVE  view'[x] \in orphans'[x] \/ \E u \in Writers : view'[x] = backup'[u][x]
  <2>1. view' = view /\ orphans' = orphans
    BY <1>20 DEF RestoreBackup, MoveBack
  <2>2. CASE x = t /\ MoveBack(w, t)
    <3>1. t \in entries[w] \ published[w] /\ t \in had[w] /\ ~finalized[w]
      BY <1>20 DEF RestoreBackup, WriterRight
    <3>2. file[t] = Absent
      BY <2>2, <3>1 DEF EntryRight, PlacesRight
    <3>3. file'[t] = backup[w][t] /\ \A u \in Writers : u # w => backup'[u][t] = backup[u][t]
      BY <2>2 DEF MoveBack
    <3> QED BY <2>1, <2>2, <3>2, <3>3
  <2>3. CASE x # t /\ MoveBack(w, t)
    <3>1. file'[x] = file[x] /\ \A u \in Writers : backup'[u][x] = backup[u][x]
      BY <2>3 DEF MoveBack
    <3> QED BY <2>1, <3>1
  <2>4. CASE UNCHANGED disk
    BY <2>1, <2>4
  <2> QED BY <1>20, <2>2, <2>3, <2>4 DEF RestoreBackup
<1>21. ASSUME NEW t \in Targets, RemoveStaged(w, t)
      PROVE  view'[x] \in orphans'[x] \/ \E u \in Writers : view'[x] = backup'[u][x]
  BY <1>21 DEF RemoveStaged
<1>22. ASSUME NEW behind, Leave(w, behind)
       PROVE  view'[x] \in orphans'[x] \/ \E u \in Writers : view'[x] = backup'[u][x]
  BY <1>22 DEF Leave
<1>23. CASE Close(w)
  BY <1>22, <1>23 DEF Close
<1>24. CASE Crash(w)
  BY <1>22, <1>24 DEF Crash
<1> QED BY <1>2, <1>3, <1>4, <1>5, <1>6, <1>7, <1>8, <1>9, <1>10, <1>11, <1>12, <1>13,
           <1>14, <1>15, <1>16, <1>17, <1>18, <1>19, <1>20, <1>21, <1>23, <1>24 DEF Step

-----------------------------------------------------------------------------
(* The theorems. *)

\* The invariant holds at the start,
LEMMA BooksInit == Init => Books /\ NothingLost
<1> SUFFICES ASSUME Init PROVE Books /\ NothingLost
  OBVIOUS
<1>1. TypeOK
  BY TypesInit
<1>2. RunsDiffer
  BY DEF Init, RunsDiffer, Runs, Each
<1>3. JournalsRight
  BY DEF Init, JournalsRight, WriterRight, Runs, Undoes, Each, NoFiles
<1>4. ViewAndFileAgree /\ NothingLost
  BY DEF Init, ViewAndFileAgree, NothingLost
<1> QED BY <1>1, <1>2, <1>3, <1>4 DEF Books

\* and every step keeps it.
LEMMA BooksAreKept ==
  ASSUME Books, [Next]_vars
  PROVE  Books'
<1>1. TypeOK'
  BY TypesAreKept DEF Books
<1>2. ASSUME NEW w \in Writers, Step(w) PROVE Books'
  <2>1. RunsDiffer'
    BY <1>2, RunsStillDiffer
  <2>2. JournalsRight'
    <3> SUFFICES ASSUME NEW u \in Writers
                 PROVE  WriterRight(u)' /\ \A t \in entries'[u] : EntryRight(u, t)'
      BY DEF JournalsRight
    <3>1. CASE u = w
      BY <1>2, <3>1, OwnWriterRight, OwnEntriesRight
    <3>2. CASE u # w
      BY <1>2, <3>2, OthersRight
    <3> QED BY <3>1, <3>2
  <2>3. ViewAndFileAgree'
    BY <1>2, Steady, StillAgree DEF ViewAndFileAgree
  <2> QED BY <1>1, <2>1, <2>2, <2>3 DEF Books
<1>3. CASE UNCHANGED vars
  BY <1>1, <1>3 DEF Books, RunsDiffer, Runs, JournalsRight, WriterRight, Undoes, EntryRight,
     PlacesRight, LoopRight, ViewRight, ViewAndFileAgree, vars, disk, sql, journal, loop, run
<1> QED BY <1>2, <1>3 DEF Next

\* With it, every step keeps what the committed views read.
LEMMA NothingGetsLost ==
  ASSUME Books, NothingLost, [Next]_vars
  PROVE  NothingLost'
<1>1. ASSUME NEW w \in Writers, Step(w) PROVE NothingLost'
  <2> SUFFICES ASSUME ~autocommit, NEW t \in Targets, view'[t] # Absent, file'[t] # view'[t]
               PROVE  view'[t] \in orphans'[t] \/ \E u \in Writers : view'[t] = backup'[u][t]
    BY <1>1, Steady DEF NothingLost
  <2> QED BY <1>1, StillThere
<1>2. CASE UNCHANGED vars
  BY <1>2 DEF NothingLost, vars, disk, sql
<1> QED BY <1>1, <1>2 DEF Next

\* With transactions, what a committed view was created for survives every
\* failure and every crash: in place, in a journal's backup, or in an orphan.
THEOREM NothingIsEverLost == Spec => []NothingLost
<1>1. Init => Books /\ NothingLost
  BY BooksInit
<1>2. Books /\ NothingLost /\ [Next]_vars => (Books /\ NothingLost)'
  BY BooksAreKept, NothingGetsLost
<1> QED BY <1>1, <1>2, PTL DEF Spec

\* The inductive invariant of the journal, from which the rest follows.
THEOREM BooksHold == Spec => []Books
BY BooksInit, BooksAreKept, PTL DEF Spec

\* Outside the runs, and away from targets that a crash or a failed rollback
\* left behind, a view and its file are the same run's.
THEOREM ViewsAndFilesAgree == Spec => []ViewAndFileAgree
<1>1. Books => ViewAndFileAgree
  BY DEF Books
<1> QED BY <1>1, BooksHold, PTL

\* A journal closed without a commit has undone everything it was not told to
\* keep, except the targets its last rollback itself reported.
THEOREM ClosedIsAlwaysClean == Spec => []ClosedIsClean
<1>1. Books => ClosedIsClean
  BY DEF Books, ClosedIsClean, JournalsRight, WriterRight, EntryRight, PlacesRight, LoopRight,
         Undoes
<1> QED BY <1>1, BooksHold, PTL

\* A file that its run's view reads is never moved away from under it.
THEOREM ReferencedIsAlwaysKept == Spec => []ReferencedIsKept
<1>1. Books => ReferencedIsKept
  BY DEF Books, ReferencedIsKept, JournalsRight, WriterRight, EntryRight, PlacesRight,
     ViewRight,
         Undoes
<1> QED BY <1>1, BooksHold, PTL
=============================================================================
