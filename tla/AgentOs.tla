------------------------------ MODULE AgentOs ------------------------------
(***************************************************************************)
(* The commands of scripts/agent_os_orchestrator.py as processes that run  *)
(* beside one another, beside the workers they launch and beside the people *)
(* who review: `run`, `merge-ready`, `stop`, `status`, `cleanup --apply`   *)
(* and `product-manager`.  They share state.json (load_state and save_state *)
(* copy the whole file), GitHub and the git worktrees, and hold no lock.   *)
(* A step is one external call, or the code up to the next one; the calls   *)
(* that make up one list count as one.  A worker's commit is pushed at once, *)
(* and the base branch is fetched once a pull request is merged.            *)
(***************************************************************************)
EXTENDS AgentPlanning

CONSTANTS
  Pids,          \* bound: the child processes that may be started
  Scenarios,     \* the commands that run together, see ScenarioAssumption
  PrNumbers      \* bound: the numbers pull requests may get

Kinds == {"run", "run-merge", "merge", "stop", "status", "cleanup", "pm"}
NoBranch == 0
NoIssue == 0

Fallible == {"prs", "details", "worktrees", "states", "label", "command"}

\* A scenario: the kinds of the commands, the issues open at first, the
\* --max-workers and --branch of `run`, the rounds of a loop before its
\* deadline, how many external calls fail or commands are killed, and what that
\* may concern: what `run` and `merge-ready` read, the label of a claim, or the
\* command itself.
ASSUME ScenarioAssumption ==
  /\ Pids \subseteq Nat \ {0} /\ PrNumbers \subseteq Nat
  /\ \A s \in Scenarios :
       /\ s.kind \in [DOMAIN s.kind -> Kinds] /\ "nobody" \notin DOMAIN s.kind
       /\ s.open \subseteq Issues /\ IsFiniteSet(s.open)
       /\ s.workers \in Nat \ {0} /\ s.branch \in {NoBranch, Given}
       /\ s.rounds \in Nat /\ s.faults \in Nat /\ s.fallible \subseteq Fallible

VARIABLES
  scenario,   \* which of Scenarios this is (fixed)
  pc,         \* command -> its next step
  mem,        \* command -> its copy of the runs: pid -> status
  todo,       \* command -> issues, pids or branches it still has to go through
  slots,      \* command -> workers it may still launch in this batch
  snap,       \* command -> what it has read
  rounds,     \* command -> rounds begun
  file,       \* state.json: pid -> status
  child,      \* pid -> the issue and branch it works on and who launched it
  alive,      \* pids of live children
  claimed,    \* issues labelled status:claimed
  claimOn,    \* issue -> the branch its last claim comment names
  open,       \* open issues
  prs,        \* open pull requests
  merged,     \* history: merges, with what the merging pass had read
  trees,      \* branches that have a worktree
  dirty,      \* branch -> files with uncommitted work in its worktree
  commits,    \* branch -> files its commits change that base lacks
  evicted,    \* history: pids alive when their worktree was removed
  late,       \* history: branches committed to while a cleanup that had found
              \* them merged went on to remove their worktree
  faults      \* failures so far

command == <<pc, mem, todo, slots, snap, rounds>>
children == <<child, alive>>
github == <<claimed, claimOn, open, prs, merged>>
git == <<trees, dirty, commits, evicted, late>>
vars == <<scenario, command, file, children, github, git, faults>>

kind == scenario.kind      \* "run-merge" is `run --merge-ready`
Procs == DOMAIN kind
MaxWorkers == scenario.workers
branchArg == scenario.branch
Rounds == scenario.rounds
None == [pid \in Pids |-> "absent"]
NoChild == [issue |-> NoIssue, branch |-> NoBranch, by |-> "nobody"]
NoSnap == [active |-> {}, prs |-> {}, worktrees |-> {}, closed |-> {}, merged |-> {}, claims |-> {}]

Init ==
  /\ scenario \in Scenarios
  /\ pc = [p \in Procs |-> "off"] /\ mem = [p \in Procs |-> None]
  /\ todo = [p \in Procs |-> << >>] /\ slots = [p \in Procs |-> 0]
  /\ snap = [p \in Procs |-> NoSnap] /\ rounds = [p \in Procs |-> 0]
  /\ file = None /\ child = [pid \in Pids |-> NoChild] /\ alive = {} /\ faults = 0
  /\ claimed = {} /\ claimOn = [i \in Issues |-> NoBranch] /\ open = scenario.open
  /\ prs = {} /\ merged = {} /\ trees = {} /\ evicted = {} /\ late = {}
  /\ dirty = [b \in Branches |-> {}] /\ commits = [b \in Branches |-> {}]

Places ==
  {"off", "round", "fetch", "snapshot", "pulls", "states", "consider", "prepare", "claim", "label",
   "launch", "save", "list", "queue", "merge", "choose", "kill", "read", "remove", "ancestor", "drop",
   "done"}
Statuses == {"absent", "running", "stopping", "exited"}
Gates == {"draft", "red", "dirty", "green"}
AllFiles == UNION {Touches[i] : i \in Issues}
AllLabels == UNION {LabelsOf[i] : i \in Issues}
RunRecord ==
  [issue : Issues, branch : Branches \cup {NoBranch}, status : Statuses, labels : SUBSET AllLabels]
PullRequest ==
  [number : PrNumbers, branch : Branches, closes : SUBSET Issues, depends : SUBSET Issues, gate : Gates]
PrRecord ==
  [number : PrNumbers, branch : Branches, closes : SUBSET Issues, depends : SUBSET Issues,
   gate : Gates, files : SUBSET AllFiles, read : BOOLEAN]
MergeRecord ==
  [number : PrNumbers, branch : Branches, closes : SUBSET Issues, depends : SUBSET Issues,
   files : SUBSET AllFiles, listed : SUBSET AllFiles, read : BOOLEAN, seen : SUBSET PrNumbers]
SnapRecord ==
  [active : SUBSET RunRecord, closed : SUBSET Issues, merged : SUBSET PrNumbers, claims : SUBSET Issues,
   prs : SUBSET PrRecord, worktrees : SUBSET [branch : Branches, files : SUBSET AllFiles]]

TypeOK ==
  /\ scenario \in Scenarios
  /\ pc \in [Procs -> Places] /\ mem \in [Procs -> [Pids -> Statuses]]
  /\ todo \in [Procs -> Seq(Nat)] /\ slots \in [Procs -> Nat] /\ rounds \in [Procs -> Nat]
  /\ snap \in [Procs -> SnapRecord]
  /\ file \in [Pids -> Statuses] /\ alive \subseteq Pids
  /\ child \in [Pids -> [issue : Issues \cup {NoIssue}, branch : Branches \cup {NoBranch},
                         by : Procs \cup {"nobody"}]]
  /\ claimed \subseteq Issues /\ claimOn \in [Issues -> Branches \cup {NoBranch}]
  /\ open \subseteq Issues /\ prs \subseteq PullRequest /\ merged \subseteq MergeRecord
  /\ trees \subseteq Branches /\ evicted \subseteq Pids /\ late \subseteq Branches
  /\ dirty \in [Branches -> SUBSET AllFiles] /\ commits \in [Branches -> SUBSET AllFiles]
  /\ faults \in Nat

-----------------------------------------------------------------------------
(* What commands read                                                        *)

\* refresh_worker_lifecycle: a run whose process is gone has exited.
Refresh(runs) ==
  [pid \in Pids |-> IF runs[pid] \in {"running", "stopping"} /\ pid \notin alive
                    THEN "exited" ELSE runs[pid]]

Active(runs) == {pid \in Pids : runs[pid] = "running"}

\* The runs of issues as the planning reads them.
Records(runs) ==
  {[issue |-> child[pid].issue, branch |-> child[pid].branch, status |-> runs[pid],
    labels |-> LabelsOf[child[pid].issue]] :
     pid \in {q \in Pids : runs[q] # "absent" /\ child[q].issue # NoIssue}}

\* fetch_open_pr_snapshot: the list knows numbers, branches and gates; of a pull
\* request whose details cannot be read, the body, the closed issues and the
\* files count as empty.
Numbers == {q.number : q \in prs}
PrView(unread) ==
  {[number |-> q.number, branch |-> q.branch, gate |-> q.gate, read |-> q.number \notin unread,
    closes |-> IF q.number \in unread THEN {} ELSE q.closes,
    depends |-> IF q.number \in unread THEN {} ELSE q.depends,
    files |-> IF q.number \in unread THEN {} ELSE commits[q.branch]] : q \in prs}
WorktreeView == {[branch |-> b, files |-> commits[b] \cup dirty[b]] : b \in trees}

BranchFor(i) == IF branchArg = NoBranch THEN i ELSE branchArg

-----------------------------------------------------------------------------
(* Steps of commands                                                         *)

Fails == faults < scenario.faults /\ faults' = faults + 1
\* A call succeeds, or one that may fail in this scenario does.
Call(works, what) == IF works THEN UNCHANGED faults ELSE what \in scenario.fallible /\ Fails
AtStep(p, kinds, label) == kind[p] \in kinds /\ pc[p] = label
Goto(p, label) == pc' = [pc EXCEPT ![p] = label]
Supervisors == {"run", "run-merge"}
Mergers == {"run-merge", "merge"}

\* A call that the code does not guard raises, or the command is killed: what
\* it knew and had not saved is gone.  A supervisor is started again.
Abort(p) ==
  /\ pc[p] \notin {"off", "done"} /\ "command" \in scenario.fallible /\ Fails
  /\ Goto(p, IF kind[p] \in Supervisors THEN "off" ELSE "done")
  /\ mem' = [mem EXCEPT ![p] = None] /\ todo' = [todo EXCEPT ![p] = << >>]
  /\ slots' = [slots EXCEPT ![p] = 0] /\ snap' = [snap EXCEPT ![p] = NoSnap]
  /\ UNCHANGED <<scenario, rounds, file, children, github, git>>

\* load_state, and what active_runs finds out at once.
Start(p) ==
  /\ pc[p] = "off"
  /\ mem' = [mem EXCEPT ![p] = IF kind[p] = "merge" THEN @ ELSE Refresh(file)]
  /\ Goto(p, CASE kind[p] \in Supervisors \cup {"pm"} -> "round" [] kind[p] = "merge" -> "list"
               [] kind[p] = "stop" -> "choose" [] kind[p] = "status" -> "save"
               [] kind[p] = "cleanup" -> "read")
  /\ UNCHANGED <<scenario, todo, slots, snap, rounds, file, children, github, git, faults>>

\* save_state, at the end of a batch or of the command.  A loop may go on
\* until its deadline; with --merge-ready it first merges.
Save(p) ==
  /\ pc[p] = "save"
  /\ file' = mem[p]
  /\ \/ kind[p] = "run-merge" /\ Goto(p, "list")
     \/ kind[p] \in {"run", "pm"} /\ rounds[p] < Rounds /\ Goto(p, "round")
     \/ Goto(p, "done")
  /\ todo' = [todo EXCEPT ![p] = << >>] /\ slots' = [slots EXCEPT ![p] = 0]
  /\ snap' = [snap EXCEPT ![p] = NoSnap]
  /\ UNCHANGED <<scenario, mem, rounds, children, github, git, faults>>

-----------------------------------------------------------------------------
(* run                                                                      *)

\* Mutation: every batch may launch the whole limit.
RoundAfresh(p) ==
  /\ AtStep(p, Supervisors, "round") /\ rounds[p] < Rounds
  /\ mem' = [mem EXCEPT ![p] = Refresh(@)]
  /\ slots' = [slots EXCEPT ![p] = MaxWorkers]
  /\ Goto(p, "fetch")
  /\ rounds' = [rounds EXCEPT ![p] = @ + 1]
  /\ UNCHANGED <<scenario, todo, snap, file, children, github, git, faults>>

\* A batch begins; without a free slot there is nothing to do but to save.
Round(p) ==
  /\ AtStep(p, Supervisors, "round") /\ rounds[p] < Rounds
  /\ LET now == Refresh(mem[p])
         used == Cardinality(Active(now)) IN
     /\ mem' = [mem EXCEPT ![p] = now]
     /\ slots' = [slots EXCEPT ![p] = IF used < MaxWorkers THEN MaxWorkers - used ELSE 0]
     /\ Goto(p, IF used < MaxWorkers THEN "fetch" ELSE "save")
  /\ rounds' = [rounds EXCEPT ![p] = @ + 1]
  /\ UNCHANGED <<scenario, todo, snap, file, children, github, git, faults>>

Fetch(p) ==
  /\ AtStep(p, Supervisors, "fetch")
  /\ todo' = [todo EXCEPT ![p] = Candidates(open, claimed, slots[p])]
  /\ Goto(p, IF todo'[p] = << >> THEN "save" ELSE "snapshot")
  /\ UNCHANGED <<scenario, mem, slots, snap, rounds, file, children, github, git, faults>>

\* build_supervisor_snapshot: the runs and the worktrees, the pull requests, and
\* the states of the issues named.  A list that cannot be read counts as empty.
Snapshot(p) ==
  /\ AtStep(p, Supervisors, "snapshot")
  /\ mem' = [mem EXCEPT ![p] = Refresh(@)]
  /\ \E listed \in BOOLEAN :
       /\ Call(listed, "worktrees")
       /\ snap' = [snap EXCEPT ![p] = [@ EXCEPT
            !.active = {r \in Records(Refresh(mem[p])) : r.status = "running"},
            !.worktrees = IF listed THEN WorktreeView ELSE {}]]
  /\ Goto(p, "pulls")
  /\ UNCHANGED <<scenario, todo, slots, rounds, file, children, github, git>>

SnapshotPrs(p) ==
  /\ AtStep(p, Supervisors, "pulls")
  /\ \/ \E unread \in SUBSET Numbers :
          Call(unread = {}, "details") /\ snap' = [snap EXCEPT ![p].prs = PrView(unread)]
     \/ Call(FALSE, "prs") /\ UNCHANGED snap
  /\ Goto(p, "states")
  /\ UNCHANGED <<scenario, mem, todo, slots, rounds, file, children, github, git>>

\* Mutation: a state that cannot be read counts as CLOSED.
StatesTrusting(p) ==
  /\ AtStep(p, Supervisors, "states")
  /\ \E all \in BOOLEAN :
       /\ Call(all, "states")
       /\ snap' = [snap EXCEPT ![p].closed = IF all THEN Issues \ open ELSE Issues]
  /\ Goto(p, "consider")
  /\ UNCHANGED <<scenario, mem, todo, slots, rounds, file, children, github, git>>

\* A state that cannot be read is not CLOSED.
SnapshotStates(p) ==
  /\ AtStep(p, Supervisors, "states")
  /\ \E closed \in SUBSET (Issues \ open) :
       /\ Call(closed = Issues \ open, "states")
       /\ snap' = [snap EXCEPT ![p].closed = closed]
  /\ Goto(p, "consider")
  /\ UNCHANGED <<scenario, mem, todo, slots, rounds, file, children, github, git>>

\* The next candidate; one that runs already or is blocked is left out.
Consider(p) ==
  /\ AtStep(p, Supervisors, "consider")
  /\ mem' = [mem EXCEPT ![p] = Refresh(@)]
  /\ IF todo[p] = << >> \/ slots[p] = 0
     THEN Goto(p, "save") /\ UNCHANGED todo
     ELSE LET i == Head(todo[p]) IN
          IF \/ \E pid \in Active(mem'[p]) : child[pid].issue = i
             \/ LaunchBlocked(i, BranchFor(i), snap[p])
          THEN todo' = [todo EXCEPT ![p] = Tail(@)] /\ UNCHANGED pc
          ELSE Goto(p, "prepare") /\ UNCHANGED todo
  /\ UNCHANGED <<scenario, slots, snap, rounds, file, children, github, git, faults>>

\* ensure_worktree: an existing worktree is taken as it is.
Prepare(p) ==
  /\ AtStep(p, Supervisors, "prepare")
  /\ trees' = trees \cup {BranchFor(Head(todo[p]))}
  /\ Goto(p, "claim")
  /\ UNCHANGED <<scenario, mem, todo, slots, snap, rounds, file, children, github, dirty, commits, evicted, late, faults>>

ClaimComment(p) ==
  /\ AtStep(p, Supervisors, "claim")
  /\ claimOn' = [claimOn EXCEPT ![Head(todo[p])] = BranchFor(Head(todo[p]))]
  /\ Goto(p, "label")
  /\ UNCHANGED <<scenario, mem, todo, slots, snap, rounds, file, children, claimed, open, prs, merged, git, faults>>

\* The label edit is not checked.
ClaimLabel(p) ==
  /\ AtStep(p, Supervisors, "label")
  /\ \/ claimed' = claimed \cup {Head(todo[p])} /\ UNCHANGED faults
     \/ UNCHANGED claimed /\ Call(FALSE, "label")
  /\ Goto(p, "launch")
  /\ UNCHANGED <<scenario, mem, todo, slots, snap, rounds, file, children, claimOn, open, prs, merged, git>>

NextPid == CHOOSE pid \in Pids : child[pid] = NoChild /\ \A q \in Pids : child[q] = NoChild => pid <= q

\* Popen: the child is known to the command's own copy only until it saves.
Spawn(p, i, b) ==
  /\ \E pid \in Pids : child[pid] = NoChild
  /\ child' = [child EXCEPT ![NextPid] = [issue |-> i, branch |-> b, by |-> p]]
  /\ alive' = alive \cup {NextPid}
  /\ mem' = [mem EXCEPT ![p][NextPid] = "running"]

Launch(p) ==
  /\ AtStep(p, Supervisors, "launch")
  /\ BranchFor(Head(todo[p])) \in trees
  /\ Spawn(p, Head(todo[p]), BranchFor(Head(todo[p])))
  /\ slots' = [slots EXCEPT ![p] = @ - 1]
  /\ todo' = [todo EXCEPT ![p] = Tail(@)]
  /\ Goto(p, "consider")
  /\ UNCHANGED <<scenario, snap, rounds, file, github, git, faults>>

\* The worktree has gone: the role file cannot be read and the command ends.
LaunchNowhere(p) ==
  /\ AtStep(p, Supervisors, "launch")
  /\ BranchFor(Head(todo[p])) \notin trees
  /\ Goto(p, "done")
  /\ UNCHANGED <<scenario, mem, todo, slots, snap, rounds, file, children, github, git, faults>>

-----------------------------------------------------------------------------
(* merge-ready                                                              *)

\* The pull requests are listed; a list that fails ends the pass.
List(p) ==
  /\ AtStep(p, Mergers, "list")
  /\ \E unread \in SUBSET Numbers :
       /\ Call(unread = {}, "details")
       /\ snap' = [snap EXCEPT ![p] = [@ EXCEPT !.prs = PrView(unread),
                                               !.merged = {m.number : m \in merged}]]
  /\ Goto(p, "queue")
  /\ UNCHANGED <<scenario, mem, todo, slots, rounds, file, children, github, git>>

ListFails(p) ==
  /\ AtStep(p, Mergers, "list") /\ Call(FALSE, "prs")
  /\ todo' = [todo EXCEPT ![p] = << >>]
  /\ Goto(p, "merge")
  /\ UNCHANGED <<scenario, mem, slots, snap, rounds, file, children, github, git>>

\* The states of the dependencies, and the queue.
Queue(p) ==
  /\ AtStep(p, Mergers, "queue")
  /\ \E closed \in SUBSET (Issues \ open) :
       /\ Call(closed = Issues \ open, "states")
       /\ LET queue == MergeQueue(snap[p].prs, closed) IN
          todo' = [todo EXCEPT ![p] = [n \in DOMAIN queue |-> queue[n].number]]
  /\ Goto(p, "merge")
  /\ UNCHANGED <<scenario, mem, slots, snap, rounds, file, children, github, git>>

\* A merge takes what is on the branch by then; the history keeps what the pass
\* had read of the pull request.
MergeOf(q, p) ==
  LET views == {v \in snap[p].prs : v.number = q.number} IN
  [number |-> q.number, branch |-> q.branch, closes |-> q.closes, depends |-> q.depends,
   files |-> commits[q.branch], listed |-> UNION {v.files : v \in views},
   read |-> \A v \in views : v.read, seen |-> snap[p].merged]

\* gh pr merge: one that has been merged meanwhile is passed over.
Merge(p) ==
  /\ AtStep(p, Mergers, "merge") /\ todo[p] # << >>
  /\ \/ \E q \in prs :
          /\ q.number = Head(todo[p]) /\ q.gate \notin {"draft", "dirty"}
          /\ prs' = prs \ {q} /\ open' = open \ q.closes
          /\ merged' = merged \cup {MergeOf(q, p)}
          /\ commits' = [commits EXCEPT ![q.branch] = {}]
     \/ Head(todo[p]) \notin Numbers /\ UNCHANGED <<prs, open, merged, commits>>
  /\ todo' = [todo EXCEPT ![p] = Tail(@)]
  /\ UNCHANGED <<scenario, pc, mem, slots, snap, rounds, file, children, claimed, claimOn, trees, dirty,
                 evicted, late, faults>>

\* A merge that GitHub refuses raises, which ends a supervisor's loop too.
MergeRefused(p) ==
  /\ AtStep(p, Mergers, "merge") /\ todo[p] # << >>
  /\ \E q \in prs : q.number = Head(todo[p]) /\ q.gate \in {"draft", "dirty"}
  /\ Goto(p, "done")
  /\ UNCHANGED <<scenario, mem, todo, slots, snap, rounds, file, children, github, git, faults>>

MergeDone(p) ==
  /\ AtStep(p, Mergers, "merge") /\ todo[p] = << >>
  /\ Goto(p, IF kind[p] = "run-merge" /\ rounds[p] < Rounds THEN "round" ELSE "done")
  /\ snap' = [snap EXCEPT ![p] = NoSnap]
  /\ UNCHANGED <<scenario, mem, todo, slots, rounds, file, children, github, git, faults>>

-----------------------------------------------------------------------------
(* stop, cleanup and product-manager                                        *)

\* `stop` takes all active runs, or those of one issue.
ChooseTargets(p) ==
  /\ AtStep(p, {"stop"}, "choose")
  /\ \E i \in Issues \cup {NoIssue} :
       todo' = [todo EXCEPT ![p] = Sorted(
         {pid \in Active(mem[p]) : i = NoIssue \/ child[pid].issue = i}, <)]
  /\ Goto(p, "kill")
  /\ UNCHANGED <<scenario, mem, slots, snap, rounds, file, children, github, git, faults>>

\* killpg: the signal reaches the worker, which ends in its own time.
Signal(p) ==
  /\ AtStep(p, {"stop"}, "kill")
  /\ IF todo[p] = << >> THEN Goto(p, "save") /\ UNCHANGED <<mem, todo>>
     ELSE IF Head(todo[p]) \in alive
     THEN /\ mem' = [mem EXCEPT ![p][Head(todo[p])] = "stopping"]
          /\ todo' = [todo EXCEPT ![p] = Tail(@)] /\ UNCHANGED pc
     ELSE Goto(p, "done") /\ UNCHANGED <<mem, todo>>   \* ProcessLookupError
  /\ UNCHANGED <<scenario, slots, snap, rounds, file, children, github, git, faults>>

\* What `cleanup` reads, and its plan.  Lists that cannot be read are empty, and
\* a worktree whose status cannot be read is clean.
ReadForCleanup(p) ==
  /\ AtStep(p, {"cleanup"}, "read")
  /\ \E lost \in {"nothing", "prs", "details", "claims", "worktrees", "status"},
        unread \in SUBSET (Numbers \cup Branches) :
       /\ IF lost = "nothing" THEN UNCHANGED faults ELSE Fails
       /\ unread # {} => lost \in {"details", "status"}
       /\ snap' = [snap EXCEPT ![p].claims =
            IF lost = "claims" THEN {}
            ELSE StaleClaims(claimed, claimOn, Records(mem[p]),
                             IF lost = "prs" THEN {}
                             ELSE PrView(IF lost = "details" THEN unread ELSE {}), Issues \ open)]
       /\ todo' = [todo EXCEPT ![p] =
            IF lost = "worktrees" THEN << >>
            ELSE Sorted(RemovableWorktrees(trees, commits,
              [b \in Branches |-> IF lost = "status" /\ b \in unread THEN {} ELSE dirty[b]]), <)]
  /\ Goto(p, "remove")
  /\ UNCHANGED <<scenario, mem, slots, rounds, file, children, github, git>>

\* remove_worktree_if_still_safe, call by call: git status, where a failure
\* reads as clean,
CheckStatus(p) ==
  /\ AtStep(p, {"cleanup"}, "remove") /\ todo[p] # << >>
  /\ LET b == Head(todo[p]) IN
     \/ b \in trees /\ Goto(p, "ancestor") /\ UNCHANGED todo
        /\ IF dirty[b] = {} THEN UNCHANGED faults ELSE Fails
     \/ /\ b \notin trees \/ dirty[b] # {}
        /\ todo' = [todo EXCEPT ![p] = Tail(@)] /\ UNCHANGED <<pc, faults>>
  /\ UNCHANGED <<scenario, mem, slots, snap, rounds, file, children, github, git>>

\* Mutation: the plan has seen that the branch is merged.
CheckMergedAsPlanned(p) ==
  /\ AtStep(p, {"cleanup"}, "ancestor")
  /\ Goto(p, "drop")
  /\ UNCHANGED <<scenario, mem, todo, slots, snap, rounds, file, children, github, git, faults>>

\* then git merge-base, where a failure reads as not merged,
CheckMerged(p) ==
  /\ AtStep(p, {"cleanup"}, "ancestor")
  /\ LET b == Head(todo[p]) IN
     \/ /\ commits[b] = {} /\ Goto(p, "drop") /\ late' = late \ {b}
        /\ UNCHANGED <<todo, faults>>
     \/ /\ IF commits[b] # {} THEN UNCHANGED faults ELSE Fails
        /\ Goto(p, "remove") /\ todo' = [todo EXCEPT ![p] = Tail(@)] /\ UNCHANGED late
  /\ UNCHANGED <<scenario, mem, slots, snap, rounds, file, children, github, trees, dirty, commits, evicted>>

\* and git worktree remove, which itself refuses a worktree with changes.
RemoveWorktree(p) ==
  /\ AtStep(p, {"cleanup"}, "drop")
  /\ LET b == Head(todo[p]) IN
     \/ /\ b \in trees /\ dirty[b] = {} /\ trees' = trees \ {b}
        /\ evicted' = evicted \cup {pid \in alive : child[pid].branch = b}
        /\ UNCHANGED faults
     \/ /\ IF b \in trees /\ dirty[b] = {} THEN Fails ELSE UNCHANGED faults
        /\ UNCHANGED <<trees, evicted>>
  /\ Goto(p, "remove") /\ todo' = [todo EXCEPT ![p] = Tail(@)]
  /\ UNCHANGED <<scenario, mem, slots, snap, rounds, file, children, github, dirty, commits, late>>

\* The labels follow one by one; an edit that fails is counted and passed over.
Unclaim(p) ==
  /\ AtStep(p, {"cleanup"}, "remove") /\ todo[p] = << >>
  /\ IF snap[p].claims = {} THEN Goto(p, "save") /\ UNCHANGED <<claimed, snap, faults>>
     ELSE LET i == CHOOSE x \in snap[p].claims : TRUE IN
          /\ \/ claimed' = claimed \ {i} /\ UNCHANGED faults
             \/ UNCHANGED claimed /\ Fails
          /\ snap' = [snap EXCEPT ![p].claims = @ \ {i}]
          /\ UNCHANGED pc
  /\ UNCHANGED <<scenario, mem, todo, slots, rounds, file, children, claimOn, open, prs, merged, git>>

\* A product manager is launched unless one is known to run.
PmRound(p) ==
  /\ AtStep(p, {"pm"}, "round") /\ rounds[p] < Rounds
  /\ mem' = [mem EXCEPT ![p] = Refresh(@)]
  /\ Goto(p, IF \E pid \in Active(mem'[p]) : child[pid].issue = NoIssue THEN "save" ELSE "launch")
  /\ rounds' = [rounds EXCEPT ![p] = @ + 1]
  /\ UNCHANGED <<scenario, todo, slots, snap, file, children, github, git, faults>>

LaunchPm(p) ==
  /\ AtStep(p, {"pm"}, "launch")
  /\ Spawn(p, NoIssue, NoBranch)
  /\ Goto(p, "save")
  /\ UNCHANGED <<scenario, todo, slots, snap, rounds, file, github, git, faults>>

-----------------------------------------------------------------------------
(* The workers and the people                                               *)

AtWork(pid) == pid \in alive /\ child[pid].issue # NoIssue /\ child[pid].branch \in trees

Edit(pid) ==
  /\ AtWork(pid) /\ child[pid].issue \in open
  /\ LET b == child[pid].branch IN
     \E f \in Touches[child[pid].issue] \ (dirty[b] \cup commits[b]) :
       dirty' = [dirty EXCEPT ![b] = @ \cup {f}]
  /\ UNCHANGED <<scenario, command, file, children, github, trees, commits, evicted, late, faults>>

\* A cleanup has found b clean and merged and is about to remove its worktree.
Removing(b) == \E p \in Procs : pc[p] = "drop" /\ Head(todo[p]) = b

\* A commit takes all that is uncommitted in the worktree, and is pushed.
Commit(pid) ==
  /\ AtWork(pid)
  /\ LET b == child[pid].branch IN
     /\ dirty[b] # {}
     /\ commits' = [commits EXCEPT ![b] = @ \cup dirty[b]]
     /\ dirty' = [dirty EXCEPT ![b] = {}]
     /\ late' = IF Removing(b) THEN late \cup {b} ELSE late
  /\ UNCHANGED <<scenario, command, file, children, github, trees, evicted, faults>>

Unused(n) == \A q \in prs \cup merged : q.number < n

\* Its body may name issues it depends on.  Bounds: a branch has at most one pull
\* request, and only where a command merges or cleans up.
OpenPr(pid) ==
  /\ AtWork(pid) /\ \E p \in Procs : kind[p] \in Mergers \cup {"cleanup"}
  /\ LET i == child[pid].issue  b == child[pid].branch IN
     /\ commits[b] # {} /\ \A q \in prs \cup merged : q.branch # b
     /\ \E n \in PrNumbers, gate \in {"draft", "red"}, depends \in {{}, Cites[i]} :
          /\ Unused(n) /\ \A m \in PrNumbers : Unused(m) => n <= m
          /\ prs' = prs \cup {[number |-> n, branch |-> b, closes |-> {i}, depends |-> depends, gate |-> gate]}
  /\ UNCHANGED <<scenario, command, file, children, claimed, claimOn, open, merged, git, faults>>

Exit(pid) ==
  /\ alive' = alive \ {pid} /\ pid \in alive
  /\ UNCHANGED <<scenario, command, file, child, github, git, faults>>

\* Reviews, checks and pushes to base change what GitHub says of a pull request.
Regate ==
  /\ \E q \in prs, gate \in {"red", "dirty", "green"} :
       gate # q.gate /\ prs' = (prs \ {q}) \cup {[q EXCEPT !.gate = gate]}
  /\ UNCHANGED <<scenario, command, file, children, claimed, claimOn, open, merged, git, faults>>

CloseIssue(i) ==
  /\ open' = open \ {i} /\ i \in open
  /\ UNCHANGED <<scenario, command, file, children, claimed, claimOn, prs, merged, git, faults>>

-----------------------------------------------------------------------------
Supervise(p) ==
  \/ Round(p) \/ Fetch(p) \/ Snapshot(p) \/ SnapshotPrs(p) \/ SnapshotStates(p) \/ Consider(p)
  \/ Prepare(p) \/ ClaimComment(p) \/ ClaimLabel(p) \/ Launch(p) \/ LaunchNowhere(p)
Converge(p) == List(p) \/ ListFails(p) \/ Queue(p) \/ Merge(p) \/ MergeRefused(p) \/ MergeDone(p)
Control(p) ==
  \/ ChooseTargets(p) \/ Signal(p) \/ PmRound(p) \/ LaunchPm(p)
  \/ ReadForCleanup(p) \/ CheckStatus(p) \/ CheckMerged(p) \/ RemoveWorktree(p) \/ Unclaim(p)
Worker(pid) == Edit(pid) \/ Commit(pid) \/ OpenPr(pid) \/ Exit(pid)

Next ==
  \/ \E p \in Procs : Start(p) \/ Save(p) \/ Abort(p) \/ Supervise(p) \/ Converge(p) \/ Control(p)
  \/ \E pid \in Pids : Worker(pid)
  \/ Regate
  \/ \E i \in Issues : CloseIssue(i)

Spec == Init /\ [][Next]_vars

-----------------------------------------------------------------------------
(* Correctness                                                              *)

Editors == {pid \in alive : child[pid].issue # NoIssue}

\* "One editing agent owns one branch and one git worktree"
\* (docs/MULTI_AGENT_WORKFLOW.md:36), across killed and restarted supervisors
\* and unsaved or overwritten state, because the snapshot looks at the
\* worktrees; only a cleanup that removes the worktree of a live worker can
\* make room for a second one.
EditorsApart ==
  \A v, w \in Editors : v # w /\ child[v].branch = child[w].branch => {v, w} \cap evicted # {}

\* The workers one supervisor has launched and remembers stay within the limit
\* whatever other commands do to state.json.
WorkersWithinLimit ==
  \A p \in Procs : kind[p] \in Supervisors =>
    Cardinality({pid \in Editors : mem[p][pid] = "running"}) <= MaxWorkers

\* A worker starts only after the issues its own names are closed, and a pull
\* request is merged only after those its own body names are, if its details
\* could be read; a state that could not be read counts as open.
DependenciesFirst ==
  /\ \A pid \in Pids : child[pid].issue # NoIssue => DependencyNumbers(child[pid].issue) \cap open = {}
  /\ \A m \in merged : m.read => PrDependencies(m) \cap open = {}

\* Of two pull requests that change a common file the second is merged by a
\* pass that began after the first was merged, and so with its checks; unless
\* one brought files that its pass had not read, because they were pushed later
\* or the details could not be read.
AsListed(m) == m.files \subseteq m.listed

MergesApart ==
  \A m, n \in merged :
    m # n /\ AsListed(m) /\ AsListed(n) /\ m.files \cap n.files # {} =>
      m.number \in n.seen \/ n.number \in m.seen

\* A worktree is removed only without uncommitted work, even where its status
\* could not be read, and with nothing on its branch that base lacks but what
\* was committed after the cleanup had found the branch merged.
RemovesOnlyMerged ==
  [][\A b \in trees \ trees' : dirty[b] = {} /\ (commits[b] = {} \/ b \in late)]_vars
=============================================================================
