--------------------------- MODULE AgentPlanning ---------------------------
(***************************************************************************)
(* What scripts/agent_os_orchestrator.py decides from what it has read:    *)
(* which issues it offers to workers, what keeps an issue from being       *)
(* launched, which pull requests one pass merges and what a cleanup would  *)
(* remove.  The facts of an issue (its static labels, the issues and files *)
(* its text names) and of the work done for it are constants; what changes *)
(* (status:claimed, branches, pull requests, worktrees) are arguments.     *)
(***************************************************************************)
EXTENDS Naturals, Sequences, FiniteSets

CONSTANTS
  Issues,       \* issue numbers
  LabelsOf,     \* issue -> its labels other than status:claimed
  DependsOn,    \* issue -> the issue numbers its body and comments depend on
  Expected,     \* issue -> the files its "files expected" lines name
  Touches,      \* issue -> the files its worker may change
  Cites,        \* issue -> the issue numbers the body of its pull request may depend on
  OverlapLabels, \* the labels that begin with area:, artifact: or command:
  Given         \* the branch `run --branch` names

ASSUME PlanningAssumption ==
  /\ Issues \subseteq Nat \ {0} /\ Given \in Nat \ (Issues \cup {0})
  /\ DependsOn \in [Issues -> SUBSET Issues]
  /\ Cites \in [Issues -> SUBSET Issues]
  /\ DOMAIN LabelsOf = Issues /\ DOMAIN Expected = Issues /\ DOMAIN Touches = Issues

\* Branch i is agent/issue-i-<title>.
Branches == Issues \cup {Given}
ReadyLabels == {"ready-for-agent", "status:ready", "needs-reference-map", "needs-slice-plan"}
BlockedLabels == {"status:blocked", "status:claimed", "status:ci", "status:review"}
HardAreas == {"area:semantic", "area:cross-db", "area:adapter-abi"}

\* The members of a finite set in the order Before.
Sorted(S, Before(_, _)) ==
  [n \in 1..Cardinality(S) |-> CHOOSE x \in S : Cardinality({y \in S : Before(y, x)}) = n - 1]

-----------------------------------------------------------------------------
(* Candidates *)

Labels(i, claimed) == LabelsOf[i] \cup (IF i \in claimed THEN {"status:claimed"} ELSE {})

IsReady(labels) == labels \cap BlockedLabels = {} /\ labels \cap ReadyLabels # {}

\* The rank of the first listed label an issue has; the length if it has none.
FirstOf(names, labels) ==
  LET hits == {n \in DOMAIN names : names[n] \in labels} IN
  IF hits = {} THEN Len(names) ELSE (CHOOSE n \in hits : \A m \in hits : n <= m) - 1

PriorityRank(labels) ==
  FirstOf(<<"priority:p0", "priority:p1", "priority:p2", "priority:p3">>, labels)

DomainRank(labels) ==
  CASE "type:compat" \in labels -> 0
    [] "type:artifact" \in labels -> 10
    [] "type:research" \in labels -> IF HardAreas \cap labels # {} THEN 40 ELSE 25
    [] {"type:ci", "type:release"} \cap labels # {} -> 70
    [] "type:safety" \in labels -> 80
    [] OTHER -> 50

ReadinessRank(labels) ==
  FirstOf(<<"status:ready", "ready-for-agent", "needs-slice-plan", "needs-reference-map">>, labels)

SortKey(i) ==
  <<PriorityRank(LabelsOf[i]), DomainRank(LabelsOf[i]), ReadinessRank(LabelsOf[i]), i>>

Precedes(i, j) ==
  \E n \in 1..4 : SortKey(i)[n] < SortKey(j)[n] /\ \A m \in 1..n-1 : SortKey(i)[m] = SortKey(j)[m]

\* The open ready issues, best first; four are considered per free slot.
Candidates(open, claimed, slots) ==
  LET ready == Sorted({i \in open : IsReady(Labels(i, claimed))}, Precedes)
  IN SubSeq(ready, 1, IF Len(ready) < 4 * slots THEN Len(ready) ELSE 4 * slots)

-----------------------------------------------------------------------------
(* Launch blockers.  A snapshot has the active runs and the worktrees as    *)
(* sets of records, the open pull requests, and the issues known CLOSED.    *)

DependencyNumbers(i) == DependsOn[i] \ {i}

DependencyClear(i, closed) == DependencyNumbers(i) \subseteq closed

RiskyOverlap(i, labels) ==
  "risk:branch-overlap" \in LabelsOf[i] /\ LabelsOf[i] \cap labels \cap OverlapLabels # {}

\* Mutation: the worktrees are not looked at.
OverlapWithoutWorktrees(i, branch, snap) ==
  \/ \E r \in snap.active : r.branch = branch \/ RiskyOverlap(i, r.labels)
  \/ \E q \in snap.prs : q.branch = branch \/ Expected[i] \cap q.files # {}

\* Workers give their pull requests no labels, so that those are not compared.
BranchOrFileOverlap(i, branch, snap) ==
  \/ \E r \in snap.active : r.branch = branch \/ RiskyOverlap(i, r.labels)
  \/ \E q \in snap.prs : q.branch = branch \/ Expected[i] \cap q.files # {}
  \/ \E t \in snap.worktrees : t.branch = branch \/ Expected[i] \cap t.files # {}

LaunchBlocked(i, branch, snap) ==
  ~DependencyClear(i, snap.closed) \/ BranchOrFileOverlap(i, branch, snap)

-----------------------------------------------------------------------------
(* The merge queue *)

\* What a pass has read of a pull request: its number and branch, its gate
\* ("draft", "red" (checks), "dirty" (merge state) or "green"), the issues it
\* closes, those its body depends on, and its files.
PrDependencies(q) == q.depends \ q.closes

\* Mutation: the dependencies are not looked at.
MergeableWhenGreen(q, closed) == q.gate = "green"

Mergeable(q, closed) == q.gate = "green" /\ PrDependencies(q) \subseteq closed

\* Mutation: a pull request joins whatever it touches.
QueueAnyFiles(prs, closed) ==
  SelectSeq(Sorted(prs, LAMBDA q, r : q.number < r.number), LAMBDA q : Mergeable(q, closed))

\* Pull requests join the queue in the order of their numbers, each only if it
\* touches no file of one that has joined.
MergeQueue(prs, closed) ==
  LET inOrder == Sorted(prs, LAMBDA q, r : q.number < r.number)
      queue[n \in 0..Len(inOrder)] ==
        IF n = 0 THEN << >>
        ELSE IF /\ Mergeable(inOrder[n], closed)
                /\ \A m \in DOMAIN queue[n-1] : inOrder[n].files \cap queue[n-1][m].files = {}
             THEN Append(queue[n-1], inOrder[n]) ELSE queue[n-1]
  IN queue[Len(inOrder)]

-----------------------------------------------------------------------------
(* Cleanup.  Runs are records with issue, branch and status.                *)

HasLivePr(prs, i, branch) == \E q \in prs : q.branch = branch \/ i \in q.closes

\* A claim is stale if no run of the issue is running, no pull request is open
\* for it or its branch, and a run has exited or the issue is closed.
StaleClaims(claimed, branchOf, runs, prs, closed) ==
  {i \in claimed :
     /\ ~\E r \in runs : r.issue = i /\ r.status = "running"
     /\ ~HasLivePr(prs, i, branchOf[i])
     /\ i \in closed \/ \E r \in runs : r.issue = i /\ r.status = "exited"}

\* Worktrees of agent branches without own commits and without local changes.
RemovableWorktrees(worktrees, commits, dirty) ==
  {b \in worktrees : commits[b] = {} /\ dirty[b] = {}}
=============================================================================
