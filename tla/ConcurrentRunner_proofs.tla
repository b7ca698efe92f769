----------------------- MODULE ConcurrentRunner_proofs -----------------------
(***************************************************************************)
(* Proofs about concurrent_runner.zig for every project, every number of   *)
(* threads and every set of outcomes.                                      *)
(***************************************************************************)
EXTENDS ConcurrentRunner, FiniteSetTheorems, TLAPS

-----------------------------------------------------------------------------
(* The dependency graph. *)

\* Every id is in its own closure, and a closure is a set of ids.
LEMMA ClosureContains ==
  ASSUME NEW p, NEW through, NEW x \in Ids(p)
  PROVE  x \in Closure(p, through, x) /\ Closure(p, through, x) \subseteq Ids(p)
BY DEF Closure

\* Passing through fewer nodes reaches fewer ids.
LEMMA ClosureMonotone ==
  ASSUME NEW p, NEW few, NEW many, few \subseteq many, NEW x
  PROVE  Closure(p, few, x) \subseteq Closure(p, many, x)
<1>1. ASSUME NEW C, Closed(p, many, C) PROVE Closed(p, few, C)
  BY <1>1 DEF Closed
<1>. QED  BY <1>1 DEF Closure

\* A closure contains what lies behind the nodes it passes through.
LEMMA ClosureClosed ==
  ASSUME NEW p \in Projects, NEW x, NEW through \in SUBSET p.nodes,
         NEW y \in Closure(p, through, x) \cap through
  PROVE  p.deps[y] \subseteq Closure(p, through, x)
<1>1. through \subseteq Resources(p)
  BY ProjectsAssumption DEF WellFormed
<1>2. SUFFICES ASSUME NEW z \in p.deps[y] PROVE z \in Closure(p, through, x)
  OBVIOUS
<1>3. z \in Ids(p)
  BY <1>1 DEF Ids
<1>4. ASSUME NEW C \in SUBSET Ids(p), x \in C, Closed(p, through, C)
      PROVE  z \in C
  <2>1. y \in C
    BY <1>4 DEF Closure
  <2>. QED  BY <2>1, <1>4 DEF Closed
<1>. QED  BY <1>3, <1>4 DEF Closure

\* The dependencies of a resource are ids.
LEMMA DependenciesAreIds ==
  ASSUME NEW p \in Projects, NEW r \in Resources(p)
  PROVE  r \in Ids(p) /\ p.deps[r] \subseteq Ids(p)
BY DEF Ids

\* The tables hold the closures.
LEMMA Tables ==
  ASSUME NEW p \in Projects, NEW x \in Ids(p)
  PROVE  /\ Up[p][x] = Closure(p, p.nodes, x)
         /\ Through[p][x] = Closure(p, p.ephemeral, x)
BY DEF Up, Through

\* allAncestors contains the dependencies themselves and consists of ids.
LEMMA AncestorsContain ==
  ASSUME NEW p \in Projects, NEW S \in SUBSET Ids(p)
  PROVE  S \subseteq AllAncestors(p, S) /\ AllAncestors(p, S) \subseteq Ids(p)
BY Tables, ClosureContains DEF AllAncestors

\* Tests are above nothing: only nodes and sources are depended on.
LEMMA OnlyNodesAndSourcesAbove ==
  ASSUME NEW p \in Projects, NEW r \in Resources(p),
         NEW y \in AllAncestors(p, p.deps[r]), y \in Resources(p)
  PROVE  y \in p.nodes
<1>. DEFINE C == Ids(p) \ (Resources(p) \ p.nodes)
<1>1. /\ p.nodes \subseteq Resources(p) /\ p.deps[r] \subseteq Ids(p)
      /\ \A q \in Resources(p) : p.deps[q] \subseteq C
  BY ProjectsAssumption, DependenciesAreIds DEF WellFormed
<1>2. C \in SUBSET Ids(p) /\ Closed(p, p.nodes, C)
  BY <1>1 DEF Closed
<1>3. PICK x \in p.deps[r] : y \in Closure(p, p.nodes, x)
  BY <1>1, Tables DEF AllAncestors
<1>4. y \in C
  BY <1>1, <1>2, <1>3 DEF Closure
<1>. QED  BY <1>4

\* A physical dependency is an ancestor: an ephemeral model stands for what
\* lies behind it, never for something else.
LEMMA PhysicalAreAncestors ==
  ASSUME NEW p \in Projects, NEW S \in SUBSET Ids(p)
  PROVE  PhysicalDependencies(p, S) \subseteq AllAncestors(p, S)
<1>1. p.ephemeral \subseteq p.nodes
  BY ProjectsAssumption DEF WellFormed
<1>2. ASSUME NEW x \in S PROVE Through[p][x] \subseteq Up[p][x]
  BY <1>1, <1>2, Tables, ClosureMonotone
<1>. QED  BY <1>2 DEF PhysicalDependencies, AllAncestors

\* What a resource blocks is known to the graph, and a node blocks itself.
LEMMA BlockersAreIds ==
  ASSUME NEW p \in Projects, NEW r \in Resources(p)
  PROVE  /\ Blockers(p, r) \subseteq Ids(p)
         /\ p.kind[r] = "node" => Blockers(p, r) = {r}
<1>1. p.nodes \subseteq Resources(p) /\ p.deps[r] \subseteq Ids(p) /\ r \in Ids(p)
      /\ AttachedTo(p, r) \subseteq p.deps[r]
  BY ProjectsAssumption, DependenciesAreIds DEF WellFormed
<1>2. UnitTarget(p, r) \subseteq Ids(p)
  BY <1>1 DEF UnitTarget, Ids
<1>3. p.kind[r] = "node" => UnitTarget(p, r) = {} /\ AttachedTo(p, r) = {}
  BY DEF UnitTarget, AttachedTo
<1>. QED  BY <1>1, <1>2, <1>3 DEF Blockers

-----------------------------------------------------------------------------
(* The jobs. *)

\* The jobs are finitely many positive numbers that name resources.
LEMMA JobFacts ==
  ASSUME project \in Projects
  PROVE  /\ IsFiniteSet(Jobs) /\ Jobs \subseteq Nat \ {0}
         /\ \A j \in Jobs : Id(j) \in Resources(project) /\ Id(j) \in Ids(project)
<1>1. Len(project.jobs) \in Nat /\ project.jobs \in Seq(Resources(project))
  BY ProjectsAssumption DEF WellFormed
<1>2. IsFiniteSet(1..Len(project.jobs))
  BY <1>1, FS_Interval
<1>3. \A j \in Jobs : Id(j) \in Resources(project)
  BY <1>1 DEF Jobs, JobSet, Id
<1>. QED  BY <1>1, <1>2, <1>3, DependenciesAreIds DEF Jobs, JobSet

-----------------------------------------------------------------------------
(* The loop's bookkeeping. *)

\* The wiring is the one the graph determines.
Wired == wiring = [j \in Jobs |-> Prerequisites(project, options.mode, j)]

\* The loop is left exactly when a result is known.
LoopHasNoResult == result = "none" <=> sup \notin {"unwind", "joining", "returned"}

\* No two jobs in flight share a worker number.
OwnSeats == \A j, k \in InFlight : worker[j] = worker[k] => j = k

DoneJobs == {j \in Jobs : state[j] = "done"}

Counted ==
  /\ active = Cardinality(InFlight) /\ active = Cardinality(occupied)
  /\ occupied = {worker[j] : j \in InFlight}
  /\ completed = Cardinality(DoneJobs)
  /\ OwnSeats

Counters == result = "none" => Counted

\* A thread's job is running, and only a done job is marked as skipped.
AliveRuns ==
  \A j \in Jobs :
    /\ Alive(j) => state[j] = "running"
    /\ output[j] = "skipped" => state[j] = "done"

Bookkeeping == TypeOK /\ Wired /\ LoopHasNoResult /\ Counters /\ AliveRuns

\* A run starts with its books in order.
LEMMA InitBookkeeping == Init => Bookkeeping
<1>. SUFFICES ASSUME Init PROVE Bookkeeping
  OBVIOUS
<1>1. project \in Projects /\ options.mode \in RunModes /\ options.threads \in Nat
  BY RunnerAssumption DEF Init
<1>2. InFlight = {} /\ DoneJobs = {}
  BY DEF Init, InFlight, DoneJobs
<1>3. Counters
  BY <1>2, FS_EmptySet DEF Counters, Counted, Init, OwnSeats
<1>4. Wired /\ LoopHasNoResult /\ AliveRuns
  BY DEF Init, Wired, LoopHasNoResult, AliveRuns, Alive, Jobs
<1>5. wiring \in [Jobs -> SUBSET Jobs]
  BY DEF Init, Jobs, Prerequisites
<1>6. RunTyped /\ JobsTyped
  BY <1>1, <1>5 DEF Init, RunTyped, JobsTyped
<1>7. rows \in Seq(Jobs)
  BY DEF Init
<1>8. TallyTyped
  BY <1>7 DEF Init, TallyTyped
<1>9. ThreadsTyped
  BY DEF Init, ThreadsTyped
<1>10. changed \in BOOLEAN /\ woken \in BOOLEAN
  BY DEF Init
<1>11. sup \in {"collect"} /\ cursor \in Nat \ {0} /\ result \in {"none"}
  BY DEF Init
<1>12. ControlTyped
  BY <1>10, <1>11 DEF ControlTyped
<1>. QED
  BY <1>3, <1>4, <1>6, <1>8, <1>9, <1>12 DEF Bookkeeping, TypeOK

\* The graph, the flags and the wiring never change.
LEMMA RunIsFixed ==
  ASSUME [Next]_vars PROVE UNCHANGED static
BY DEF Next, vars, Supervisor, WorkerStep, Done, static,
       Collect, CollectFails, CollectEnds, Skip, SkipFails, SkipEnds, Launch,
       LaunchFails, InlineReturns, LaunchEnds, Finish, NoProgress, NextRound, Wait,
       CancelAgain, Resume, PauseFails, Unwind, Return

\* The steps that only move the supervisor on, or cancel, leave the jobs and
\* the tally alone.
Moves ==
  \/ CollectEnds \/ SkipEnds \/ InlineReturns \/ LaunchEnds
  \/ Finish \/ NoProgress \/ NextRound \/ Wait \/ CancelAgain
  \/ Resume \/ PauseFails \/ Unwind \/ Return

\* Moving the supervisor on touches no job, no counter and no thread.
LEMMA MovesKeepJobs ==
  ASSUME Moves
  PROVE  UNCHANGED <<static, jobVars, tally, threads>>
BY DEF Moves, CollectEnds, SkipEnds, InlineReturns, LaunchEnds, Finish, NoProgress,
       NextRound, Wait, CancelAgain, Resume, PauseFails, Unwind, Return

\* Moving the supervisor on never takes a result back.
LEMMA MovesControl ==
  ASSUME ControlTyped, LoopHasNoResult, Moves
  PROVE  /\ ControlTyped' /\ LoopHasNoResult'
         /\ result' = "none" => result = "none"
<1>1. changed' \in BOOLEAN /\ woken' \in BOOLEAN
  BY DEF Moves, CollectEnds, SkipEnds, InlineReturns, LaunchEnds, Finish, NoProgress,
         NextRound, Wait, CancelAgain, Resume, PauseFails, Unwind, Return, ControlTyped
<1>. QED
  BY <1>1 DEF Moves, CollectEnds, SkipEnds, InlineReturns, LaunchEnds, Finish, NoProgress,
         NextRound, Wait, CancelAgain, Resume, PauseFails, Unwind, Return,
         ControlTyped, LoopHasNoResult

-----------------------------------------------------------------------------
(* The steps that change the counters. *)

\* A settled job gives back the worker number that was its own.
LEMMA SettleCounts ==
  ASSUME Bookkeeping, result = "none", UNCHANGED static,
         NEW j \in Finished, Settle(j)
  PROVE  JobsTyped' /\ active' \in Nat /\ completed' \in Nat /\ Counted'
<1>. USE DEF Settle, static, Bookkeeping, TypeOK
<1>1. IsFiniteSet(Jobs)
  BY JobFacts DEF RunTyped
<1>2. j \in Jobs /\ j \in InFlight /\ j \notin DoneJobs /\ Jobs' = Jobs
  BY DEF Finished, InFlight, DoneJobs, Jobs
<1>3. InFlight' = InFlight \ {j} /\ DoneJobs' = DoneJobs \cup {j}
  BY <1>2 DEF InFlight, DoneJobs, JobsTyped
<1>4. Counted /\ worker[j] \in occupied
  BY <1>2 DEF Counters, Counted
<1>5. IsFiniteSet(InFlight) /\ IsFiniteSet(DoneJobs) /\ IsFiniteSet(occupied)
  <2>1. InFlight \subseteq Jobs /\ DoneJobs \subseteq Jobs
    BY DEF InFlight, DoneJobs
  <2>2. options.threads \in Nat
    BY RunnerAssumption DEF RunTyped
  <2>3. IsFiniteSet(1..options.threads)
    BY <2>2, FS_Interval
  <2>. QED  BY <1>1, <2>1, <2>3, FS_Subset DEF JobsTyped
<1>6. /\ Cardinality(InFlight \ {j}) = active - 1
      /\ Cardinality(occupied \ {worker[j]}) = active - 1
      /\ Cardinality(DoneJobs \cup {j}) = completed + 1
      /\ active - 1 \in Nat
  <2>1. Cardinality(InFlight \ {j}) = active - 1
    BY <1>2, <1>4, <1>5, FS_RemoveElement DEF Counted
  <2>2. Cardinality(occupied \ {worker[j]}) = active - 1
    BY <1>4, <1>5, FS_RemoveElement DEF Counted
  <2>3. Cardinality(DoneJobs \cup {j}) = completed + 1
    BY <1>2, <1>4, <1>5, FS_AddElement DEF Counted
  <2>4. IsFiniteSet(InFlight \ {j})
    BY <1>5, FS_RemoveElement
  <2>. QED  BY <2>1, <2>2, <2>3, <2>4, FS_CardinalityType
<1>7. occupied' = occupied \ {worker[j]}
  BY DEF Settle
<1>8. occupied' = {worker'[k] : k \in InFlight'}
  BY <1>2, <1>3, <1>4 DEF Counted, OwnSeats
<1>9. OwnSeats'
  BY <1>3, <1>4 DEF Counted, OwnSeats
<1>10. JobsTyped'
  BY <1>2 DEF JobsTyped
<1>11. active' = Cardinality(InFlight') /\ active' = Cardinality(occupied')
  BY <1>3, <1>6, <1>7
<1>12. completed' = Cardinality(DoneJobs') /\ completed' \in Nat /\ active' \in Nat
  BY <1>3, <1>6 DEF TallyTyped
<1>. QED  BY <1>8, <1>9, <1>10, <1>11, <1>12 DEF Counted

\* A launched job sits on a number nobody has.
LEMMA LaunchCounts ==
  ASSUME Bookkeeping, result = "none", UNCHANGED static,
         NEW j \in Launchable, Seat(j),
         state' = [state EXCEPT ![j] = "running"], active' = active + 1,
         UNCHANGED <<output, completed>>
  PROVE  JobsTyped' /\ active' \in Nat /\ completed' \in Nat /\ Counted'
<1>. USE DEF static, Bookkeeping, TypeOK
<1>1. IsFiniteSet(Jobs)
  BY JobFacts DEF RunTyped
<1>2. j \in Jobs /\ state[j] = "pending" /\ j \notin InFlight /\ Jobs' = Jobs
  BY DEF Launchable, Ready, InFlight, Jobs
<1>3. InFlight' = InFlight \cup {j} /\ DoneJobs' = DoneJobs
  BY <1>2 DEF InFlight, DoneJobs, JobsTyped
<1>4. PICK n \in (1..options.threads) \ occupied :
        /\ worker' = [worker EXCEPT ![j] = n]
        /\ occupied' = occupied \cup {n}
  BY DEF Seat, FreeNumber, First
<1>5. Counted /\ options.threads \in Nat
  BY RunnerAssumption DEF Counters, RunTyped
<1>6. IsFiniteSet(InFlight) /\ IsFiniteSet(occupied)
  <2>1. InFlight \subseteq Jobs
    BY DEF InFlight
  <2>2. IsFiniteSet(1..options.threads)
    BY <1>5, FS_Interval
  <2>. QED  BY <1>1, <2>1, <2>2, FS_Subset DEF JobsTyped
<1>7. /\ Cardinality(InFlight \cup {j}) = active + 1
      /\ Cardinality(occupied \cup {n}) = active + 1
  <2>1. Cardinality(InFlight \cup {j}) = active + 1
    BY <1>2, <1>5, <1>6, FS_AddElement DEF Counted
  <2>2. Cardinality(occupied \cup {n}) = active + 1
    BY <1>4, <1>5, <1>6, FS_AddElement DEF Counted
  <2>. QED  BY <2>1, <2>2
<1>8. occupied' = {worker'[k] : k \in InFlight'}
  BY <1>2, <1>3, <1>4, <1>5 DEF Counted, JobsTyped, InFlight
<1>9. OwnSeats'
  BY <1>2, <1>3, <1>4, <1>5 DEF Counted, OwnSeats, JobsTyped, InFlight
<1>10. JobsTyped'
  BY <1>2, <1>4, <1>5 DEF JobsTyped
<1>11. active' = Cardinality(InFlight') /\ active' = Cardinality(occupied')
  BY <1>3, <1>4, <1>7
<1>12. completed' = Cardinality(DoneJobs')
  BY <1>3, <1>5 DEF Counted
<1>13. active' \in Nat /\ completed' \in Nat
  BY DEF TallyTyped
<1>. QED  BY <1>8, <1>9, <1>10, <1>11, <1>12, <1>13 DEF Counted

\* A skipped job is done without having been in flight.
LEMMA SkipCounts ==
  ASSUME Bookkeeping, result = "none", UNCHANGED static,
         NEW j \in Skippable, output' = [output EXCEPT ![j] = "skipped"],
         state' = [state EXCEPT ![j] = "done"], completed' = completed + 1,
         UNCHANGED <<worker, occupied, active>>
  PROVE  JobsTyped' /\ active' \in Nat /\ completed' \in Nat /\ Counted'
<1>. USE DEF static, Bookkeeping, TypeOK
<1>1. IsFiniteSet(Jobs)
  BY JobFacts DEF RunTyped
<1>2. j \in Jobs /\ state[j] = "pending" /\ Jobs' = Jobs
  BY DEF Skippable, MustSkip, Jobs
<1>3. InFlight' = InFlight /\ DoneJobs' = DoneJobs \cup {j} /\ j \notin DoneJobs
  BY <1>2 DEF InFlight, DoneJobs, JobsTyped
<1>4. IsFiniteSet(DoneJobs)
  BY <1>1, FS_Subset DEF DoneJobs
<1>5. Counted
  BY DEF Counters
<1>6. Cardinality(DoneJobs') = completed + 1
  BY <1>3, <1>4, <1>5, FS_AddElement DEF Counted
<1>7. JobsTyped'
  BY <1>2 DEF JobsTyped
<1>. QED  BY <1>3, <1>5, <1>6, <1>7 DEF Counted, OwnSeats, TallyTyped

-----------------------------------------------------------------------------
(* The bookkeeping is invariant. *)

\* Cancelling leaves the threads' state well typed.
LEMMA CancelTyped ==
  ASSUME ThreadsTyped, NEW states, CancelRunning(states), UNCHANGED <<static, threads>>
  PROVE  ThreadsTyped'
<1>1. token' \in [Jobs -> BOOLEAN] /\ interrupted' \in [Jobs -> BOOLEAN]
  BY DEF CancelRunning, ThreadsTyped
<1>. QED
  BY <1>1 DEF CancelRunning, ThreadsTyped, static, threads, Jobs

\* The supervisor's control steps keep the books.
LEMMA MovesKeepBookkeeping ==
  ASSUME Bookkeeping, Moves
  PROVE  Bookkeeping'
<1>1. UNCHANGED <<static, jobVars, tally, threads>>
  BY MovesKeepJobs
<1>2. ControlTyped' /\ LoopHasNoResult' /\ (result' = "none" => result = "none")
  BY MovesControl DEF Bookkeeping, TypeOK
<1>3. RunTyped' /\ JobsTyped' /\ TallyTyped' /\ Wired' /\ Counters' /\ AliveRuns'
  BY <1>1, <1>2 DEF AliveRuns, Alive, threads, Bookkeeping, TypeOK, RunTyped, JobsTyped, TallyTyped, Wired, Counters,
     Counted, OwnSeats, InFlight, DoneJobs, Jobs, static, jobVars, tally
<1>4. ThreadsTyped'
  <2>1. CASE UNCHANGED sessions
    BY <1>1, <2>1 DEF Bookkeeping, TypeOK, ThreadsTyped, sessions, threads, static, Jobs
  <2>2. CASE CancelRunning(state)
    BY <1>1, <2>2, CancelTyped DEF Bookkeeping, TypeOK
  <2>. QED
    BY <2>1, <2>2 DEF Moves, CollectEnds, SkipEnds, InlineReturns, LaunchEnds, Finish,
       NoProgress, NextRound, Wait, CancelAgain, Resume, PauseFails, Unwind, Return
<1>. QED  BY <1>2, <1>3, <1>4 DEF Bookkeeping, TypeOK

\* A worker's step keeps the books: publishing leaves the job in flight.
LEMMA WorkersKeepBookkeeping ==
  ASSUME Bookkeeping, NEW j \in Jobs, WorkerStep(j)
  PROVE  Bookkeeping'
<1>. USE DEF Bookkeeping, TypeOK
<1>1. UNCHANGED <<static, tally, control, worker>>
  BY DEF WorkerStep, Publish, jobVars
<1>2. RunTyped' /\ Wired' /\ TallyTyped' /\ LoopHasNoResult' /\ Jobs' = Jobs
  BY <1>1 DEF RunTyped, Wired, TallyTyped, LoopHasNoResult, Jobs, static, tally, control
<1>3. NodeOutcomes \subseteq Outcomes /\ TestOutcomes \subseteq Outcomes
      /\ "error" \in Outcomes /\ "success" \in Outcomes
  BY RunnerAssumption DEF Outcomes, Failures
<1>4. ThreadsTyped'
  <2>. USE <1>2, <1>3 DEF ThreadsTyped, Goto, Fail, sessions
  <2>1. CASE Open(j) \/ OpenFails(j) \/ RenderOffline(j) \/ Register(j)
    BY <2>1 DEF Open, OpenFails, RenderOffline, Register
  <2>2. CASE CheckToken(j) \/ StartStatement(j) \/ EndStatement(j) \/ Interrupted(j)
    BY <2>2 DEF CheckToken, StartStatement, EndStatement, Interrupted
  <2>3. CASE Deregister(j) \/ Close(j) \/ Publish(j)
    BY <2>3 DEF Deregister, Close, Publish
  <2>. QED  BY <2>1, <2>2, <2>3 DEF WorkerStep
<1>5. ControlTyped'
  BY <1>1 DEF ControlTyped, WorkerStep, Publish, control
<1>6. CASE Publish(j)
  <2>1. state[j] = "running"
    BY <1>6 DEF AliveRuns, Alive, Publish
  <2>2. JobsTyped'
    <3>1. /\ state' \in [Jobs -> {"pending", "running", "finished", "done"}]
          /\ output' \in [Jobs -> Outcomes \cup {"none", "skipped"}]
      BY <1>6 DEF JobsTyped, Publish, ThreadsTyped
    <3>. QED  BY <1>1, <1>2, <3>1 DEF JobsTyped, static, tally
  <2>3. InFlight' = InFlight /\ DoneJobs' = DoneJobs
    BY <1>2, <1>6, <2>1 DEF InFlight, DoneJobs, Publish, JobsTyped
  <2>4. Counters'
    BY <1>1, <2>3 DEF Counters, Counted, OwnSeats, tally, control
  <2>5. AliveRuns'
    BY <1>2, <1>6, <2>1 DEF AliveRuns, Alive, Publish, Goto, JobsTyped, ThreadsTyped,
       Outcomes, Failures
  <2>. QED  BY <1>2, <1>4, <1>5, <2>2, <2>4, <2>5
<1>7. CASE UNCHANGED jobVars
  <2>1. JobsTyped' /\ Counters'
    BY <1>1, <1>2, <1>7 DEF JobsTyped, Counters, Counted, OwnSeats, InFlight,
       DoneJobs, jobVars, tally, control, static
  <2>2. wpc[j] \notin {"unborn", "exited"}
    BY DEF WorkerStep, Open, OpenFails, RenderOffline, Register, CheckToken,
       StartStatement, EndStatement, Interrupted, Deregister, Close, Publish
  <2>3. \A k \in Jobs : k # j => wpc'[k] = wpc[k]
    BY DEF WorkerStep, Open, OpenFails, RenderOffline, Register, CheckToken, Goto,
       StartStatement, EndStatement, Interrupted, Deregister, Close, Publish, ThreadsTyped
  <2>4. AliveRuns'
    BY <1>2, <1>7, <2>2, <2>3 DEF AliveRuns, Alive, jobVars
  <2>. QED  BY <1>2, <1>4, <1>5, <2>1, <2>4
<1>. QED  BY <1>6, <1>7 DEF WorkerStep

\* Collecting a finished job keeps the books, also when a call fails.
LEMMA CollectKeepsBookkeeping ==
  ASSUME Bookkeeping, Collect \/ CollectFails
  PROVE  Bookkeeping'
<1>. USE DEF Bookkeeping, TypeOK
<1>1. UNCHANGED <<static, woken, threads>>
  BY DEF Collect, CollectFails
<1>2. PICK j \in Finished : Settle(j) /\ rows' \in {rows, Append(rows, j)}
  BY DEF Collect, CollectFails, First
<1>3. result = "none" /\ sup = "collect"
  BY DEF Collect, CollectFails, LoopHasNoResult
<1>4. JobsTyped' /\ active' \in Nat /\ completed' \in Nat /\ Counted'
  BY <1>1, <1>2, <1>3, SettleCounts
<1>5. RunTyped' /\ Wired' /\ Jobs' = Jobs /\ j \in Jobs
  BY <1>1, <1>2 DEF RunTyped, Wired, Jobs, static, Finished
<1>6. TallyTyped'
  <2>1. blocked' \subseteq Ids(project) /\ project' = project
    <3>1. CASE CollectFails
      BY <1>1, <3>1 DEF CollectFails, TallyTyped, static
    <3>2. CASE Collect
      <4>1. PICK k \in Finished :
              blocked' \in {blocked, blocked \cup Blockers(project, Id(k)), blocked \cup {Id(k)}}
        BY <3>2 DEF Collect, First
      <4>2. Blockers(project, Id(k)) \subseteq Ids(project) /\ Id(k) \in Ids(project)
        BY JobFacts, BlockersAreIds DEF RunTyped, Finished
      <4>. QED  BY <1>1, <4>1, <4>2 DEF TallyTyped, static
    <3>. QED  BY <3>1, <3>2
  <2>2. rows' \in Seq(Jobs)
    BY <1>2, <1>5 DEF TallyTyped
  <2>3. failedTests' \in Nat
    BY DEF Collect, CollectFails, CountFailure, TallyTyped
  <2>4. stop' \in BOOLEAN /\ hadError' \in BOOLEAN
    BY DEF Collect, CollectFails, CountFailure, TallyTyped
  <2>. QED  BY <1>4, <1>5, <2>1, <2>2, <2>3, <2>4 DEF TallyTyped
<1>7. ControlTyped' /\ LoopHasNoResult'
  <2>1. changed' \in BOOLEAN /\ woken' \in BOOLEAN
    BY DEF Collect, CollectFails, ControlTyped
  <2>. QED  BY <2>1 DEF Collect, CollectFails, ControlTyped, LoopHasNoResult
<1>8. ThreadsTyped'
  <2>1. CASE UNCHANGED sessions
    BY <1>1, <1>5, <2>1 DEF ThreadsTyped, sessions, threads
  <2>2. CASE CancelRunning(state')
    BY <1>1, <2>2, CancelTyped
  <2>. QED  BY <2>1, <2>2 DEF Collect, CollectFails
<1>9. AliveRuns'
  BY <1>1, <1>2, <1>5 DEF AliveRuns, Alive, Settle, Finished, threads, JobsTyped
<1>. QED  BY <1>4, <1>5, <1>6, <1>7, <1>8, <1>9 DEF Counters

\* Skipping a job keeps the books, also when a call fails.
LEMMA SkipKeepsBookkeeping ==
  ASSUME Bookkeeping, Skip \/ SkipFails
  PROVE  Bookkeeping'
<1>. USE DEF Bookkeeping, TypeOK
<1>1. UNCHANGED <<static, worker, occupied, active, stop, hadError, failedTests,
                  woken, sessions, threads>>
  BY DEF Skip, SkipFails, jobVars
<1>2. PICK j \in Skippable :
        /\ rows' \in {rows, Append(rows, j)}
        /\ \/ UNCHANGED <<output, state, completed, blocked, cursor>>
           \/ /\ output' = [output EXCEPT ![j] = "skipped"]
              /\ state' = [state EXCEPT ![j] = "done"]
              /\ completed' = completed + 1
              /\ blocked' = blocked \cup {Id(j)}
              /\ cursor' = j + 1
  BY DEF Skip, SkipFails, First, jobVars
<1>3. result = "none" /\ sup = "skip"
  BY DEF Skip, SkipFails, LoopHasNoResult
<1>4. RunTyped' /\ Wired' /\ Jobs' = Jobs /\ j \in Jobs /\ state[j] = "pending"
  BY <1>1, <1>2 DEF RunTyped, Wired, Jobs, static, Skippable, MustSkip
<1>5. JobsTyped' /\ active' \in Nat /\ completed' \in Nat /\ Counted'
  <2>1. CASE UNCHANGED <<output, state, completed>>
    BY <1>1, <1>3, <1>4, <2>1 DEF JobsTyped, TallyTyped, Counters, Counted, OwnSeats,
       InFlight, DoneJobs, static
  <2>. QED  BY <1>1, <1>2, <1>3, <2>1, SkipCounts
<1>6. TallyTyped'
  <2>1. Id(j) \in Ids(project)
    BY <1>4, JobFacts DEF RunTyped
  <2>2. blocked' \subseteq Ids(project) /\ project' = project
    BY <1>1, <1>2, <2>1 DEF TallyTyped, static
  <2>3. rows' \in Seq(Jobs)
    BY <1>2, <1>4 DEF TallyTyped
  <2>. QED  BY <1>1, <1>4, <1>5, <2>2, <2>3 DEF TallyTyped
<1>7. ControlTyped' /\ LoopHasNoResult'
  <2>1. changed' \in BOOLEAN /\ woken' \in BOOLEAN
    BY DEF Skip, SkipFails, ControlTyped
  <2>2. cursor' \in Nat \ {0}
    BY <1>2, <1>4, JobFacts DEF ControlTyped, RunTyped
  <2>. QED  BY <2>1, <2>2 DEF Skip, SkipFails, ControlTyped, LoopHasNoResult
<1>8. ThreadsTyped'
  BY <1>1, <1>4 DEF ThreadsTyped, sessions, threads
<1>9. AliveRuns'
  BY <1>1, <1>2, <1>4 DEF AliveRuns, Alive, threads, JobsTyped
<1>. QED  BY <1>4, <1>5, <1>6, <1>7, <1>8, <1>9 DEF Counters

\* Launching a job keeps the books, also when no thread can be had.
LEMMA LaunchKeepsBookkeeping ==
  ASSUME Bookkeeping, Launch \/ LaunchFails
  PROVE  Bookkeeping'
<1>. USE DEF Bookkeeping, TypeOK
<1>1. UNCHANGED <<static, output, completed, blocked, stop, rows, hadError, failedTests,
                  cursor, woken, sessions, local>>
  BY DEF Launch, LaunchFails, threads
<1>2. PICK j \in Launchable :
        /\ Seat(j)
        /\ wpc' \in {wpc, [wpc EXCEPT ![j] = "start"]}
        /\ \/ LaunchFails /\ wpc' = wpc /\ UNCHANGED <<state, active>>
           \/ state' = [state EXCEPT ![j] = "running"] /\ active' = active + 1
  BY DEF Launch, LaunchFails, First, threads
<1>3. result = "none" /\ sup = "launch"
  BY DEF Launch, LaunchFails, LoopHasNoResult
<1>4. RunTyped' /\ Wired' /\ Jobs' = Jobs /\ j \in Jobs /\ state[j] = "pending"
  BY <1>1, <1>2 DEF RunTyped, Wired, Jobs, static, Launchable, Ready
<1>5. JobsTyped' /\ active' \in Nat /\ completed' \in Nat /\ Counters'
  <2>1. CASE LaunchFails /\ UNCHANGED <<state, active>>
    <3>1. PICK n \in (1..options.threads) \ occupied :
            /\ worker' = [worker EXCEPT ![j] = n]
            /\ occupied' = occupied \cup {n}
      BY <1>2 DEF Seat, FreeNumber, First
    <3>2. options.threads \in Nat
      BY RunnerAssumption DEF RunTyped
    <3>. QED
      BY <1>1, <1>4, <2>1, <3>1, <3>2 DEF JobsTyped, TallyTyped, Counters, LaunchFails, static
  <2>. QED  BY <1>1, <1>2, <1>3, <2>1, LaunchCounts DEF Counters
<1>6. TallyTyped'
  BY <1>1, <1>4, <1>5 DEF TallyTyped, static
<1>7. ControlTyped' /\ LoopHasNoResult'
  <2>1. changed' \in BOOLEAN /\ woken' \in BOOLEAN
    BY DEF Launch, LaunchFails, ControlTyped
  <2>. QED  BY <2>1 DEF Launch, LaunchFails, ControlTyped, LoopHasNoResult
<1>8. ThreadsTyped'
  BY <1>1, <1>2, <1>4 DEF ThreadsTyped, sessions
<1>9. AliveRuns'
  BY <1>1, <1>2, <1>4 DEF AliveRuns, Alive, JobsTyped, ThreadsTyped
<1>. QED  BY <1>4, <1>5, <1>6, <1>7, <1>8, <1>9

\* The books are inductive.
LEMMA NextKeepsBookkeeping ==
  ASSUME Bookkeeping, [Next]_vars
  PROVE  Bookkeeping'
<1>1. CASE Moves
  BY <1>1, MovesKeepBookkeeping
<1>2. CASE \E j \in Jobs : WorkerStep(j)
  BY <1>2, WorkersKeepBookkeeping
<1>3. CASE Collect \/ CollectFails
  BY <1>3, CollectKeepsBookkeeping
<1>4. CASE Skip \/ SkipFails
  BY <1>4, SkipKeepsBookkeeping
<1>5. CASE Launch \/ LaunchFails
  BY <1>5, LaunchKeepsBookkeeping
<1>6. CASE UNCHANGED vars
  <2>1. UNCHANGED <<static, jobVars, tally, control, woken, sessions, threads>>
    BY <1>6 DEF vars
  <2>2. RunTyped' /\ JobsTyped' /\ TallyTyped' /\ ControlTyped' /\ ThreadsTyped'
    BY <2>1 DEF Bookkeeping, TypeOK, RunTyped, JobsTyped, TallyTyped, ControlTyped,
       ThreadsTyped, static, jobVars, tally, control, sessions, threads, Jobs
  <2>. QED
    BY <2>1, <2>2 DEF Bookkeeping, TypeOK, Wired, LoopHasNoResult, Counters, Counted, OwnSeats,
       AliveRuns, Alive, InFlight, DoneJobs, static, jobVars, tally, control, threads, Jobs
<1>. QED
  BY <1>1, <1>2, <1>3, <1>4, <1>5, <1>6 DEF Next, Supervisor, Moves, Done

\* Every run of the build keeps its books: the counters, the worker numbers
\* and the threads agree with the states of the jobs.
THEOREM BooksAreKept == Spec => []Bookkeeping
<1>1. Bookkeeping /\ [Next]_vars => Bookkeeping'
  BY NextKeepsBookkeeping
<1>. QED  BY InitBookkeeping, <1>1, PTL DEF Spec

\* No variable leaves its type; in particular `active' is never decremented
\* at zero.
THEOREM TypeCorrect == Spec => []TypeOK
<1>1. Bookkeeping => TypeOK
  BY DEF Bookkeeping
<1>. QED  BY BooksAreKept, <1>1, PTL

\* The supervisor's counters and the worker numbers agree with the jobs.
THEOREM SeatsAlwaysAgree == Spec => []SeatsAgree
<1>1. Bookkeeping => SeatsAgree
  BY DEF Bookkeeping, Counters, Counted, SeatsAgree, DoneJobs
<1>. QED  BY BooksAreKept, <1>1, PTL

-----------------------------------------------------------------------------
(* Sessions and threads. *)

\* A thread holds its session from opening to closing it, and offers it to
\* the supervisor only in between; when runMode returned no thread is left.
Handover ==
  /\ \A j \in Jobs :
       /\ session[j] = "open" <=>
            wpc[j] \in {"opened", "idle", "armed", "executing", "leaving", "closing"}
       /\ registered[j] => wpc[j] \in {"idle", "armed", "executing", "leaving"}
  /\ sup = "returned" => \A j \in Jobs : ~Alive(j)

\* A run starts without threads and sessions.
LEMMA InitHandover == Init => Handover
BY DEF Init, Handover, Alive

\* A worker withdraws its session before it closes it.
LEMMA WorkersKeepHandover ==
  ASSUME Bookkeeping, Handover, NEW j \in Jobs, WorkerStep(j)
  PROVE  Handover'
<1>. USE DEF Bookkeeping, TypeOK
<1>1. Jobs' = Jobs /\ sup' = sup
  BY DEF WorkerStep, static, control, Jobs
<1>2. wpc[j] \notin {"unborn", "exited"}
  BY DEF WorkerStep, Open, OpenFails, RenderOffline, Register, CheckToken,
     StartStatement, EndStatement, Interrupted, Deregister, Close, Publish
<1>3. sup # "returned"
  BY <1>2 DEF Handover, Alive
<1>4. ASSUME NEW k \in Jobs, k # j
      PROVE  wpc'[k] = wpc[k] /\ session'[k] = session[k] /\ registered'[k] = registered[k]
  BY <1>4 DEF WorkerStep, Open, OpenFails, RenderOffline, Register, CheckToken, Goto,
     StartStatement, EndStatement, Interrupted, Deregister, Close, Publish, ThreadsTyped,
     sessions
<1>5. /\ session'[j] = "open" <=>
           wpc'[j] \in {"opened", "idle", "armed", "executing", "leaving", "closing"}
      /\ registered'[j] => wpc'[j] \in {"idle", "armed", "executing", "leaving"}
  BY DEF WorkerStep, Open, OpenFails, RenderOffline, Register, CheckToken, Goto,
     StartStatement, EndStatement, Interrupted, Deregister, Close, Publish, ThreadsTyped,
     sessions, Handover
<1>. QED  BY <1>1, <1>3, <1>4, <1>5 DEF Handover

\* The handing over of sessions is inductive, given the books.
LEMMA NextKeepsHandover ==
  ASSUME Bookkeeping, Handover, [Next]_vars
  PROVE  Handover'
<1>1. CASE \E j \in Jobs : WorkerStep(j)
  BY <1>1, WorkersKeepHandover
<1>2. CASE Launch \/ LaunchFails
  <2>1. PICK j \in Jobs : state[j] = "pending" /\ wpc' \in {wpc, [wpc EXCEPT ![j] = "start"]}
    BY <1>2 DEF Launch, LaunchFails, First, Launchable, Ready, threads
  <2>2. UNCHANGED <<static, sessions>> /\ sup' # "returned"
    BY <1>2 DEF Launch, LaunchFails
  <2>3. wpc[j] \in {"unborn", "exited"}
    BY <2>1 DEF Bookkeeping, AliveRuns, Alive
  <2>. QED
    BY <2>1, <2>2, <2>3 DEF Handover, Bookkeeping, TypeOK, ThreadsTyped, static, sessions, Jobs
<1>3. CASE UNCHANGED <<static, session, registered, threads>> /\ (sup' = "returned" => sup = "returned" \/ Return)
  BY <1>3 DEF Handover, Alive, Return, static, threads, Jobs
<1>4. CASE UNCHANGED vars
  BY <1>3, <1>4 DEF vars, static, sessions, threads, control
<1>5. ASSUME Supervisor, ~(Launch \/ LaunchFails)
      PROVE  UNCHANGED <<static, session, registered, threads>> /\ (sup' = "returned" => sup = "returned" \/ Return)
  BY <1>5 DEF Supervisor, Collect, CollectFails, CollectEnds, Skip, SkipFails, SkipEnds,
     InlineReturns, LaunchEnds, Finish, NoProgress, NextRound, Wait, CancelAgain, Resume,
     PauseFails, Unwind, Return, CancelRunning, sessions
<1>. QED  BY <1>1, <1>2, <1>3, <1>4, <1>5 DEF Next, Done

\* On every schedule and every exit path, the sessions the supervisor may
\* cancel are those of threads between registering and withdrawing them.
THEOREM SessionsAreHandedOver == Spec => [](Bookkeeping /\ Handover)
<1>1. Bookkeeping /\ Handover /\ [Next]_vars => Handover'
  BY NextKeepsHandover
<1>. QED  BY BooksAreKept, InitHandover, <1>1, PTL DEF Spec

\* cancelJobs never touches a session that its thread has closed or has not
\* opened yet, on any schedule and on any exit path.
THEOREM CancelIsAlwaysSafe == Spec => []CancelIsSafe
<1>1. Handover => CancelIsSafe
  BY DEF Handover, CancelIsSafe
<1>. QED  BY SessionsAreHandedOver, <1>1, PTL

\* However runMode ends, its threads have ended and their sessions are closed.
THEOREM AlwaysJoinedBeforeReturn == Spec => []JoinedBeforeReturn
<1>1. Handover => JoinedBeforeReturn
  BY DEF Handover, JoinedBeforeReturn, Alive
<1>. QED  BY SessionsAreHandedOver, <1>1, PTL

-----------------------------------------------------------------------------
(* The order of the build.  What failed or was skipped is recorded in      *)
(* `blocked' by the time its row is written, so that whoever is ready when *)
(* all it waits for is done, and is not blocked, waits for successes only. *)

Waited == \A j \in Jobs : Started(j) => \A k \in wiring[j] : state[k] = "done"

Recorded(k) ==
  /\ Failed(k) => BlockedByJob(k) \subseteq blocked
  /\ output[k] = "skipped" => Id(k) \in blocked

Settled == result = "none" => \A k \in Jobs : state[k] = "done" => Recorded(k)

Ordered == Waited /\ Settled /\ UpstreamSettled /\ TestsGate /\ UnitsInTurn

\* What every step does, as far as the order is concerned: done jobs stay as
\* they are, jobs that get done are recorded, and only ready jobs start.
Advances ==
  /\ UNCHANGED static
  /\ \A k \in Jobs : state[k] = "done" => state'[k] = "done" /\ output'[k] = output[k]
  /\ result' = "none" =>
       /\ result = "none" /\ blocked \subseteq blocked'
       /\ \A k \in Jobs : state'[k] = "done" => state[k] = "done" \/ Recorded(k)'
  /\ \A j \in Jobs : Started(j)' => Started(j) \/ (Ready(j) /\ result = "none")

\* A worker only turns a running job into a finished one.
LEMMA WorkersAdvance ==
  ASSUME Bookkeeping, NEW j \in Jobs, WorkerStep(j)
  PROVE  Advances
<1>. USE DEF Bookkeeping, TypeOK, JobsTyped
<1>1. UNCHANGED <<static, blocked, result>>
  BY DEF WorkerStep, tally, control
<1>2. CASE UNCHANGED jobVars
  BY <1>1, <1>2 DEF Advances, Started, InFlight, static, Jobs, jobVars
<1>3. CASE Publish(j)
  <2>1. state[j] = "running" /\ j \in InFlight
    BY <1>3 DEF AliveRuns, Alive, Publish, InFlight
  <2>2. /\ state' = [state EXCEPT ![j] = "finished"]
        /\ output' = [output EXCEPT ![j] = local[j]]
    BY <1>3 DEF Publish
  <2>. QED  BY <1>1, <2>1, <2>2 DEF Advances, Started, InFlight, static, Jobs
<1>. QED  BY <1>2, <1>3 DEF WorkerStep

\* A collected job is recorded as a blocker if it failed.
LEMMA CollectAdvances ==
  ASSUME Bookkeeping, Collect \/ CollectFails
  PROVE  Advances
<1>. USE DEF Bookkeeping, TypeOK, JobsTyped
<1>1. UNCHANGED <<static, output>>
  BY DEF Collect, CollectFails, Settle
<1>2. PICK j \in Finished :
        /\ state' = [state EXCEPT ![j] = "done"]
        /\ result' = "none" => blocked' = blocked \cup (IF Failed(j) THEN BlockedByJob(j) ELSE {})
  BY DEF Collect, CollectFails, Settle, First, BlockedByJob
<1>3. j \in Jobs /\ state[j] = "finished" /\ output[j] # "skipped"
  BY DEF Finished, AliveRuns
<1>4. result = "none"
  BY DEF Collect, CollectFails, LoopHasNoResult
<1>. QED
  BY <1>1, <1>2, <1>3, <1>4 DEF Advances, Started, InFlight, static, Jobs, Recorded, Failed,
     BlockedByJob, Id

\* A skipped job is recorded as a blocker.
LEMMA SkipAdvances ==
  ASSUME Bookkeeping, Skip \/ SkipFails
  PROVE  Advances
<1>. USE DEF Bookkeeping, TypeOK, JobsTyped
<1>1. UNCHANGED static
  BY DEF Skip, SkipFails
<1>2. CASE SkipFails
  BY <1>1, <1>2 DEF SkipFails, Advances, Started, InFlight, static, Jobs, jobVars,
     LoopHasNoResult
<1>3. CASE Skip
  <2>1. PICK j \in Jobs :
          /\ state[j] = "pending"
          /\ state' = [state EXCEPT ![j] = "done"]
          /\ output' = [output EXCEPT ![j] = "skipped"]
          /\ blocked' = blocked \cup {Id(j)}
    BY <1>3 DEF Skip, First, Skippable, MustSkip
  <2>2. result = "none"
    BY <1>3 DEF Skip, LoopHasNoResult
  <2>3. Recorded(j)'
    BY <1>1, <2>1 DEF Recorded, Failed, Failures, Outcomes, Id, static
  <2>. QED
    BY <1>1, <2>1, <2>2, <2>3 DEF Advances, Started, InFlight, static, Jobs
<1>. QED  BY <1>2, <1>3

\* Only ready jobs are launched.
LEMMA LaunchAdvances ==
  ASSUME Bookkeeping, Launch \/ LaunchFails
  PROVE  Advances
<1>. USE DEF Bookkeeping, TypeOK, JobsTyped
<1>1. UNCHANGED <<static, output, blocked>> /\ result = "none"
  BY DEF Launch, LaunchFails, LoopHasNoResult
<1>2. PICK j \in Jobs :
        Ready(j) /\ state' \in {state, [state EXCEPT ![j] = "running"]}
  BY DEF Launch, LaunchFails, First, Launchable
<1>3. state[j] = "pending"
  BY <1>2 DEF Ready
<1>. QED  BY <1>1, <1>2, <1>3 DEF Advances, Started, InFlight, static, Jobs

\* Every step advances the build in the way `Advances' says.
LEMMA NextAdvances ==
  ASSUME Bookkeeping, [Next]_vars
  PROVE  Advances
<1>1. CASE Moves
  <2>1. UNCHANGED <<static, jobVars, tally>> /\ (result' = "none" => result = "none")
    BY <1>1, MovesKeepJobs, MovesControl DEF Bookkeeping, TypeOK
  <2>. QED  BY <2>1 DEF Advances, Started, InFlight, static, Jobs, jobVars, tally
<1>2. CASE UNCHANGED vars
  BY <1>2 DEF vars, Advances, Started, InFlight, static, Jobs, jobVars, tally, control
<1>3. CASE \E j \in Jobs : WorkerStep(j)
  BY <1>3, WorkersAdvance
<1>4. CASE Collect \/ CollectFails
  BY <1>4, CollectAdvances
<1>5. CASE Skip \/ SkipFails
  BY <1>5, SkipAdvances
<1>6. CASE Launch \/ LaunchFails
  BY <1>6, LaunchAdvances
<1>. QED
  BY <1>1, <1>2, <1>3, <1>4, <1>5, <1>6 DEF Next, Supervisor, Moves, Done

\* What a ready job reads from has succeeded.
LEMMA ReadyReadsSuccesses ==
  ASSUME Bookkeeping, Settled, result = "none", NEW j \in Jobs, Ready(j),
         NEW k \in Jobs, IsNode(k),
         Id(k) \in PhysicalDependencies(project, project.deps[Id(j)])
                   \ UnitTarget(project, Id(j))
  PROVE  state[k] = "done" /\ output[k] \notin Failures \cup {"skipped"}
<1>. USE DEF Bookkeeping, TypeOK, RunTyped
<1>1. /\ Id(j) \in Resources(project) /\ Id(k) \in Resources(project)
      /\ project.deps[Id(j)] \subseteq Ids(project)
      /\ Id(k) \in AllAncestors(project, project.deps[Id(j)])
  BY JobFacts, DependenciesAreIds, PhysicalAreAncestors
<1>2. k # j
  BY <1>1, RunnerAssumption DEF NoCycle
<1>3. k \in wiring[j]
  BY <1>2 DEF Wired, Prerequisites, NeedsOutput, Jobs, Id
<1>4. state[k] = "done"
  BY <1>3 DEF Ready, PrerequisitesDone
<1>5. Recorded(k)
  BY <1>4 DEF Settled
<1>6. Blockers(project, Id(k)) = {Id(k)}
  BY <1>1, BlockersAreIds DEF IsNode
<1>7. CASE IsNode(j)
  <2>1. Id(k) \notin blocked
    BY <1>1, <1>7 DEF Ready, JobBlocked, ResourceBlocked, BlockedBy
  <2>. QED  BY <1>4, <1>5, <1>6, <2>1 DEF Recorded, Failed, BlockedByJob
<1>8. CASE ~IsNode(j)
  BY <1>3, <1>4, <1>8 DEF Ready, JobBlocked, Failed
<1>. QED  BY <1>7, <1>8

\* Whoever blocks a ready job's ids has not failed.
LEMMA ReadyIsNotBlocked ==
  ASSUME Bookkeeping, Settled, result = "none", options.mode = "execute",
         NEW j \in Jobs, Ready(j), NEW k \in Jobs, state[k] = "done",
         \/ IsNode(j) /\ Blockers(project, Id(k)) \cap Above(j) # {}
         \/ /\ project.kind[Id(j)] = "unit"
            /\ Blockers(project, Id(k)) \cap UnitTarget(project, Id(j)) # {}
  PROVE  ~Failed(k)
<1>1. SUFFICES ASSUME Failed(k) PROVE FALSE
  OBVIOUS
<1>2. Blockers(project, Id(k)) \subseteq blocked
  BY <1>1 DEF Settled, Recorded, BlockedByJob
<1>3. ResourceBlocked(project, Id(j), blocked)
  BY <1>2 DEF ResourceBlocked, BlockedBy, Above
<1>. QED  BY <1>3 DEF Ready, JobBlocked, IsNode

\* A ready node waits for every test that gates it.
LEMMA ReadyWaitsForTests ==
  ASSUME Bookkeeping, options.mode = "execute", NEW j \in Jobs, Ready(j), IsNode(j),
         NEW k \in Jobs, ~IsNode(k),
         Blockers(project, Id(k)) \cap Above(j) # {},
         UnitTarget(project, Id(k)) # {} \/ ~WouldCycle(project, Id(j), Id(k))
  PROVE  state[k] = "done"
<1>. USE DEF Bookkeeping, TypeOK, RunTyped
<1>1. /\ Id(j) \in Resources(project) /\ Id(k) \in Resources(project) /\ k # j
      /\ project.deps[Id(j)] \subseteq Ids(project)
      /\ WellFormed(project)
  BY JobFacts, DependenciesAreIds, ProjectsAssumption
<1>2. UnitGates(project, Id(j), Id(k)) \/ DataTestGates(project, Id(j), Id(k))
  <2>1. CASE UnitTarget(project, Id(k)) # {}
    BY <2>1 DEF Blockers, Above, UnitGates, UnitTarget, BlockedBy, IsNode
  <2>2. CASE UnitTarget(project, Id(k)) = {}
    <3>1. PICK b \in Blockers(project, Id(k)) : b \in Above(j)
      OBVIOUS
    <3>2. ~WouldCycle(project, Id(j), Id(k))
      BY <2>2
    <3>3. CASE AttachedTo(project, Id(k)) # {} \/ project.kind[Id(k)] = "singular"
      <4>1. b \in project.deps[Id(k)] /\ IsDataTest(project, Id(k))
        BY <1>1, <2>2, <3>1, <3>3 DEF Blockers, WellFormed, IsDataTest, AttachedTo
      <4>2. b # Id(j)
        BY <3>2, <4>1 DEF WouldCycle
      <4>. QED  BY <3>1, <3>2, <4>1, <4>2 DEF Above, DataTestGates, BlockedBy, IsNode
    <3>4. CASE b = Id(k)
      <4>1. Id(k) \notin project.nodes /\ Id(k) # Id(j)
        BY <1>1 DEF WellFormed, IsNode
      <4>2. Id(k) \in AllAncestors(project, project.deps[Id(j)])
        BY <3>1, <3>4, <4>1 DEF Above
      <4>. QED  BY <1>1, <4>1, <4>2, OnlyNodesAndSourcesAbove
    <3>. QED  BY <2>2, <3>1, <3>3, <3>4 DEF Blockers
  <2>. QED  BY <2>1, <2>2
<1>3. k \in wiring[j]
  BY <1>1, <1>2 DEF Wired, Prerequisites, Jobs, Id
<1>. QED  BY <1>3 DEF Ready, PrerequisitesDone

\* A ready unit test waits for the earlier unit tests of its model.
LEMMA ReadyWaitsForItsTurn ==
  ASSUME Bookkeeping, options.mode = "execute", NEW j \in Jobs, Ready(j),
         NEW k \in Jobs, k < j,
         UnitTarget(project, Id(j)) \cap UnitTarget(project, Id(k)) # {}
  PROVE  /\ state[k] = "done" /\ project.kind[Id(j)] = "unit"
         /\ Blockers(project, Id(k)) \cap UnitTarget(project, Id(j)) # {}
<1>1. UnitTarget(project, Id(j)) = UnitTarget(project, Id(k)) /\ project.kind[Id(j)] = "unit"
  BY DEF UnitTarget
<1>2. k \in wiring[j]
  <2>1. k # j
    BY JobFacts DEF Bookkeeping, TypeOK, RunTyped
  <2>. QED  BY <1>1, <2>1 DEF Bookkeeping, Wired, Prerequisites, UnitChain, Jobs, Id
<1>3. state[k] = "done"
  BY <1>2 DEF Ready, PrerequisitesDone
<1>. QED  BY <1>1, <1>3 DEF Blockers

\* A run starts in order: nothing has started.
LEMMA InitOrdered == Init => Ordered
<1>. SUFFICES ASSUME Init PROVE Ordered
  OBVIOUS
<1>1. \A j \in Jobs : state[j] = "pending"
  BY DEF Init
<1>2. \A j \in Jobs : ~Started(j)
  BY <1>1 DEF Started, InFlight
<1>. QED
  BY <1>1, <1>2 DEF Ordered, Waited, Settled, UpstreamSettled, TestsGate, UnitsInTurn

\* The order of the build is inductive, given the books.
LEMMA NextKeepsOrdered ==
  ASSUME Bookkeeping, Ordered, [Next]_vars
  PROVE  Ordered'
<1>. USE DEF Ordered
<1>1. Advances
  BY NextAdvances
<1>2. Jobs' = Jobs /\ UNCHANGED <<project, options, wiring>>
  BY <1>1 DEF Advances, static, Jobs
<1>3. ASSUME NEW j \in Jobs, Started(j)', ~Started(j)
      PROVE  Ready(j) /\ result = "none"
  BY <1>1, <1>3 DEF Advances
<1>4. ASSUME NEW k \in Jobs, state[k] = "done"
      PROVE  state'[k] = "done" /\ output'[k] = output[k]
  BY <1>1, <1>4 DEF Advances
<1>5. Waited'
  <2>1. SUFFICES ASSUME NEW j \in Jobs, Started(j)', NEW k \in wiring[j]
                 PROVE  state[k] = "done" /\ k \in Jobs
    BY <1>2, <1>4 DEF Waited
  <2>2. k \in Jobs
    BY DEF Bookkeeping, TypeOK, RunTyped
  <2>. QED  BY <1>3, <2>1, <2>2 DEF Waited, Ready, PrerequisitesDone
<1>6. Settled'
  <2>1. SUFFICES ASSUME result' = "none", NEW k \in Jobs, state'[k] = "done"
                 PROVE  Recorded(k)'
    BY <1>2 DEF Settled
  <2>2. result = "none" /\ blocked \subseteq blocked'
    BY <1>1, <2>1 DEF Advances
  <2>3. CASE state[k] = "done"
    BY <1>2, <1>4, <2>2, <2>3 DEF Settled, Recorded, Failed, BlockedByJob, Id
  <2>. QED  BY <1>1, <2>1, <2>3 DEF Advances
<1>7. UpstreamSettled'
  <2>1. SUFFICES ASSUME NEW j \in Jobs, NEW k \in Jobs, Started(j)', IsNode(k),
                        Id(k) \in PhysicalDependencies(project, project.deps[Id(j)])
                                  \ UnitTarget(project, Id(j))
                 PROVE  state[k] = "done" /\ output[k] \notin Failures \cup {"skipped"}
    BY <1>2, <1>4 DEF UpstreamSettled, IsNode, Id
  <2>2. CASE Started(j)
    BY <2>1, <2>2 DEF UpstreamSettled
  <2>3. CASE ~Started(j)
    BY <1>3, <2>1, <2>3, ReadyReadsSuccesses
  <2>. QED  BY <2>2, <2>3
<1>8. TestsGate'
  <2>1. SUFFICES ASSUME options.mode = "execute", NEW j \in Jobs, NEW k \in Jobs,
                        Started(j)', IsNode(j), ~IsNode(k),
                        Blockers(project, Id(k)) \cap Above(j) # {},
                        \/ UnitTarget(project, Id(k)) # {}
                        \/ ~WouldCycle(project, Id(j), Id(k))
                 PROVE  state[k] = "done" /\ ~Failed(k)
    BY <1>2, <1>4 DEF TestsGate, IsNode, Id, Above, Failed
  <2>2. CASE Started(j)
    BY <2>1, <2>2 DEF TestsGate
  <2>3. CASE ~Started(j)
    BY <1>3, <2>1, <2>3, ReadyWaitsForTests, ReadyIsNotBlocked
  <2>. QED  BY <2>2, <2>3
<1>9. UnitsInTurn'
  <2>1. SUFFICES ASSUME options.mode = "execute", NEW j \in Jobs, NEW k \in Jobs,
                        Started(j)', k < j,
                        UnitTarget(project, Id(j)) \cap UnitTarget(project, Id(k)) # {}
                 PROVE  state[k] = "done" /\ ~Failed(k)
    BY <1>2, <1>4 DEF UnitsInTurn, Id, Failed
  <2>2. CASE Started(j)
    BY <2>1, <2>2 DEF UnitsInTurn
  <2>3. CASE ~Started(j)
    BY <1>3, <2>1, <2>3, ReadyWaitsForItsTurn, ReadyIsNotBlocked
  <2>. QED  BY <2>2, <2>3
<1>. QED  BY <1>5, <1>6, <1>7, <1>8, <1>9

\* On every schedule, whatever fails, the order of the build is kept: what
\* starts waited for its prerequisites, and what is done is recorded.
THEOREM BuildIsOrdered == Spec => []Ordered
<1>1. Bookkeeping /\ Ordered /\ [Next]_vars => Ordered'
  BY NextKeepsOrdered
<1>. QED  BY BooksAreKept, InitOrdered, <1>1, PTL DEF Spec

\* On every schedule, whatever fails, a job runs only after every selected
\* node it reads from, directly or through ephemeral models, has succeeded.
THEOREM UpstreamIsSettled == Spec => []UpstreamSettled
<1>1. Ordered => UpstreamSettled
  BY DEF Ordered
<1>. QED  BY BuildIsOrdered, <1>1, PTL

\* A model runs only after the tests that gate it ended without failing.
THEOREM TestsAlwaysGate == Spec => []TestsGate
<1>1. Ordered => TestsGate
  BY DEF Ordered
<1>. QED  BY BuildIsOrdered, <1>1, PTL

\* Unit tests of one model run one after the other until one fails.
THEOREM UnitsKeepTheirTurn == Spec => []UnitsInTurn
<1>1. Ordered => UnitsInTurn
  BY DEF Ordered
<1>. QED  BY BuildIsOrdered, <1>1, PTL

\* After fail-fast no job starts, and fail-fast is never taken back.
THEOREM StopIsAlwaysFinal == Spec => StopIsFinal
<1>1. ASSUME Bookkeeping, [Next]_vars, stop
      PROVE  stop' /\ \A j \in Jobs : state[j] = "pending" => state'[j] \in {"pending", "done"}
  <2>1. CASE Moves
    <3>1. UNCHANGED <<jobVars, tally>>
      BY <2>1, MovesKeepJobs
    <3>. QED  BY <1>1, <3>1 DEF jobVars, tally
  <2>2. CASE UNCHANGED vars
    BY <1>1, <2>2 DEF vars, jobVars, tally
  <2>3. ASSUME NEW k \in Jobs, WorkerStep(k)
        PROVE  stop' /\ \A j \in Jobs : state[j] = "pending" => state'[j] = "pending"
    <3>1. stop'
      BY <1>1, <2>3 DEF WorkerStep, tally
    <3>2. state' \in {state, [state EXCEPT ![k] = "finished"]} /\ (state' = state \/ Alive(k))
      BY <2>3 DEF WorkerStep, Publish, jobVars, Alive
    <3>. QED
      BY <1>1, <2>3, <3>1, <3>2 DEF Bookkeeping, AliveRuns, TypeOK, JobsTyped
  <2>4. CASE Collect \/ CollectFails
    <3>1. stop'
      BY <1>1, <2>4 DEF Collect, CollectFails
    <3>2. \E k \in Jobs : state' = [state EXCEPT ![k] = "done"]
      BY <2>4 DEF Collect, CollectFails, Settle, First, Finished
    <3>. QED  BY <1>1, <3>1, <3>2 DEF Bookkeeping, TypeOK, JobsTyped
  <2>5. CASE Skip \/ SkipFails
    <3>1. stop'
      BY <1>1, <2>5 DEF Skip, SkipFails
    <3>2. state' = state \/ \E k \in Jobs : state' = [state EXCEPT ![k] = "done"]
      BY <2>5 DEF Skip, SkipFails, First, Skippable, jobVars
    <3>. QED  BY <1>1, <3>1, <3>2 DEF Bookkeeping, TypeOK, JobsTyped
  <2>6. CASE Launch \/ LaunchFails
    BY <1>1, <2>6 DEF Launch, LaunchFails, Launchable, First
  <2>. QED
    BY <1>1, <2>1, <2>2, <2>3, <2>4, <2>5, <2>6 DEF Next, Supervisor, Moves, Done
<1>. QED  BY BooksAreKept, <1>1, PTL DEF Spec, StopIsFinal

-----------------------------------------------------------------------------
(* Who is to blame.  Every skip goes back to a job that failed, and the    *)
(* summary counts the jobs that did.                                       *)

\* What is above an ancestor is above: closures are transitive.
LEMMA ClosureTransitive ==
  ASSUME NEW p \in Projects, NEW x \in Ids(p), NEW y \in Closure(p, p.nodes, x)
  PROVE  Closure(p, p.nodes, y) \subseteq Closure(p, p.nodes, x)
<1>. DEFINE C == Closure(p, p.nodes, x)
<1>1. C \subseteq Ids(p)
  BY ClosureContains
<1>2. Closed(p, p.nodes, C)
  BY ClosureClosed DEF Closed
<1>. QED  BY <1>1, <1>2 DEF Closure

\* An ancestor's ancestors are ancestors.
LEMMA AncestorsTransitive ==
  ASSUME NEW p \in Projects, NEW S \in SUBSET Ids(p), NEW y \in AllAncestors(p, S)
  PROVE  /\ AllAncestors(p, {y}) \subseteq AllAncestors(p, S)
         /\ y \in p.nodes => AllAncestors(p, p.deps[y]) \subseteq AllAncestors(p, S)
<1>1. PICK x \in S : y \in Up[p][x]
  BY DEF AllAncestors
<1>2. x \in Ids(p) /\ y \in Ids(p) /\ Up[p][x] = Closure(p, p.nodes, x)
  BY <1>1, Tables, ClosureContains
<1>3. ASSUME NEW z \in Closure(p, p.nodes, x)
      PROVE  Up[p][z] \subseteq Up[p][x]
  <2>1. z \in Ids(p)
    BY <1>2, ClosureContains
  <2>. QED  BY <1>2, <2>1, Tables, ClosureTransitive
<1>4. AllAncestors(p, {y}) \subseteq AllAncestors(p, S)
  BY <1>1, <1>2, <1>3 DEF AllAncestors
<1>5. ASSUME y \in p.nodes, NEW z \in p.deps[y]
      PROVE  Up[p][z] \subseteq AllAncestors(p, S)
  <2>1. z \in Closure(p, p.nodes, x)
    BY <1>1, <1>2, <1>5, ClosureClosed
  <2>. QED  BY <1>1, <1>3, <2>1 DEF AllAncestors
<1>. QED  BY <1>4, <1>5 DEF AllAncestors

\* What is above a resource that is above a job is above the job.
LEMMA AboveTransitive ==
  ASSUME project \in Projects, NEW j \in Jobs, NEW r \in Resources(project), r \in Above(j)
  PROVE  AllAncestors(project, project.deps[r]) \cup {r} \subseteq Above(j)
<1>1. Id(j) \in Resources(project) /\ project.deps[Id(j)] \in SUBSET Ids(project)
  BY JobFacts, DependenciesAreIds
<1>2. CASE r = Id(j)
  BY <1>2 DEF Above
<1>3. CASE r # Id(j)
  <2>1. r \in AllAncestors(project, project.deps[Id(j)])
    BY <1>3 DEF Above
  <2>2. r \in project.nodes
    BY <1>1, <2>1, OnlyNodesAndSourcesAbove
  <2>. QED  BY <1>1, <2>1, <2>2, AncestorsTransitive DEF Above
<1>. QED  BY <1>2, <1>3

\* A blocked resource has a blocked id above it.
LEMMA ResourceBlockedAbove ==
  ASSUME project \in Projects, NEW j \in Jobs, ResourceBlocked(project, Id(j), blocked)
  PROVE  \E b \in blocked : b \in Above(j)
<1>1. Id(j) \in Resources(project) /\ WellFormed(project)
  BY JobFacts, ProjectsAssumption
<1>2. CASE Id(j) \in blocked \/ BlockedBy(project, project.deps[Id(j)], blocked)
  BY <1>2 DEF Above, BlockedBy
<1>3. ASSUME NEW t \in UnitTarget(project, Id(j)),
             t \in blocked \/ BlockedBy(project, project.deps[t], blocked)
      PROVE  \E b \in blocked : b \in Above(j)
  <2>1. t \in project.nodes /\ t \in project.deps[Id(j)] /\ t \in Resources(project)
    BY <1>1, <1>3 DEF UnitTarget, WellFormed
  <2>2. t \in Above(j)
    BY <1>1, <2>1, DependenciesAreIds, AncestorsContain DEF Above
  <2>. QED  BY <1>3, <2>1, <2>2, AboveTransitive DEF BlockedBy
<1>. QED  BY <1>2, <1>3 DEF ResourceBlocked

\* The nodes a test waits for are above it.
LEMMA TestsWaitForAbove ==
  ASSUME project \in Projects, Wired, NEW j \in Jobs, ~IsNode(j), NEW k \in wiring[j], IsNode(k)
  PROVE  k \in Jobs /\ Id(k) \in Above(j)
<1>1. /\ Id(j) \in Resources(project) /\ WellFormed(project)
      /\ project.deps[Id(j)] \in SUBSET Ids(project)
  BY JobFacts, ProjectsAssumption, DependenciesAreIds
<1>2. k \in Jobs
  BY DEF Wired, Prerequisites, Jobs
<1>3. NeedsOutput(project, Id(j), Id(k))
  BY DEF Wired, Prerequisites, Jobs, Id, IsNode, UnitGates, UnitChain, DataTestGates,
         IsDataTest, UnitTarget
<1>4. CASE Id(k) \in PhysicalDependencies(project, project.deps[Id(j)])
  BY <1>1, <1>2, <1>4, PhysicalAreAncestors DEF Above
<1>5. ASSUME NEW t \in UnitTarget(project, Id(j)),
             Id(k) \in PhysicalDependencies(project, project.deps[t])
      PROVE  Id(k) \in Above(j)
  <2>1. t \in Resources(project) /\ t \in project.deps[Id(j)]
    BY <1>1 DEF UnitTarget, WellFormed
  <2>2. t \in Above(j)
    BY <1>1, <2>1, AncestorsContain DEF Above
  <2>3. Id(k) \in AllAncestors(project, project.deps[t])
    BY <1>5, <2>1, DependenciesAreIds, PhysicalAreAncestors
  <2>. QED  BY <2>1, <2>2, <2>3, AboveTransitive
<1>. QED  BY <1>2, <1>3, <1>4, <1>5 DEF NeedsOutput

Culprit(k) == state[k] = "done" /\ Failed(k)
Skipped(j) == output[j] = "skipped"

\* Only a failure stops, blocks or skips anything.
Blamed ==
  stop \/ blocked # {} \/ (\E j \in Jobs : Skipped(j)) => \E k \in Jobs : Culprit(k)

\* What is blocked is blocked by a culprit, or was skipped itself.
Caused ==
  ~stop => \A b \in blocked :
    \/ \E k \in Jobs : Culprit(k) /\ b \in BlockedByJob(k)
    \/ \E j \in Jobs : Skipped(j) /\ b = Id(j)

\* The summary counts the culprits, and a run that ends well is complete.
Tallied ==
  /\ result \in {"none", "ok"} =>
       ((hadError \/ failedTests > 0) <=> \E k \in Jobs : Culprit(k))
  /\ result = "ok" => \A j \in Jobs : state[j] = "done"

\* A job has a thread from its launch to its result.
Staffed ==
  \A j \in Jobs :
    /\ state[j] = "pending" => wpc[j] = "unborn"
    /\ state[j] = "finished" => wpc[j] = "exited"
    /\ state[j] = "done" => (wpc[j] = "exited" <=> ~Skipped(j))
    /\ wpc[j] = "exited" => state[j] \in {"finished", "done"}

Blame == Blamed /\ Caused /\ OnlyDescendantsSkipped /\ Tallied /\ Staffed

\* A run begins without blame.
LEMMA InitBlame == Init => Blame
<1>. SUFFICES ASSUME Init PROVE Blame
  OBVIOUS
<1>1. \A j \in Jobs : state[j] = "pending" /\ output[j] = "none" /\ wpc[j] = "unborn"
  BY DEF Init
<1>2. stop = FALSE /\ blocked = {} /\ hadError = FALSE /\ failedTests = 0 /\ result = "none"
  BY DEF Init
<1>. QED
  BY <1>1, <1>2 DEF Blame, Blamed, Caused, OnlyDescendantsSkipped, Tallied, Staffed, Culprit, Skipped

\* A job that must be skipped without fail-fast has a culprit above it.
LEMMA SkipHasCulprit ==
  ASSUME Bookkeeping, Blame, NEW j \in Jobs, MustSkip(j), ~stop
  PROVE  \E k \in Jobs : Culprit(k) /\ BlockedByJob(k) \cap Above(j) # {}
<1>. USE DEF Bookkeeping, TypeOK, RunTyped, Blame
<1>1. ASSUME NEW i \in Jobs, Skipped(i), Id(i) \in Above(j)
      PROVE  \E k \in Jobs : Culprit(k) /\ BlockedByJob(k) \cap Above(j) # {}
  <2>1. PICK k \in Jobs : Culprit(k) /\ BlockedByJob(k) \cap Above(i) # {}
    BY <1>1 DEF OnlyDescendantsSkipped, Culprit, Skipped
  <2>2. Above(i) \subseteq Above(j)
    BY <1>1, JobFacts, AboveTransitive DEF Above
  <2>. QED  BY <2>1, <2>2
<1>2. ASSUME NEW b \in blocked, b \in Above(j)
      PROVE  \E k \in Jobs : Culprit(k) /\ BlockedByJob(k) \cap Above(j) # {}
  BY <1>1, <1>2 DEF Caused
<1>3. CASE ResourceBlocked(project, Id(j), blocked)
  BY <1>2, <1>3, ResourceBlockedAbove
<1>4. ASSUME ~IsNode(j), NEW k \in wiring[j], IsNode(k), Failed(k) \/ Skipped(k)
      PROVE  \E i \in Jobs : Culprit(i) /\ BlockedByJob(i) \cap Above(j) # {}
  <2>1. k \in Jobs /\ Id(k) \in Above(j)
    BY <1>4, TestsWaitForAbove
  <2>2. CASE Skipped(k)
    BY <1>1, <2>1, <2>2
  <2>3. CASE Failed(k)
    <3>1. Culprit(k)
      BY <1>4, <2>3 DEF MustSkip, PrerequisitesDone, Culprit
    <3>2. Id(k) \in BlockedByJob(k)
      BY <1>4, <2>1, JobFacts, BlockersAreIds DEF BlockedByJob, IsNode
    <3>. QED  BY <2>1, <3>1, <3>2
  <2>. QED  BY <1>4, <2>2, <2>3
<1>. QED  BY <1>3, <1>4 DEF MustSkip, JobBlocked, Skipped

-----------------------------------------------------------------------------
(* Blame is kept. *)

\* Steps that neither settle nor skip a job.
Quiet ==
  /\ UNCHANGED <<static, stop, blocked>>
  /\ \A k \in Jobs : (Culprit(k)' <=> Culprit(k)) /\ (Skipped(k)' <=> Skipped(k))

\* A quiet step gives and takes no blame.
LEMMA QuietKeepsCauses ==
  ASSUME Blame, Quiet
  PROVE  Blamed' /\ Caused' /\ OnlyDescendantsSkipped'
<1>1. Jobs' = Jobs /\ UNCHANGED <<project, options, stop, blocked>>
  BY DEF Quiet, static, Jobs
<1>2. ASSUME NEW k \in Jobs
      PROVE  Id(k)' = Id(k) /\ Above(k)' = Above(k) /\ BlockedByJob(k)' = BlockedByJob(k)
  BY <1>1 DEF Id, Above, BlockedByJob
<1>3. Blamed'
  BY <1>1 DEF Blame, Blamed, Quiet
<1>4. Caused'
  BY <1>1, <1>2 DEF Blame, Caused, Quiet
<1>5. OnlyDescendantsSkipped'
  BY <1>1, <1>2 DEF Blame, OnlyDescendantsSkipped, Quiet, Culprit, Skipped
<1>. QED  BY <1>3, <1>4, <1>5

\* What a step of a worker does to its job.
LEMMA WorkerStaffs ==
  ASSUME Bookkeeping, Blame, NEW j \in Jobs, WorkerStep(j)
  PROVE  Quiet /\ Tallied' /\ Staffed'
<1>. USE DEF Bookkeeping, TypeOK, JobsTyped, ThreadsTyped
<1>1. UNCHANGED <<static, stop, blocked, hadError, failedTests, result>> /\ Jobs' = Jobs
  BY DEF WorkerStep, tally, control, static, Jobs
<1>2. wpc[j] \notin {"unborn", "exited"}
  BY DEF WorkerStep, Open, OpenFails, RenderOffline, Register, CheckToken,
     StartStatement, EndStatement, Interrupted, Deregister, Close, Publish
<1>3. state[j] = "running" /\ result # "ok"
  BY <1>2 DEF AliveRuns, Alive, Blame, Tallied
<1>4. CASE Publish(j)
  <2>1. /\ state' = [state EXCEPT ![j] = "finished"] /\ wpc' = [wpc EXCEPT ![j] = "exited"]
        /\ output' = [output EXCEPT ![j] = local[j]]
    BY <1>4 DEF Publish, Goto
  <2>2. output[j] # "skipped" /\ local[j] # "skipped"
    <3>1. local[j] \in Outcomes \cup {"none"}
      OBVIOUS
    <3>. QED  BY <1>3, <3>1 DEF AliveRuns, Outcomes, Failures
  <2>3. Quiet
    BY <1>1, <1>3, <2>1, <2>2 DEF Quiet, Culprit, Failed, Skipped
  <2>4. Staffed'
    BY <1>1, <1>3, <2>1, <2>2 DEF Staffed, Skipped, Blame
  <2>5. Tallied'
    BY <1>1, <1>3, <2>3 DEF Tallied, Blame, Quiet
  <2>. QED  BY <2>3, <2>4, <2>5
<1>5. CASE ~Publish(j)
  <2>1. UNCHANGED <<state, output>>
    BY <1>5 DEF WorkerStep, jobVars
  <2>2. \A k \in Jobs : k # j => wpc'[k] = wpc[k]
    BY <1>5 DEF WorkerStep, Open, OpenFails, RenderOffline, Register, CheckToken,
       StartStatement, EndStatement, Interrupted, Deregister, Close, Goto
  <2>3. wpc'[j] \notin {"unborn", "exited"}
    BY <1>5 DEF WorkerStep, Open, OpenFails, RenderOffline, Register, CheckToken,
       StartStatement, EndStatement, Interrupted, Deregister, Close, Goto
  <2>4. Quiet
    BY <1>1, <2>1 DEF Quiet, Culprit, Failed, Skipped
  <2>5. Staffed'
    BY <1>1, <1>3, <2>1, <2>2, <2>3 DEF Staffed, Skipped, Blame
  <2>6. Tallied'
    BY <1>1, <1>3, <2>4 DEF Tallied, Blame, Quiet
  <2>. QED  BY <2>4, <2>5, <2>6
<1>. QED  BY <1>4, <1>5

\* The supervisor finishes only when every job is done.
LEMMA FinishIsComplete ==
  ASSUME Bookkeeping, Finish
  PROVE  \A j \in Jobs : state[j] = "done"
<1>1. completed = Cardinality(DoneJobs) /\ completed = Len(project.jobs)
  BY DEF Bookkeeping, LoopHasNoResult, Counters, Counted, Finish, AllDone
<1>2. Len(project.jobs) \in Nat /\ IsFiniteSet(Jobs)
  BY JobFacts, ProjectsAssumption DEF WellFormed, Bookkeeping, TypeOK, RunTyped
<1>3. Cardinality(Jobs) = Len(project.jobs)
  BY <1>2, FS_Interval DEF Jobs, JobSet
<1>4. DoneJobs = Jobs
  BY <1>1, <1>2, <1>3, FS_Subset DEF DoneJobs
<1>. QED  BY <1>4 DEF DoneJobs

\* Moving the supervisor on keeps blame, and finishing finds all jobs done.
LEMMA MovesKeepBlame ==
  ASSUME Bookkeeping, Blame, Moves
  PROVE  Quiet /\ Tallied' /\ Staffed'
<1>1. UNCHANGED <<static, state, output, wpc, stop, blocked, hadError, failedTests>> /\ Jobs' = Jobs
  BY MovesKeepJobs DEF static, jobVars, tally, threads, Jobs
<1>2. result' \in {"none", "ok"} => result' = result \/ Finish
  BY DEF Moves, CollectEnds, SkipEnds, InlineReturns, LaunchEnds, Finish, NoProgress,
     NextRound, Wait, CancelAgain, Resume, PauseFails, Unwind, Return
<1>3. Finish => result = "none"
  BY DEF Finish, Bookkeeping, LoopHasNoResult
<1>4. Quiet
  BY <1>1 DEF Quiet, Culprit, Failed, Skipped
<1>5. Staffed'
  BY <1>1 DEF Blame, Staffed, Skipped
<1>6. Tallied'
  BY <1>1, <1>2, <1>3, FinishIsComplete DEF Blame, Tallied, Culprit, Failed
<1>. QED  BY <1>4, <1>5, <1>6

\* A launched job is staffed; nobody is blamed.
LEMMA LaunchKeepsBlame ==
  ASSUME Bookkeeping, Blame, Launch \/ LaunchFails
  PROVE  Quiet /\ Tallied' /\ Staffed'
<1>. USE DEF Bookkeeping, TypeOK, JobsTyped, ThreadsTyped
<1>1. /\ UNCHANGED <<static, output, stop, blocked, hadError, failedTests>> /\ Jobs' = Jobs
      /\ result = "none" /\ result' \in {"none", "failed"}
  BY DEF Launch, LaunchFails, static, Jobs, LoopHasNoResult
<1>2. PICK j \in Jobs :
        /\ state[j] = "pending"
        /\ \/ state' = [state EXCEPT ![j] = "running"] /\ wpc' = [wpc EXCEPT ![j] = "start"]
           \/ state' \in {state, [state EXCEPT ![j] = "running"]} /\ UNCHANGED wpc
  BY DEF Launch, LaunchFails, First, Launchable, Ready, threads
<1>3. Quiet
  BY <1>1, <1>2 DEF Quiet, Culprit, Failed, Skipped
<1>4. Staffed'
  BY <1>1, <1>2 DEF Blame, Staffed, Skipped
<1>5. Tallied'
  BY <1>1, <1>3 DEF Blame, Tallied, Quiet
<1>. QED  BY <1>3, <1>4, <1>5

\* A collected failure is counted, and what it blocks is its doing.
LEMMA CollectKeepsBlame ==
  ASSUME Bookkeeping, Blame, Collect
  PROVE  Blame'
<1>. USE DEF Bookkeeping, TypeOK, JobsTyped
<1>1. UNCHANGED <<static, output, wpc>> /\ Jobs' = Jobs
  BY DEF Collect, Settle, threads, static, Jobs
<1>2. PICK j \in Finished :
        /\ state' = [state EXCEPT ![j] = "done"]
        /\ Failed(j) => CountFailure(j)
        /\ ~Failed(j) => UNCHANGED <<hadError, failedTests>>
        /\ blocked' = blocked \cup (IF Failed(j) THEN BlockedByJob(j) ELSE {})
        /\ stop' # stop => Failed(j)
        /\ stop => stop'
  BY DEF Collect, First, Finished, Settle, BlockedByJob
<1>3. j \in Jobs /\ state[j] = "finished" /\ ~Skipped(j) /\ result = "none" /\ result' = "none"
  BY DEF Finished, AliveRuns, Skipped, Collect, LoopHasNoResult
<1>4. ASSUME NEW k \in Jobs
      PROVE  /\ Culprit(k)' <=> Culprit(k) \/ (k = j /\ Failed(j))
             /\ Skipped(k)' <=> Skipped(k)
             /\ Id(k)' = Id(k) /\ Above(k)' = Above(k) /\ BlockedByJob(k)' = BlockedByJob(k)
  BY <1>1, <1>2, <1>3 DEF Culprit, Failed, Skipped, Id, Above, BlockedByJob, static
<1>5. Blamed'
  BY <1>1, <1>2, <1>3, <1>4 DEF Blame, Blamed
<1>6. Caused'
  BY <1>1, <1>2, <1>3, <1>4 DEF Blame, Caused, TallyTyped
<1>7. OnlyDescendantsSkipped'
  <2>1. SUFFICES ASSUME ~stop', NEW i \in Jobs, Skipped(i)'
                 PROVE  \E k \in Jobs : Culprit(k)' /\ BlockedByJob(k)' \cap Above(i)' # {}
    BY <1>1 DEF OnlyDescendantsSkipped, Culprit, Skipped
  <2>2. ~stop /\ Skipped(i)
    BY <1>2, <1>4, <2>1
  <2>3. PICK k \in Jobs : Culprit(k) /\ BlockedByJob(k) \cap Above(i) # {}
    BY <2>2 DEF Blame, OnlyDescendantsSkipped, Culprit, Skipped
  <2>. QED  BY <1>4, <2>3
<1>8. Tallied'
  <2>1. CASE ~Failed(j)
    BY <1>1, <1>2, <1>3, <1>4, <2>1 DEF Blame, Tallied
  <2>2. CASE Failed(j)
    <3>1. hadError' \/ failedTests' > 0
      BY <1>2, <2>2 DEF CountFailure, TallyTyped
    <3>. QED  BY <1>1, <1>3, <1>4, <2>2, <3>1 DEF Tallied
  <2>. QED  BY <2>1, <2>2
<1>9. Staffed'
  BY <1>1, <1>2, <1>3, <1>4 DEF Blame, Staffed
<1>. QED  BY <1>5, <1>6, <1>7, <1>8, <1>9 DEF Blame

\* A collection that breaks off settles the job all the same.
LEMMA CollectFailsKeepsBlame ==
  ASSUME Bookkeeping, Blame, CollectFails
  PROVE  Blame'
<1>. USE DEF Bookkeeping, TypeOK, JobsTyped
<1>1. UNCHANGED <<static, output, wpc, blocked, stop>> /\ Jobs' = Jobs /\ result' = "failed"
  BY DEF CollectFails, Settle, threads, static, Jobs
<1>2. PICK j \in Finished : state' = [state EXCEPT ![j] = "done"]
  BY DEF CollectFails, First, Finished, Settle
<1>3. j \in Jobs /\ state[j] = "finished" /\ ~Skipped(j)
  BY DEF Finished, AliveRuns, Skipped
<1>4. ASSUME NEW k \in Jobs
      PROVE  /\ Culprit(k) => Culprit(k)'
             /\ Skipped(k)' <=> Skipped(k)
             /\ Id(k)' = Id(k) /\ Above(k)' = Above(k) /\ BlockedByJob(k)' = BlockedByJob(k)
  BY <1>1, <1>2, <1>3 DEF Culprit, Failed, Skipped, Id, Above, BlockedByJob, static
<1>5. Blamed'
  BY <1>1, <1>4 DEF Blame, Blamed
<1>6. Caused'
  BY <1>1, <1>4 DEF Blame, Caused
<1>7. OnlyDescendantsSkipped'
  <2>1. SUFFICES ASSUME ~stop, NEW i \in Jobs, Skipped(i)
                 PROVE  \E k \in Jobs : Culprit(k)' /\ BlockedByJob(k)' \cap Above(i)' # {}
    BY <1>1, <1>4 DEF OnlyDescendantsSkipped, Culprit, Skipped
  <2>2. PICK k \in Jobs : Culprit(k) /\ BlockedByJob(k) \cap Above(i) # {}
    BY <2>1 DEF Blame, OnlyDescendantsSkipped, Culprit, Skipped
  <2>. QED  BY <1>4, <2>2
<1>8. Staffed'
  BY <1>1, <1>2, <1>3, <1>4 DEF Blame, Staffed
<1>. QED  BY <1>1, <1>5, <1>6, <1>7, <1>8 DEF Blame, Tallied

\* A skipped job has a culprit, which is above it without fail-fast.
LEMMA SkipKeepsBlame ==
  ASSUME Bookkeeping, Blame, Skip
  PROVE  Blame'
<1>. USE DEF Bookkeeping, TypeOK, JobsTyped
<1>1. UNCHANGED <<static, wpc, stop, hadError, failedTests>> /\ Jobs' = Jobs
  BY DEF Skip, threads, static, Jobs
<1>2. PICK j \in Jobs :
        /\ MustSkip(j)
        /\ state' = [state EXCEPT ![j] = "done"]
        /\ output' = [output EXCEPT ![j] = "skipped"]
        /\ blocked' = blocked \cup {Id(j)}
  BY DEF Skip, First, Skippable
<1>3. state[j] = "pending" /\ result = "none" /\ result' = "none"
  BY <1>2 DEF MustSkip, Skip, LoopHasNoResult
<1>4. ASSUME NEW k \in Jobs
      PROVE  /\ Culprit(k)' <=> Culprit(k)
             /\ Skipped(k)' <=> Skipped(k) \/ k = j
             /\ Id(k)' = Id(k) /\ Above(k)' = Above(k) /\ BlockedByJob(k)' = BlockedByJob(k)
  BY <1>1, <1>2, <1>3 DEF Culprit, Failed, Skipped, Id, Above, BlockedByJob, static, Failures
<1>5. \E k \in Jobs : Culprit(k)
  <2>1. CASE stop
    BY <2>1 DEF Blame, Blamed
  <2>2. CASE ~stop
    BY <1>2, <2>2, SkipHasCulprit
  <2>. QED  BY <2>1, <2>2
<1>6. Blamed'
  BY <1>1, <1>4, <1>5 DEF Blamed
<1>7. Caused'
  BY <1>1, <1>2, <1>4 DEF Blame, Caused
<1>8. OnlyDescendantsSkipped'
  <2>1. SUFFICES ASSUME ~stop, NEW i \in Jobs, Skipped(i)'
                 PROVE  \E k \in Jobs : Culprit(k)' /\ BlockedByJob(k)' \cap Above(i)' # {}
    BY <1>1 DEF OnlyDescendantsSkipped, Culprit, Skipped
  <2>2. PICK k \in Jobs : Culprit(k) /\ BlockedByJob(k) \cap Above(i) # {}
    <3>1. CASE i = j
      BY <1>2, <2>1, <3>1, SkipHasCulprit
    <3>2. CASE i # j
      BY <1>4, <2>1, <3>2 DEF Blame, OnlyDescendantsSkipped, Culprit, Skipped
    <3>. QED  BY <3>1, <3>2
  <2>. QED  BY <1>4, <2>2
<1>9. Tallied'
  BY <1>1, <1>3, <1>4 DEF Blame, Tallied
<1>10. Staffed'
  BY <1>1, <1>2, <1>3, <1>4 DEF Blame, Staffed
<1>. QED  BY <1>6, <1>7, <1>8, <1>9, <1>10 DEF Blame

\* Blame is inductive, given the books.
LEMMA NextKeepsBlame ==
  ASSUME Bookkeeping, Blame, [Next]_vars
  PROVE  Blame'
<1>1. ASSUME Quiet, Tallied', Staffed' PROVE Blame'
  BY <1>1, QuietKeepsCauses DEF Blame
<1>2. CASE UNCHANGED vars
  BY <1>2 DEF vars, static, jobVars, tally, control, threads, Jobs, Id, Above, BlockedByJob, Blame, Blamed, Caused,
     OnlyDescendantsSkipped, Tallied, Staffed, Culprit, Failed, Skipped
<1>3. CASE SkipFails
  <2>1. UNCHANGED <<static, state, output, wpc, stop, blocked>> /\ Jobs' = Jobs /\ result' = "failed"
    BY <1>3 DEF SkipFails, jobVars, threads, static, Jobs
  <2>. QED  BY <1>1, <2>1 DEF Quiet, Culprit, Failed, Skipped, Tallied, Staffed, Blame
<1>. QED
  BY <1>1, <1>2, <1>3, WorkerStaffs, MovesKeepBlame, LaunchKeepsBlame, CollectKeepsBlame,
     CollectFailsKeepsBlame, SkipKeepsBlame DEF Next, Supervisor, Moves, Done

\* On every schedule, whatever fails, skips and the summary have their reasons.
THEOREM BlameIsKept == Spec => [](Bookkeeping /\ Blame)
<1>1. Bookkeeping /\ Blame /\ [Next]_vars => Blame'
  BY NextKeepsBlame
<1>. QED  BY BooksAreKept, InitBlame, <1>1, PTL DEF Spec

\* Without fail-fast, whatever is skipped is below something that failed.
THEOREM AlwaysOnlyDescendantsSkipped == Spec => []OnlyDescendantsSkipped
<1>1. Blame => OnlyDescendantsSkipped
  BY DEF Blame
<1>. QED  BY BlameIsKept, <1>1, PTL

\* A run that ends well reports a failure exactly if there was one.
THEOREM SummaryIsTruthful == Spec => []SummaryTruthful
<1>1. Bookkeeping /\ Blame => SummaryTruthful
  BY DEF Blame, Blamed, Tallied, SummaryTruthful, Culprit, Skipped
<1>. QED  BY BlameIsKept, <1>1, PTL

-----------------------------------------------------------------------------
(* The runner implements the build queue. *)

\* The queue's operators are the runner's.
LEMMA SameQueue ==
  /\ Queue!Jobs = Jobs
  /\ \A j : Queue!Id(j) = Id(j)
  /\ \A p, S : Queue!AllAncestors(p, S) = AllAncestors(p, S)
  /\ \A p, S : Queue!PhysicalDependencies(p, S) = PhysicalDependencies(p, S)
  /\ \A p, r : Queue!UnitTarget(p, r) = UnitTarget(p, r)
<1>1. Queue!Jobs = Jobs /\ \A j : Queue!Id(j) = Id(j)
  BY DEF Queue!Jobs, Queue!JobSet, Jobs, JobSet, Queue!Id, Id
<1>2. \A p, x : Queue!Closure(p, p.nodes, x) = Closure(p, p.nodes, x)
  BY DEF Queue!Closure, Queue!Closed, Queue!Ids, Queue!Resources, Closure, Closed, Ids, Resources
<1>3. \A p, x : Queue!Closure(p, p.ephemeral, x) = Closure(p, p.ephemeral, x)
  BY DEF Queue!Closure, Queue!Closed, Queue!Ids, Queue!Resources, Closure, Closed, Ids, Resources
<1>4. \A p : Queue!Ids(p) = Ids(p)
  BY DEF Queue!Ids, Queue!Resources, Ids, Resources
<1>5. Queue!Up = Up
  BY <1>2, <1>4 DEF Queue!Up, Up
<1>6. Queue!Through = Through
  BY <1>3, <1>4 DEF Queue!Through, Through
<1>7. \A p, S : Queue!AllAncestors(p, S) = AllAncestors(p, S)
  BY <1>5 DEF Queue!AllAncestors, AllAncestors
<1>8. \A p, S : Queue!PhysicalDependencies(p, S) = PhysicalDependencies(p, S)
  BY <1>6 DEF Queue!PhysicalDependencies, PhysicalDependencies
<1>9. \A p, r : Queue!UnitTarget(p, r) = UnitTarget(p, r)
  BY DEF Queue!UnitTarget, UnitTarget
<1>. QED  BY <1>1, <1>7, <1>8, <1>9

\* Nothing is in a closure but the id itself and what is above its dependencies.
LEMMA ClosureUnfolds ==
  ASSUME NEW p \in Projects, NEW x \in Resources(p)
  PROVE  AllAncestors(p, {x}) \subseteq {x} \cup AllAncestors(p, p.deps[x])
<1>. DEFINE C == {x} \cup AllAncestors(p, p.deps[x])
<1>1. x \in Ids(p) /\ p.deps[x] \in SUBSET Ids(p)
  BY DependenciesAreIds
<1>2. C \in SUBSET Ids(p) /\ p.deps[x] \subseteq C
  BY <1>1, AncestorsContain
<1>3. ASSUME NEW y \in C \cap p.nodes, NEW z \in p.deps[y]
      PROVE  z \in C
  <2>1. CASE y = x
    BY <1>2, <1>3, <2>1
  <2>2. CASE y \in AllAncestors(p, p.deps[x])
    <3>1. AllAncestors(p, p.deps[y]) \subseteq AllAncestors(p, p.deps[x])
      BY <1>1, <1>3, <2>2, AncestorsTransitive
    <3>2. y \in Resources(p)
      BY <1>3, ProjectsAssumption DEF WellFormed
    <3>. QED  BY <1>3, <3>1, <3>2, DependenciesAreIds, AncestorsContain
  <2>. QED  BY <1>3, <2>1, <2>2
<1>4. Closed(p, p.nodes, C)
  BY <1>3 DEF Closed
<1>5. Closure(p, p.nodes, x) \subseteq C
  BY <1>2, <1>4 DEF Closure
<1>. QED  BY <1>1, <1>5, Tables DEF AllAncestors

\* A resource that unit tests check is not blocked by way of a test of it.
LEMMA TestsBlockNoTests ==
  ASSUME NEW p \in Projects, NEW r \in Resources(p), NEW u \in Resources(p),
         UnitTarget(p, u) # {}
  PROVE  u \notin Blockers(p, r)
<1>1. u \notin p.nodes /\ p.deps[r] \cap Resources(p) \subseteq p.nodes /\ AttachedTo(p, r) \subseteq p.deps[r]
  BY ProjectsAssumption DEF WellFormed, UnitTarget
<1>. QED  BY <1>1 DEF Blockers, UnitTarget

\* A unit test above a ready job was not skipped.
LEMMA ReadyIsNotSkippedPast ==
  ASSUME Bookkeeping, Settled, Blame, result = "none", options.mode = "execute", ~stop,
         NEW j \in Jobs, Ready(j), IsNode(j),
         NEW k \in Jobs, UnitTarget(project, Id(k)) \cap Above(j) # {}
  PROVE  ~Skipped(k)
<1>. USE DEF Bookkeeping, TypeOK, RunTyped
<1>1. SUFFICES ASSUME Skipped(k) PROVE FALSE
  OBVIOUS
<1>2. PICK f \in Jobs : Culprit(f) /\ BlockedByJob(f) \cap Above(k) # {}
  BY <1>1 DEF Blame, OnlyDescendantsSkipped, Culprit, Skipped
<1>3. PICK b \in BlockedByJob(f) : b \in Above(k)
  BY <1>2
<1>4. b \in blocked /\ b \in Blockers(project, Id(f))
  BY <1>2, <1>3 DEF Culprit, Settled, Recorded, BlockedByJob
<1>5. PICK t \in UnitTarget(project, Id(k)) : t \in Above(j)
  OBVIOUS
<1>6. /\ Id(j) \in Resources(project) /\ Id(k) \in Resources(project) /\ Id(f) \in Resources(project)
      /\ WellFormed(project)
  BY JobFacts, ProjectsAssumption
<1>7. t \in Resources(project) /\ project.deps[Id(k)] = {t}
  BY <1>5, <1>6 DEF UnitTarget, WellFormed
<1>8. b # Id(k)
  BY <1>4, <1>5, <1>6, TestsBlockNoTests
<1>9. b \in {t} \cup AllAncestors(project, project.deps[t])
  BY <1>3, <1>7, <1>8, ClosureUnfolds DEF Above
<1>10. b \in Above(j)
  BY <1>5, <1>7, <1>9, AboveTransitive
<1>11. ResourceBlocked(project, Id(j), blocked)
  BY <1>4, <1>10 DEF Above, ResourceBlocked, BlockedBy
<1>. QED  BY <1>11 DEF Ready, JobBlocked

\* Where the queue sees a job.
LEMMA Phases ==
  ASSUME Bookkeeping, Blame, NEW j \in Jobs
  PROVE  /\ state[j] = "pending" => Phase(j) = "waiting"
         /\ Phase(j) = "running" <=> Alive(j)
         /\ Culprit(j) => Phase(j) = "failed"
         /\ state[j] = "done" /\ ~Failed(j) /\ ~Skipped(j) => Phase(j) = "succeeded"
<1>1. /\ state[j] = "pending" => wpc[j] = "unborn" /\ output[j] # "skipped"
      /\ Alive(j) => output[j] # "skipped"
      /\ state[j] = "done" => (wpc[j] = "exited" <=> output[j] # "skipped")
      /\ Failed(j) => output[j] # "skipped"
  BY DEF Bookkeeping, AliveRuns, Blame, Staffed, Skipped, Failed, Failures
<1>. QED  BY <1>1 DEF Phase, Alive, Culprit, Skipped

\* The steps the queue does not see.
LEMMA QueueStutters ==
  ASSUME UNCHANGED static, \A k \in Jobs : Phase(k)' = Phase(k),
         sup' = "returned" <=> sup = "returned"
  PROVE  UNCHANGED Queue!vars
<1>1. Jobs' = Jobs /\ UNCHANGED <<project, options>>
  BY DEF static, Jobs
<1>2. [k \in Jobs |-> Phase(k)]' = [k \in Jobs |-> Phase(k)]
  BY <1>1
<1>3. (sup = "returned")' = (sup = "returned")
  OBVIOUS
<1>. QED  BY <1>1, <1>2, <1>3, Zenon DEF Queue!vars

\* The steps that take one job to its next phase.
LEMMA QueueAdvances ==
  ASSUME UNCHANGED static, NEW j \in Jobs, \A k \in Jobs : k # j => Phase(k)' = Phase(k)
  PROVE  [k \in Jobs |-> Phase(k)]' = [[k \in Jobs |-> Phase(k)] EXCEPT ![j] = Phase(j)']
<1>1. Jobs' = Jobs
  BY DEF static, Jobs
<1>. QED  BY <1>1

\* Steps that start, end and skip nothing and do not return.
Unseen ==
  /\ UNCHANGED <<static, output>>
  /\ \A k \in Jobs : (wpc'[k] = "unborn" <=> wpc[k] = "unborn")
                     /\ (wpc'[k] = "exited" <=> wpc[k] = "exited")
  /\ sup' = "returned" <=> sup = "returned"

\* The queue does not see them.
LEMMA UnseenStutters == ASSUME Unseen PROVE UNCHANGED Queue!vars
<1>1. \A k \in Jobs : Phase(k)' = Phase(k)
  BY DEF Unseen, Phase, Failed, Alive
<1>. QED  BY <1>1, QueueStutters DEF Unseen

\* The queue counts as the runner does.
LEMMA SameCardinality == ASSUME NEW S PROVE Queue!Cardinality(S) = Cardinality(S)
BY DEF Queue!Cardinality, Cardinality

\* A launch starts a job of the queue.
LEMMA LaunchStarts ==
  ASSUME Bookkeeping, Ordered, Blame, Launch
  PROVE  Queue!Next
<1>. USE DEF Bookkeeping, TypeOK, RunTyped, JobsTyped, ThreadsTyped
<1>1. /\ UNCHANGED <<static, output>> /\ result = "none"
      /\ sup # "returned" /\ sup' # "returned"
  BY DEF Launch, LoopHasNoResult
<1>2. PICK j \in Launchable : wpc' = [wpc EXCEPT ![j] = "start"]
  BY DEF Launch, First
<1>. j \in Jobs /\ Ready(j) /\ ~stop /\ ~(active >= options.threads)
  BY DEF Launchable
<1>3. state[j] = "pending" /\ Phase(j) = "waiting"
  BY <1>2, Phases DEF Ready
<1>4. output[j] # "skipped"
  BY <1>3 DEF AliveRuns
<1>5. Phase(j)' = "running" /\ \A k \in Jobs : k # j => Phase(k)' = Phase(k)
  BY <1>1, <1>2, <1>4 DEF Phase, Failed, Alive
<1>6. [k \in Jobs |-> Phase(k)]' = [[k \in Jobs |-> Phase(k)] EXCEPT ![j] = "running"]
  BY <1>1, <1>5, QueueAdvances
<1>7. Cardinality(Queue!In("running")) < options.threads
  <2>1. Queue!In("running") \subseteq InFlight
    BY SameQueue, Phases DEF Queue!In, AliveRuns, InFlight
  <2>2. IsFiniteSet(InFlight) /\ active = Cardinality(InFlight)
    BY <1>1, JobFacts, FS_Subset DEF InFlight, Counters, Counted
  <2>3. options.threads \in Nat
    BY RunnerAssumption
  <2>4. active \in Nat /\ Cardinality(Queue!In("running")) \in Nat
    BY <2>1, <2>2, FS_Subset, FS_CardinalityType DEF TallyTyped
  <2>5. Cardinality(Queue!In("running")) <= active
    BY <2>1, <2>2, FS_Subset
  <2>. QED  BY <2>3, <2>4, <2>5
<1>8. ASSUME NEW k \in Jobs, Queue!ReadsFrom(j, k)
      PROVE  Phase(k) = "succeeded"
  <2>1. IsNode(k) /\ Id(k) \in PhysicalDependencies(project, project.deps[Id(j)]) \ UnitTarget(project, Id(j))
    BY <1>8, SameQueue DEF Queue!ReadsFrom, IsNode
  <2>2. state[k] = "done" /\ output[k] \notin Failures \cup {"skipped"}
    BY <1>1, <1>2, <2>1, ReadyReadsSuccesses DEF Ordered
  <2>. QED  BY <2>2, Phases DEF Failed, Skipped
<1>9. ASSUME NEW k \in Jobs, Queue!GatedByUnit(j, k)
      PROVE  Phase(k) = "succeeded"
  <2>1. options.mode = "execute" /\ IsNode(j) /\ UnitTarget(project, Id(k)) \cap Above(j) # {}
    BY <1>9, SameQueue DEF Queue!GatedByUnit, IsNode, Above
  <2>2. ~IsNode(k) /\ Blockers(project, Id(k)) = UnitTarget(project, Id(k))
    BY <2>1 DEF UnitTarget, Blockers, IsNode
  <2>3. state[k] = "done"
    BY <1>2, <2>1, <2>2, ReadyWaitsForTests
  <2>4. ~Failed(k)
    BY <1>1, <1>2, <2>1, <2>2, <2>3, ReadyIsNotBlocked DEF Ordered
  <2>5. ~Skipped(k)
    BY <1>1, <1>2, <2>1, ReadyIsNotSkippedPast DEF Ordered
  <2>. QED  BY <2>3, <2>4, <2>5, Phases
<1>10. Queue!Start(j)
  BY <1>1, <1>3, <1>6, <1>7, <1>8, <1>9, SameQueue, SameCardinality DEF Queue!Start
<1>. QED  BY <1>1, <1>10, SameQueue DEF Queue!Next, static

\* A skip of the runner is one of the queue: something has failed.
LEMMA SkipSkips ==
  ASSUME Bookkeeping, Blame, Skip
  PROVE  Queue!Next
<1>. USE DEF Bookkeeping, TypeOK, RunTyped, JobsTyped, ThreadsTyped
<1>1. UNCHANGED <<static, wpc>> /\ sup # "returned" /\ sup' # "returned"
  BY DEF Skip, threads
<1>2. PICK j \in Jobs : MustSkip(j) /\ output' = [output EXCEPT ![j] = "skipped"]
  BY DEF Skip, First, Skippable
<1>3. Phase(j) = "waiting"
  BY <1>2, Phases DEF MustSkip
<1>4. Phase(j)' = "skipped" /\ \A k \in Jobs : k # j => Phase(k)' = Phase(k)
  BY <1>1, <1>2 DEF Phase, Failed, Alive
<1>5. [k \in Jobs |-> Phase(k)]' = [[k \in Jobs |-> Phase(k)] EXCEPT ![j] = "skipped"]
  BY <1>1, <1>4, QueueAdvances
<1>6. PICK k \in Jobs : Culprit(k)
  BY <1>2, SkipHasCulprit DEF Blame, Blamed
<1>7. Queue!In("failed") # {}
  BY <1>6, SameQueue, Phases DEF Queue!In
<1>8. Queue!SkipOne(j)
  BY <1>1, <1>3, <1>5, <1>7, SameQueue DEF Queue!SkipOne
<1>. QED  BY <1>1, <1>8, SameQueue DEF Queue!Next, static

\* Publishing a result ends a job of the queue.
LEMMA PublishEnds ==
  ASSUME Bookkeeping, Blame, Handover, NEW j \in Jobs, Publish(j), UNCHANGED <<static, control>>
  PROVE  Queue!Next
<1>. USE DEF Bookkeeping, TypeOK, RunTyped, JobsTyped, ThreadsTyped
<1>1. /\ wpc[j] = "publishing" /\ wpc' = [wpc EXCEPT ![j] = "exited"]
      /\ output' = [output EXCEPT ![j] = local[j]] /\ local[j] # "skipped"
  BY DEF Publish, Goto, Outcomes, Failures
<1>2. Alive(j) /\ sup # "returned" /\ sup' # "returned"
  BY <1>1 DEF Alive, Handover, control
<1>3. Phase(j) = "running"
  BY <1>2, Phases
<1>4. Phase(j)' \in {"succeeded", "failed"} /\ \A k \in Jobs : k # j => Phase(k)' = Phase(k)
  BY <1>1 DEF Phase, Failed, Alive
<1>5. [k \in Jobs |-> Phase(k)]' = [[k \in Jobs |-> Phase(k)] EXCEPT ![j] = Phase(j)']
  BY <1>4, QueueAdvances
<1>6. Queue!End(j)
  BY <1>2, <1>3, <1>4, <1>5, SameQueue DEF Queue!End
<1>. QED  BY <1>2, <1>6, SameQueue DEF Queue!Next, static

\* Returning closes the queue.
LEMMA ReturnCloses ==
  ASSUME Bookkeeping, Blame, Return
  PROVE  Queue!Next
<1>1. UNCHANGED <<static, output, wpc>> /\ Jobs' = Jobs /\ sup # "returned" /\ sup' = "returned"
  BY DEF Return, jobVars, threads, static, Jobs
<1>2. \A k \in Jobs : Phase(k)' = Phase(k)
  BY <1>1 DEF Phase, Failed, Alive
<1>3. [k \in Jobs |-> Phase(k)]' = [k \in Jobs |-> Phase(k)]
  BY <1>1, <1>2
<1>4. Queue!In("running") = {}
  BY SameQueue, Phases DEF Queue!In, Return
<1>5. Queue!Close
  BY <1>1, <1>4 DEF Queue!Close
<1>. QED  BY <1>1, <1>3, <1>5 DEF Queue!Next, static

\* Every step of the runner is a step of the queue, or none.
LEMMA NextIsQueued ==
  ASSUME Bookkeeping, Handover, Ordered, Blame, [Next]_vars
  PROVE  [Queue!Next]_(Queue!vars)
<1>1. CASE \E j \in Jobs : WorkerStep(j)
  <2>1. PICK j \in Jobs : WorkerStep(j)
    BY <1>1
  <2>2. UNCHANGED <<static, control>>
    BY <2>1 DEF WorkerStep
  <2>3. CASE Publish(j)
    BY <2>2, <2>3, PublishEnds
  <2>4. CASE ~Publish(j)
    <3>1. UNCHANGED output
      BY <2>1, <2>4 DEF WorkerStep, jobVars
    <3>2. \A k \in Jobs : k # j => wpc'[k] = wpc[k]
      BY <2>1, <2>4 DEF WorkerStep, Open, OpenFails, RenderOffline, Register, CheckToken,
         StartStatement, EndStatement, Interrupted, Deregister, Close, Goto,
         Bookkeeping, TypeOK, ThreadsTyped
    <3>3. wpc[j] \notin {"unborn", "exited"} /\ wpc'[j] \notin {"unborn", "exited"}
      BY <2>1, <2>4 DEF WorkerStep, Open, OpenFails, RenderOffline, Register, CheckToken,
         StartStatement, EndStatement, Interrupted, Deregister, Close, Goto,
         Bookkeeping, TypeOK, ThreadsTyped
    <3>4. Unseen
      BY <2>2, <3>1, <3>2, <3>3 DEF Unseen, control
    <3>. QED  BY <3>4, UnseenStutters
  <2>. QED  BY <2>3, <2>4
<1>2. CASE Launch
  BY <1>2, LaunchStarts
<1>3. CASE Skip
  BY <1>3, SkipSkips
<1>4. CASE Return
  BY <1>4, ReturnCloses
<1>5. CASE Moves /\ ~Return
  <2>1. UNCHANGED <<static, output, wpc>>
    BY <1>5, MovesKeepJobs DEF jobVars, threads
  <2>2. sup' = "returned" <=> sup = "returned"
    BY <1>5 DEF Moves, CollectEnds, SkipEnds, InlineReturns, LaunchEnds, Finish, NoProgress,
       NextRound, Wait, CancelAgain, Resume, PauseFails, Unwind
  <2>3. Unseen
    BY <2>1, <2>2 DEF Unseen
  <2>. QED  BY <2>3, UnseenStutters
<1>6. CASE Collect \/ CollectFails \/ SkipFails \/ LaunchFails
  <2>1. UNCHANGED <<static, output, wpc>> /\ sup # "returned" /\ sup' # "returned"
    BY <1>6 DEF Collect, CollectFails, SkipFails, LaunchFails, Settle, jobVars, threads
  <2>2. Unseen
    BY <2>1 DEF Unseen
  <2>. QED  BY <2>2, UnseenStutters
<1>7. CASE UNCHANGED vars
  <2>1. Unseen
    BY <1>7 DEF Unseen, vars, jobVars, threads, control
  <2>. QED  BY <2>1, UnseenStutters
<1>. QED
  BY <1>1, <1>2, <1>3, <1>4, <1>5, <1>6, <1>7 DEF Next, Supervisor, Moves, Done

\* A run begins as a queue in which every job waits.
LEMMA InitIsQueued == Init => Queue!Init
<1>. SUFFICES ASSUME Init PROVE Queue!Init
  OBVIOUS
<1>1. \A j \in Jobs : Phase(j) = "waiting"
  BY DEF Init, Phase
<1>2. project \in Projects /\ options.mode \in Modes /\ options.threads \in ThreadCounts /\ sup # "returned"
  BY RunnerAssumption DEF Init
<1>. QED  BY <1>1, <1>2, SameQueue DEF Queue!Init, Queue!Modes, Modes

\* The runner implements the build queue: on every schedule, and whatever
\* fails, each job runs once or is skipped, reads only what succeeded, waits
\* for the unit tests above it, and nothing runs after the end.
THEOREM RunnerImplementsQueue == Spec => ImplementsQueue
<1>1. Bookkeeping /\ Handover /\ Ordered /\ Blame /\ [Next]_vars => [Queue!Next]_(Queue!vars)
  BY NextIsQueued
<1>. QED
  BY BlameIsKept, SessionsAreHandedOver, BuildIsOrdered, InitIsQueued, <1>1, PTL
     DEF Spec, ImplementsQueue, Queue!Spec

-----------------------------------------------------------------------------
(* Cycles.  The runner gives up with "cyclic dependency" only if the edges  *)
(* it drew itself, from tests to the nodes they gate, close a cycle.        *)

\* A set of numbers that is not empty has a least element.
LEMMA Least ==
  ASSUME NEW T \in SUBSET Nat, T # {}
  PROVE  \E n \in T : \A m \in T : n <= m
<1>. DEFINE Initial == {0..n : n \in T}
<1>1. Initial \subseteq FiniteSubsetsOf(Nat) /\ Initial # {}
  <2>1. \A n \in T : 0..n \in SUBSET Nat /\ IsFiniteSet(0..n)
    BY FS_Interval
  <2>. QED  BY <2>1 DEF FiniteSubsetsOf
<1>2. PICK I \in Initial : \A J \in Initial : <<J, I>> \notin StrictSubsetOrdering(Nat)
  <2>. DEFINE R == StrictSubsetOrdering(Nat)  F == FiniteSubsetsOf(Nat)
  <2>1. IsWellFoundedOn(R, F)
    BY FS_StrictSubsetOrderingWellFounded
  <2>. HIDE DEF R, F, Initial
  <2>. QED  BY <1>1, <2>1, WFMin DEF F, R
<1>3. PICK n \in T : I = 0..n
  BY <1>2
<1>4. ASSUME NEW m \in T, m < n PROVE FALSE
  <2>1. 0..m \in SUBSET Nat /\ 0..n \in SUBSET Nat /\ 0..m \subseteq 0..n
    BY <1>4
  <2>2. n \in 0..n /\ n \notin 0..m
    BY <1>4
  <2>3. <<0..m, 0..n>> \in StrictSubsetOrdering(Nat)
    BY <2>1, <2>2 DEF StrictSubsetOrdering
  <2>. QED  BY <1>2, <1>3, <2>3
<1>. QED  BY <1>4

\* No set of jobs waits for itself.
Untangled == \A S \in SUBSET Jobs : S # {} => \E j \in S : wiring[j] \cap S = {}

\* In a build, a data test that depends on several resources.
Several(j) ==
  /\ options.mode = "execute" /\ IsDataTest(project, Id(j))
  /\ \E d, e \in project.deps[Id(j)] : d # e

\* What a job is about, and whether other jobs may wait for it.
Subject(j) ==
  IF IsNode(j) THEN {Id(j)}
  ELSE IF project.kind[Id(j)] = "unit" THEN UnitTarget(project, Id(j))
  ELSE project.deps[Id(j)]

\* The selected nodes that come before the job: strictly above a node or a unit
\* test's model, and those a data test depends on.
Before(j) ==
  {k \in Jobs : Id(k) \in UNION {AllAncestors(project, project.deps[r]) :
     r \in IF project.kind[Id(j)] = "unit" THEN UnitTarget(project, Id(j)) ELSE {Id(j)}}}

\* Tests of what a node depends on come before tests of the node, and these
\* before the node.
Level(j) ==
  3 * Cardinality(Before(j)) + (IF IsNode(j) THEN 2 ELSE IF project.kind[Id(j)] = "unit" THEN 1 ELSE 0)

LEMMA LevelType ==
  ASSUME project \in Projects, NEW j \in Jobs
  PROVE  Level(j) \in Nat /\ IsFiniteSet(Before(j))
<1>1. IsFiniteSet(Before(j))
  BY JobFacts, FS_Subset DEF Before
<1>2. Cardinality(Before(j)) \in Nat
  BY <1>1, FS_CardinalityType
<1>. QED  BY <1>1, <1>2 DEF Level

\* Only nodes are read, and only tests with a subject gate.
LEMMA WaitsForSubjects ==
  ASSUME project \in Projects, Wired, NEW j \in Jobs, NEW k \in wiring[j]
  PROVE  /\ k \in Jobs
         /\ \/ IsNode(k) /\ Id(k) \in PhysicalDependencies(project, project.deps[Id(j)])
                                      \ UnitTarget(project, Id(j))
            \/ IsNode(k) /\ \E t \in UnitTarget(project, Id(j)) :
                 Id(k) \in PhysicalDependencies(project, project.deps[t])
            \/ options.mode = "execute" /\ UnitGates(project, Id(j), Id(k))
            \/ options.mode = "execute" /\ UnitChain(project, j, k)
            \/ options.mode = "execute" /\ DataTestGates(project, Id(j), Id(k))
<1>1. Id(j) \in Resources(project) /\ WellFormed(project)
  BY JobFacts, ProjectsAssumption
<1>2. k \in Jobs
  BY DEF Wired, Prerequisites, Jobs
<1>3. Id(k) \in Resources(project)
  BY <1>2, JobFacts
<1>4. ASSUME NEW r \in Resources(project), Id(k) \in PhysicalDependencies(project, project.deps[r])
      PROVE  IsNode(k)
  <2>1. Id(k) \in AllAncestors(project, project.deps[r])
    BY <1>4, DependenciesAreIds, PhysicalAreAncestors
  <2>2. Id(k) \in project.nodes
    BY <1>3, <2>1, OnlyNodesAndSourcesAbove
  <2>. QED  BY <1>1, <1>3, <2>2 DEF WellFormed, IsNode
<1>5. \A t \in UnitTarget(project, Id(j)) : t \in Resources(project)
  BY <1>1 DEF UnitTarget, WellFormed
<1>. QED
  BY <1>1, <1>2, <1>4, <1>5 DEF Wired, Prerequisites, NeedsOutput, Jobs, Id

\* More comes before a job than before a node that comes before it.
LEMMA NodesBefore ==
  ASSUME project \in Projects, NoCycle(project), NEW j \in Jobs, NEW k \in Before(j), IsNode(k)
  PROVE  Level(k) < Level(j)
<1>. DEFINE Roots == IF project.kind[Id(j)] = "unit" THEN UnitTarget(project, Id(j)) ELSE {Id(j)}
<1>1. k \in Jobs /\ Id(k) \in Resources(project) /\ Id(j) \in Resources(project) /\ WellFormed(project)
  BY JobFacts, ProjectsAssumption DEF Before
<1>2. PICK r \in Roots : Id(k) \in AllAncestors(project, project.deps[r])
  BY DEF Before
<1>3. r \in Resources(project) /\ Id(k) \in project.nodes
  BY <1>1, <1>2 DEF WellFormed, IsNode, UnitTarget
<1>4. AllAncestors(project, project.deps[Id(k)]) \subseteq AllAncestors(project, project.deps[r])
  BY <1>2, <1>3, DependenciesAreIds, AncestorsTransitive
<1>5. Before(k) = {i \in Jobs : Id(i) \in AllAncestors(project, project.deps[Id(k)])}
  BY DEF Before, IsNode
<1>6. Before(k) \subseteq Before(j)
  BY <1>2, <1>4, <1>5 DEF Before
<1>7. k \notin Before(k)
  BY <1>1, <1>5 DEF NoCycle
<1>8. /\ IsFiniteSet(Before(j)) /\ Cardinality(Before(k)) \in Nat /\ Cardinality(Before(j)) \in Nat
      /\ IsFiniteSet(Before(k))
  BY <1>1, LevelType, FS_CardinalityType
<1>9. Cardinality(Before(k)) < Cardinality(Before(j))
  BY <1>6, <1>7, <1>8, FS_Subset
<1>. QED  BY <1>8, <1>9 DEF Level

\* A unit test reads what comes strictly before its model.
LEMMA UnitsRead ==
  ASSUME project \in Projects, NEW j \in Jobs, project.kind[Id(j)] = "unit",
         NEW k \in Jobs, IsNode(k),
         \/ Id(k) \in PhysicalDependencies(project, project.deps[Id(j)]) \ UnitTarget(project, Id(j))
         \/ \E t \in UnitTarget(project, Id(j)) :
              Id(k) \in PhysicalDependencies(project, project.deps[t])
  PROVE  k \in Before(j)
<1>1. /\ Id(j) \in Resources(project) /\ Id(k) \in Resources(project) /\ WellFormed(project)
      /\ project.deps[Id(j)] = {project.target[Id(j)]} /\ Id(k) \in project.nodes
      /\ project.target[Id(j)] \in Ids(project)
  BY JobFacts, ProjectsAssumption, DependenciesAreIds DEF WellFormed, IsNode
<1>2. ASSUME NEW t \in UnitTarget(project, Id(j)),
             Id(k) \in PhysicalDependencies(project, project.deps[t])
      PROVE  k \in Before(j)
  <2>1. t \in Resources(project)
    BY <1>1 DEF UnitTarget, WellFormed
  <2>. QED  BY <1>2, <2>1, DependenciesAreIds, PhysicalAreAncestors DEF Before
<1>3. CASE Id(k) \in PhysicalDependencies(project, project.deps[Id(j)]) \ UnitTarget(project, Id(j))
  <2>. DEFINE x == project.target[Id(j)]
  <2>1. Id(k) \in AllAncestors(project, {x})
    BY <1>1, <1>3, PhysicalAreAncestors
  <2>2. CASE x \in project.nodes
    <3>1. UnitTarget(project, Id(j)) = {x} /\ x \in Resources(project)
      BY <1>1, <2>2 DEF UnitTarget, WellFormed
    <3>2. Id(k) \in AllAncestors(project, project.deps[x])
      BY <1>3, <2>1, <3>1, ClosureUnfolds
    <3>. QED  BY <3>1, <3>2 DEF Before
  <2>3. CASE x \notin project.nodes
    <3>1. Closed(project, project.nodes, {x})
      BY <2>3 DEF Closed
    <3>2. AllAncestors(project, {x}) = Closure(project, project.nodes, x)
      BY <1>1, Tables DEF AllAncestors
    <3>3. Closure(project, project.nodes, x) \subseteq {x}
      BY <1>1, <3>1 DEF Closure
    <3>. QED  BY <1>1, <2>1, <2>3, <3>2, <3>3
  <2>. QED  BY <2>2, <2>3
<1>. QED  BY <1>2, <1>3

\* A job waits for jobs of lower levels, and for earlier unit tests of its model.
LEMMA WaitsDownwards ==
  ASSUME project \in Projects, NoCycle(project), Wired,
         NEW j \in Jobs, NEW k \in wiring[j], ~Several(k)
  PROVE  k \in Jobs /\ (Level(k) < Level(j) \/ (Level(k) = Level(j) /\ k < j))
<1>1. /\ Id(j) \in Resources(project) /\ WellFormed(project)
      /\ k \in Jobs /\ Id(k) \in Resources(project)
  BY JobFacts, ProjectsAssumption, WaitsForSubjects
<1>2. ASSUME NEW r \in Resources(project), Id(k) \in PhysicalDependencies(project, project.deps[r])
      PROVE  Id(k) \in AllAncestors(project, project.deps[r])
  BY <1>2, DependenciesAreIds, PhysicalAreAncestors
<1>3. CASE IsNode(k) /\ \/ Id(k) \in PhysicalDependencies(project, project.deps[Id(j)])
                                     \ UnitTarget(project, Id(j))
                        \/ \E t \in UnitTarget(project, Id(j)) :
                             Id(k) \in PhysicalDependencies(project, project.deps[t])
  <2>1. k \in Before(j)
    <3>1. CASE project.kind[Id(j)] = "unit"
      BY <1>1, <1>3, <3>1, UnitsRead
    <3>2. CASE project.kind[Id(j)] # "unit"
      BY <1>1, <1>2, <1>3, <3>2 DEF Before, UnitTarget
    <3>. QED  BY <3>1, <3>2
  <2>. QED  BY <1>1, <1>3, <2>1, NodesBefore
<1>4. ASSUME Before(k) \subseteq Before(j)
      PROVE  /\ Cardinality(Before(k)) \in Nat /\ Cardinality(Before(j)) \in Nat
             /\ Cardinality(Before(k)) <= Cardinality(Before(j))
  BY <1>1, <1>4, LevelType, FS_Subset, FS_CardinalityType
<1>5. CASE UnitGates(project, Id(j), Id(k))
  <2>1. PICK t \in UnitTarget(project, Id(k)) :
          Id(j) = t \/ t \in AllAncestors(project, project.deps[Id(j)])
    BY <1>5 DEF UnitGates, BlockedBy
  <2>2. project.kind[Id(k)] = "unit" /\ UnitTarget(project, Id(k)) = {t} /\ t \in project.nodes
    BY <2>1 DEF UnitTarget
  <2>3. AllAncestors(project, project.deps[t]) \subseteq AllAncestors(project, project.deps[Id(j)])
    BY <1>1, <2>1, <2>2, DependenciesAreIds, AncestorsTransitive
  <2>4. Before(k) \subseteq Before(j) /\ IsNode(j)
    BY <1>5, <2>2, <2>3 DEF Before, UnitGates, IsNode
  <2>5. ~IsNode(k)
    BY <2>2 DEF IsNode
  <2>. QED  BY <1>1, <1>4, <2>2, <2>4, <2>5 DEF Level
<1>6. CASE UnitChain(project, j, k)
  <2>1. /\ project.kind[Id(j)] = "unit" /\ project.kind[Id(k)] = "unit" /\ k < j
        /\ UnitTarget(project, Id(j)) = UnitTarget(project, Id(k))
    BY <1>6 DEF UnitChain, UnitTarget, Id
  <2>. QED  BY <1>1, <2>1 DEF Level, Before, IsNode
<1>7. CASE options.mode = "execute" /\ DataTestGates(project, Id(j), Id(k))
  <2>1. PICK x \in project.deps[Id(k)] : x \in AllAncestors(project, project.deps[Id(j)])
    BY <1>7 DEF DataTestGates, BlockedBy
  <2>2. project.deps[Id(k)] = {x}
    BY <1>7, <2>1 DEF Several, DataTestGates
  <2>3. AllAncestors(project, {x}) \subseteq AllAncestors(project, project.deps[Id(j)])
    BY <1>1, <2>1, DependenciesAreIds, AncestorsTransitive
  <2>4. IsNode(j) /\ ~IsNode(k) /\ project.kind[Id(k)] # "unit"
    BY <1>7 DEF DataTestGates, IsDataTest, IsNode
  <2>5. Before(k) \subseteq Before(j)
    BY <2>2, <2>3, <2>4 DEF Before, IsNode
  <2>. QED  BY <1>1, <1>4, <2>4, <2>5 DEF Level
<1>. QED  BY <1>1, <1>3, <1>5, <1>6, <1>7, WaitsForSubjects

\* Without tests of several resources no set of jobs waits for itself.
LEMMA LowestWaitsForNone ==
  ASSUME project \in Projects, NoCycle(project), Wired,
         NEW S \in SUBSET Jobs, S # {}, \A j \in S : ~Several(j)
  PROVE  \E j \in S : wiring[j] \cap S = {}
<1>1. \A j \in S : Level(j) \in Nat /\ j \in Nat
  BY LevelType, JobFacts
<1>2. PICK m \in {Level(j) : j \in S} : \A n \in {Level(j) : j \in S} : m <= n
  <2>. DEFINE T == {Level(j) : j \in S}
  <2>1. T \in SUBSET Nat /\ T # {}
    BY <1>1
  <2>. HIDE DEF T
  <2>. QED  BY <2>1, Least DEF T
<1>. DEFINE Lowest == {j \in S : Level(j) = m}
<1>3. PICK j \in Lowest : \A k \in Lowest : j <= k
  <2>1. Lowest \in SUBSET Nat /\ Lowest # {}
    BY <1>1, <1>2
  <2>. HIDE DEF Lowest
  <2>. QED  BY <2>1, Least
<1>4. ASSUME NEW k \in wiring[j], k \in S PROVE FALSE
  <2>1. Level(k) < Level(j) \/ (Level(k) = Level(j) /\ k < j)
    BY <1>3, <1>4, WaitsDownwards
  <2>2. Level(j) = m /\ m <= Level(k) /\ Level(k) \in Nat /\ m \in Nat
    BY <1>1, <1>2, <1>3, <1>4
  <2>. QED  BY <1>1, <1>3, <1>4, <2>1, <2>2
<1>. QED  BY <1>3, <1>4

\* At most one test of a build spans several resources.
OneSpans == \A j, k \in Jobs : Several(j) /\ Several(k) => j = k

\* What is about ids above a test waits for what is about such ids, except for
\* tests that span.
LEMMA StaysAbove ==
  ASSUME project \in Projects, Wired, NEW A, NEW r \in Resources(project),
         A = AllAncestors(project, project.deps[r]),
         NEW j \in Jobs, Subject(j) \subseteq A, NEW k \in wiring[j], ~Several(k)
  PROVE  Subject(k) \subseteq A
<1>1. /\ Id(j) \in Resources(project) /\ WellFormed(project)
      /\ k \in Jobs /\ Id(k) \in Resources(project)
      /\ project.deps[r] \in SUBSET Ids(project)
  BY JobFacts, ProjectsAssumption, WaitsForSubjects, DependenciesAreIds
<1>2. ASSUME NEW y \in A, y \in project.nodes
      PROVE  /\ y \in Resources(project) /\ project.deps[y] \in SUBSET Ids(project)
             /\ AllAncestors(project, project.deps[y]) \subseteq A
  BY <1>1, <1>2, AncestorsTransitive, DependenciesAreIds DEF WellFormed
<1>3. ASSUME IsNode(k), Id(k) \in PhysicalDependencies(project, project.deps[Id(j)])
      PROVE  Subject(k) \subseteq A
  <2>1. Id(k) \in AllAncestors(project, project.deps[Id(j)])
    BY <1>1, <1>3, DependenciesAreIds, PhysicalAreAncestors
  <2>2. CASE IsNode(j)
    BY <1>1, <1>2, <1>3, <2>1, <2>2 DEF Subject, IsNode, WellFormed
  <2>3. CASE ~IsNode(j) /\ project.deps[Id(j)] \subseteq A
    <3>1. PICK x \in project.deps[Id(j)] : Id(k) \in Up[project][x]
      BY <2>1 DEF AllAncestors
    <3>2. Id(k) \in AllAncestors(project, {x})
      BY <3>1 DEF AllAncestors
    <3>3. AllAncestors(project, {x}) \subseteq A
      BY <1>1, <2>3, <3>1, AncestorsTransitive
    <3>. QED  BY <1>3, <3>2, <3>3 DEF Subject
  <2>4. CASE project.kind[Id(j)] = "unit" /\ UnitTarget(project, Id(j)) = {}
    <3>. DEFINE x == project.target[Id(j)]
    <3>1. x \notin project.nodes /\ project.deps[Id(j)] = {x} /\ x \in Ids(project)
      BY <1>1, <2>4, DependenciesAreIds DEF UnitTarget, WellFormed
    <3>2. Closed(project, project.nodes, {x})
      BY <3>1 DEF Closed
    <3>3. Closure(project, project.nodes, x) \subseteq {x}
      BY <3>1, <3>2 DEF Closure
    <3>4. AllAncestors(project, {x}) = Closure(project, project.nodes, x)
      BY <3>1, Tables DEF AllAncestors
    <3>. QED  BY <1>1, <1>3, <2>1, <3>1, <3>3, <3>4 DEF IsNode, WellFormed
  <2>5. CASE project.kind[Id(j)] = "unit" /\ UnitTarget(project, Id(j)) # {}
    BY <1>1, <2>3, <2>5 DEF UnitTarget, WellFormed, Subject, IsNode
  <2>. QED  BY <2>2, <2>3, <2>4, <2>5 DEF Subject
<1>4. ASSUME IsNode(k), NEW t \in UnitTarget(project, Id(j)),
             Id(k) \in PhysicalDependencies(project, project.deps[t])
      PROVE  Subject(k) \subseteq A
  <2>1. t \in A /\ t \in project.nodes
    BY <1>4 DEF UnitTarget, Subject, IsNode
  <2>2. Id(k) \in AllAncestors(project, project.deps[t])
    BY <1>2, <1>4, <2>1, PhysicalAreAncestors
  <2>. QED  BY <1>2, <1>4, <2>1, <2>2 DEF Subject
<1>5. CASE UnitGates(project, Id(j), Id(k))
  <2>1. PICK t \in UnitTarget(project, Id(k)) :
          Id(j) = t \/ t \in AllAncestors(project, project.deps[Id(j)])
    BY <1>5 DEF UnitGates, BlockedBy
  <2>2. IsNode(j) /\ Id(j) \in A /\ Id(j) \in project.nodes
    BY <1>1, <1>5 DEF UnitGates, IsNode, Subject, WellFormed
  <2>3. t \in A
    BY <1>2, <2>1, <2>2
  <2>. QED  BY <2>1, <2>3 DEF Subject, UnitTarget, IsNode
<1>6. CASE UnitChain(project, j, k)
  BY <1>6 DEF UnitChain, Subject, UnitTarget, IsNode, Id
<1>7. CASE options.mode = "execute" /\ DataTestGates(project, Id(j), Id(k))
  <2>1. PICK x \in project.deps[Id(k)] : x \in AllAncestors(project, project.deps[Id(j)])
    BY <1>7 DEF DataTestGates, BlockedBy
  <2>2. project.deps[Id(k)] = {x}
    BY <1>7, <2>1 DEF Several, DataTestGates
  <2>3. IsNode(j) /\ Id(j) \in A /\ Id(j) \in project.nodes
    BY <1>1, <1>7 DEF DataTestGates, IsNode, Subject, WellFormed
  <2>. QED  BY <1>2, <1>7, <2>1, <2>2, <2>3 DEF Subject, DataTestGates, IsDataTest, IsNode
<1>. QED  BY <1>3, <1>4, <1>5, <1>6, <1>7, WaitsForSubjects

\* A node above a test that spans does not wait for it: it would be a cycle.
LEMMA SpanningGatesNoneAbove ==
  ASSUME project \in Projects, Wired, NEW s \in Jobs, Several(s), NEW j \in Jobs,
         Subject(j) \subseteq AllAncestors(project, project.deps[Id(s)])
  PROVE  s \notin wiring[j]
<1>1. SUFFICES ASSUME s \in wiring[j] PROVE FALSE
  OBVIOUS
<1>2. /\ Id(s) \in Resources(project) /\ Id(j) \in Resources(project) /\ WellFormed(project)
      /\ ~IsNode(s) /\ UnitTarget(project, Id(s)) = {}
  BY JobFacts, ProjectsAssumption DEF Several, IsDataTest, IsNode, UnitTarget
<1>3. DataTestGates(project, Id(j), Id(s))
  BY <1>1, <1>2, WaitsForSubjects DEF UnitGates, UnitChain, Id
<1>4. Id(j) \in AllAncestors(project, project.deps[Id(s)]) /\ ~WouldCycle(project, Id(j), Id(s))
  BY <1>3 DEF DataTestGates, Subject, IsNode
<1>5. PICK d \in project.deps[Id(s)] : Id(j) \in AllAncestors(project, {d})
  BY <1>4 DEF AllAncestors
<1>6. d # Id(j) /\ d \in Ids(project)
  BY <1>2, <1>4, <1>5, DependenciesAreIds DEF WouldCycle
<1>7. CASE d \in project.nodes
  <2>1. Id(j) \in AllAncestors(project, project.deps[d])
    BY <1>2, <1>5, <1>6, <1>7, ClosureUnfolds DEF WellFormed
  <2>. QED  BY <1>4, <1>5, <1>7, <2>1 DEF WouldCycle, BlockedBy
<1>8. CASE d \notin project.nodes
  <2>1. Closed(project, project.nodes, {d})
    BY <1>8 DEF Closed
  <2>2. AllAncestors(project, {d}) = Closure(project, project.nodes, d)
    BY <1>6, Tables DEF AllAncestors
  <2>3. Closure(project, project.nodes, d) \subseteq {d}
    BY <1>6, <2>1 DEF Closure
  <2>. QED  BY <1>5, <1>6, <2>2, <2>3
<1>. QED  BY <1>7, <1>8

\* A test that spans waits for nodes above it, and for nothing else.
LEMMA SpanningWaitsAbove ==
  ASSUME project \in Projects, Wired, NEW s \in Jobs, Several(s), NEW k \in wiring[s]
  PROVE  k \in Jobs /\ ~Several(k) /\ Subject(k) \subseteq AllAncestors(project, project.deps[Id(s)])
<1>1. /\ Id(s) \in Resources(project) /\ project.deps[Id(s)] \in SUBSET Ids(project)
      /\ UnitTarget(project, Id(s)) = {} /\ project.kind[Id(s)] # "node"
  BY JobFacts, DependenciesAreIds DEF Several, IsDataTest, UnitTarget
<1>2. k \in Jobs /\ IsNode(k) /\ Id(k) \in PhysicalDependencies(project, project.deps[Id(s)])
  BY <1>1, WaitsForSubjects DEF UnitGates, UnitChain, DataTestGates, Id
<1>. QED  BY <1>1, <1>2, PhysicalAreAncestors DEF Several, IsDataTest, IsNode, Subject

\* With at most one test that spans, no set of jobs waits for itself.
LEMMA OneSpansUntangled ==
  ASSUME project \in Projects, NoCycle(project), Wired, OneSpans
  PROVE  Untangled
<1>1. SUFFICES ASSUME NEW S \in SUBSET Jobs, S # {} PROVE \E j \in S : wiring[j] \cap S = {}
  BY DEF Untangled
<1>2. CASE \A j \in S : ~Several(j)
  BY <1>1, <1>2, LowestWaitsForNone
<1>3. ASSUME NEW s \in S, Several(s), wiring[s] \cap S # {}
      PROVE  \E j \in S : wiring[j] \cap S = {}
  <2>. DEFINE A == AllAncestors(project, project.deps[Id(s)])
              B == {j \in S : ~Several(j) /\ Subject(j) \subseteq A}
  <2>1. B \in SUBSET Jobs /\ B # {} /\ \A j \in B : ~Several(j)
    BY <1>3, SpanningWaitsAbove
  <2>2. PICK j \in B : wiring[j] \cap B = {}
    <3>. HIDE DEF B
    <3>. QED  BY <2>1, LowestWaitsForNone
  <2>3. ASSUME NEW k \in wiring[j], k \in S PROVE FALSE
    <3>1. CASE Several(k)
      <4>1. k = s
        BY <1>3, <2>3, <3>1 DEF OneSpans
      <4>. QED  BY <1>3, <2>1, <2>3, <4>1, SpanningGatesNoneAbove
    <3>2. CASE ~Several(k)
      <4>1. Subject(k) \subseteq A
        BY <2>1, <2>3, <3>2, StaysAbove, JobFacts
      <4>. QED  BY <2>2, <2>3, <3>2, <4>1
    <3>. QED  BY <3>1, <3>2
  <2>. QED  BY <2>3
<1>. QED  BY <1>2, <1>3

-----------------------------------------------------------------------------
(* What a round without progress has found. *)

Scanned ==
  /\ sup = "skip" /\ ~changed => cursor = 1
  /\ sup = "inline" => changed
  /\ sup \in {"launch", "decide"} /\ ~changed => \A j \in Jobs : ~MustSkip(j)
  /\ sup = "decide" => Launchable = {}
  /\ result = "CyclicModelDependency" => ~Untangled

\* A run begins with nothing scanned.
LEMMA InitScanned == Init => Scanned
BY DEF Init, Scanned

\* A round that finds nothing to do while jobs are left leaves jobs that wait
\* for one another.
LEMMA NoProgressIsTangled ==
  ASSUME Bookkeeping, Scanned, NoProgress
  PROVE  ~Untangled
<1>. USE DEF Bookkeeping, TypeOK, RunTyped, JobsTyped
<1>1. SUFFICES ASSUME Untangled PROVE FALSE
  OBVIOUS
<1>2. result = "none" /\ Counted /\ active = 0 /\ ~changed /\ ~AllDone /\ sup = "decide"
  BY DEF NoProgress, LoopHasNoResult, Counters
<1>3. IsFiniteSet(Jobs) /\ Len(project.jobs) \in Nat /\ Jobs = 1..Len(project.jobs)
  BY JobFacts, ProjectsAssumption DEF WellFormed, Jobs, JobSet
<1>4. InFlight = {}
  <2>1. IsFiniteSet(InFlight)
    BY <1>3, FS_Subset DEF InFlight
  <2>. QED  BY <1>2, <2>1, FS_EmptySet DEF Counted
<1>5. DoneJobs # Jobs
  <2>1. Cardinality(Jobs) = Len(project.jobs)
    BY <1>3, FS_Interval
  <2>. QED  BY <1>2, <2>1 DEF Counted, AllDone
<1>6. PICK j \in Jobs \ DoneJobs : wiring[j] \cap (Jobs \ DoneJobs) = {}
  <2>1. Jobs \ DoneJobs \in SUBSET Jobs /\ Jobs \ DoneJobs # {}
    BY <1>5 DEF DoneJobs
  <2>. QED  BY <1>1, <2>1 DEF Untangled
<1>7. state[j] = "pending"
  BY <1>4, <1>6 DEF InFlight, DoneJobs
<1>8. PrerequisitesDone(j)
  BY <1>6 DEF PrerequisitesDone, DoneJobs
<1>9. ~MustSkip(j) /\ Launchable = {}
  BY <1>2 DEF Scanned
<1>10. ~stop /\ Ready(j)
  BY <1>7, <1>8, <1>9 DEF MustSkip, Ready
<1>11. ~(active >= options.threads)
  <2>1. options.threads \in Nat \ {0}
    BY RunnerAssumption
  <2>. QED  BY <1>2, <2>1
<1>. QED  BY <1>9, <1>10, <1>11 DEF Launchable

\* Until the supervisor lets go of the mutex, what a round found stays true.
LEMMA NextKeepsScanned ==
  ASSUME Bookkeeping, Scanned, [Next]_vars
  PROVE  Scanned'
<1>1. UNCHANGED static /\ Jobs' = Jobs
  BY RunIsFixed DEF static, Jobs
<1>2. Untangled' <=> Untangled
  BY <1>1 DEF Untangled, static
<1>3. ASSUME UNCHANGED <<static, state, output, blocked, stop, active>>
      PROVE  /\ \A j \in Jobs : MustSkip(j)' <=> MustSkip(j)
             /\ Launchable' = Launchable
  <2>1. ASSUME NEW j \in Jobs
        PROVE  /\ PrerequisitesDone(j)' <=> PrerequisitesDone(j)
               /\ JobBlocked(j)' <=> JobBlocked(j)
    BY <1>3, <1>1 DEF PrerequisitesDone, JobBlocked, IsNode, Id, Failed, static
  <2>. QED  BY <1>1, <1>3, <2>1 DEF MustSkip, Launchable, Ready, static
<1>4. CASE \E j \in Jobs : WorkerStep(j)
  <2>1. PICK j \in Jobs : WorkerStep(j)
    BY <1>4
  <2>2. UNCHANGED <<tally, control>>
    BY <2>1 DEF WorkerStep
  <2>3. CASE Publish(j)
    BY <1>2, <2>2, <2>3 DEF Publish, MutexFree, Scanned, control
  <2>4. CASE ~Publish(j)
    BY <1>1, <1>2, <1>3, <2>1, <2>2, <2>4 DEF WorkerStep, jobVars, tally, control, Scanned
  <2>. QED  BY <2>3, <2>4
<1>5. CASE Collect \/ CollectFails
  BY <1>2, <1>5 DEF Collect, CollectFails, Scanned, Bookkeeping, LoopHasNoResult
<1>6. CASE Skip \/ SkipFails
  BY <1>2, <1>6 DEF Skip, SkipFails, Scanned, Bookkeeping, LoopHasNoResult
<1>7. CASE Launch \/ LaunchFails
  BY <1>2, <1>7 DEF Launch, LaunchFails, Scanned, Bookkeeping, LoopHasNoResult
<1>8. CASE Moves
  <2>1. UNCHANGED <<state, output, blocked, stop, active>>
    BY <1>8, MovesKeepJobs DEF jobVars, tally
  <2>2. CASE SkipEnds
    <3>1. Skippable = {} /\ sup' = "launch" /\ UNCHANGED <<result, changed, cursor>> /\ sup = "skip"
      BY <2>2 DEF SkipEnds
    <3>2. ~changed => \A j \in Jobs : ~MustSkip(j)
      BY <3>1, JobFacts DEF Scanned, Skippable, Bookkeeping, TypeOK, RunTyped
    <3>. QED  BY <1>1, <1>2, <1>3, <2>1, <3>1, <3>2 DEF Scanned
  <2>3. CASE NoProgress
    BY <1>2, <2>3, NoProgressIsTangled DEF NoProgress, Scanned
  <2>4. CASE ~SkipEnds /\ ~NoProgress
    <3>1. CASE LaunchEnds
      BY <1>1, <1>2, <1>3, <2>1, <3>1 DEF LaunchEnds, Scanned
    <3>2. CASE CollectEnds \/ InlineReturns \/ NextRound
      BY <1>2, <3>2 DEF CollectEnds, InlineReturns, NextRound, Scanned
    <3>3. CASE Finish \/ Wait \/ CancelAgain \/ Resume \/ PauseFails \/ Unwind \/ Return
      BY <1>2, <3>3 DEF Finish, Wait, CancelAgain, Resume, PauseFails, Unwind, Return, Scanned
    <3>. QED  BY <1>8, <2>4, <3>1, <3>2, <3>3 DEF Moves
  <2>. QED  BY <2>2, <2>3, <2>4
<1>9. CASE UNCHANGED vars
  BY <1>1, <1>2, <1>3, <1>9 DEF vars, jobVars, tally, control, Scanned
<1>. QED
  BY <1>4, <1>5, <1>6, <1>7, <1>8, <1>9 DEF Next, Supervisor, Moves, Done

\* If the runner gives up with a cycle, there is one among its own edges.
THEOREM CyclesAreReal == Spec => [](Untangled => NoFalseCycle)
<1>1. Bookkeeping /\ Scanned /\ [Next]_vars => Scanned'
  BY NextKeepsScanned
<1>2. Scanned => (Untangled => NoFalseCycle)
  BY DEF Scanned, NoFalseCycle
<1>. QED  BY BooksAreKept, InitScanned, <1>1, <1>2, PTL DEF Spec

\* Compilations, and builds in which at most one selected data test depends on
\* more than one resource, never end with the message that the graph has a
\* cycle, on any schedule.  Two such tests may (RunnerCrossing).
THEOREM NeverFalselyCyclic ==
  Spec => [](options.mode = "compile" \/ OneSpans => NoFalseCycle)
<1>1. ASSUME Bookkeeping, options.mode = "compile" \/ OneSpans
      PROVE  Untangled
  <2>1. OneSpans
    BY <1>1 DEF OneSpans, Several
  <2>2. project \in Projects /\ Wired
    BY <1>1 DEF Bookkeeping, TypeOK, RunTyped
  <2>3. NoCycle(project)
    BY <2>2, RunnerAssumption
  <2>. QED  BY <2>1, <2>2, <2>3, OneSpansUntangled
<1>. QED  BY CyclesAreReal, BooksAreKept, <1>1, PTL
=============================================================================
