-------------------------- MODULE ConcurrentRunner --------------------------
(***************************************************************************)
(* concurrent_runner.zig: one supervisor and a bounded set of worker       *)
(* threads run the selected resources of a project.                        *)
(*                                                                         *)
(* The supervisor holds one mutex from the start of its loop and lets go   *)
(* of it only to wait on the condition, to sleep, to run a job inline or   *)
(* to join; a worker takes it to register and to withdraw its session and  *)
(* to publish its result.  Each critical section of a worker is one step   *)
(* here, and so is each job a pass of the supervisor handles; what workers *)
(* do without the mutex (open, query, close) interleaves with all of it.   *)
(*                                                                         *)
(* A job's SQL is one native statement: the token is read, then the        *)
(* statement starts, then it ends.  An interrupt that arrives in between   *)
(* is lost, as duckdb_interrupt is when nothing executes.                  *)
(***************************************************************************)
EXTENDS BuildGraph

CONSTANTS ThreadCounts,     \* values of --threads
          RunModes,         \* subset of Modes
          NodeOutcomes,     \* statuses a node, or a compilation, may end with
          TestOutcomes,     \* statuses a test's execution may end with
          CallsMayFail      \* whether the supervisor's own calls may fail

Failures == {"error", "fail", "partial success"}
Outcomes == {"success", "pass"} \cup Failures     \* "pass" also stands for "warn"

ASSUME RunnerAssumption ==
  /\ \A p \in Projects : NoCycle(p)
  /\ ThreadCounts \subseteq Nat \ {0}
  /\ RunModes \subseteq Modes
  /\ NodeOutcomes \subseteq Outcomes /\ TestOutcomes \subseteq Outcomes
  /\ CallsMayFail \in BOOLEAN

VARIABLES
  project, options,     \* the graph and the flags: fixed for one run
  wiring,               \* job.prerequisites
  state, output,        \* job.state, and the status in job.output
  worker,               \* job.worker_number
  occupied,             \* the worker numbers in use
  active, completed,    \* the supervisor's counters
  blocked, stop,        \* the ids that block others; fail-fast has struck
  rows,                 \* the jobs whose result row was appended, in order
  hadError, failedTests,  \* the summary the command's exit status comes from
  sup, cursor, changed, \* where the supervisor is, and what this pass did
  woken,                \* a signal reached the waiting supervisor
  result,               \* how runMode ends
  token,                \* job.cancel_requested
  registered,           \* job.active_session is set
  session, interrupted, \* the native session, and its pending interrupt
  wpc, local            \* where a worker is, and the status it will publish

static == <<project, options, wiring>>
jobVars == <<state, output, worker>>
tally == <<occupied, active, completed, blocked, stop, rows, hadError, failedTests>>
control == <<sup, cursor, changed, result>>
sessions == <<token, registered, session, interrupted>>
threads == <<wpc, local>>
vars == <<static, jobVars, tally, control, woken, sessions, threads>>

Jobs == JobSet(project)
Id(j) == project.jobs[j]
IsNode(j) == project.kind[Id(j)] = "node"
Failed(j) == output[j] \in Failures
First(S) == {j \in S : \A k \in S : j <= k}

\* The supervisor lets go of the mutex in these places only.
MutexFree == sup \in {"inline", "wait", "sleep", "joining", "returned"}

\* A thread, or the inline call, exists for the job and has not come back.
Alive(j) == wpc[j] \notin {"unborn", "exited"}

Init ==
  /\ project \in Projects
  /\ options \in [mode : RunModes, threads : ThreadCounts, single : BOOLEAN, failFast : BOOLEAN]
  /\ options.single => options.threads = 1
  /\ options.mode = "execute" => \A j \in JobSet(project) : project.jobs[j] \notin project.ephemeral
  /\ wiring = [j \in JobSet(project) |-> Prerequisites(project, options.mode, j)]
  /\ state = [j \in Jobs |-> "pending"]
  /\ output = [j \in Jobs |-> "none"]
  /\ worker = [j \in Jobs |-> 0]
  /\ occupied = {} /\ active = 0 /\ completed = 0
  /\ blocked = {} /\ stop = FALSE /\ rows = <<>>
  /\ hadError = FALSE /\ failedTests = 0
  /\ sup = "collect" /\ cursor = 1 /\ changed = FALSE /\ result = "none"
  /\ woken = FALSE
  /\ token = [j \in Jobs |-> FALSE]
  /\ registered = [j \in Jobs |-> FALSE]
  /\ session = [j \in Jobs |-> "none"]
  /\ interrupted = [j \in Jobs |-> FALSE]
  /\ wpc = [j \in Jobs |-> "unborn"]
  /\ local = [j \in Jobs |-> "none"]

PrerequisitesDone(j) == \A k \in wiring[j] : state[k] = "done"

\* Mutation: whatever a job waits for holds it back by failing.
HeldByAnyFailure(j) == \E k \in wiring[j] : Failed(k) \/ output[k] = "skipped"

\* jobBlocked: a test is held back by the rows of the nodes it waits for, a
\* node by everything blocked above it.
JobBlocked(j) ==
  IF IsNode(j) THEN ResourceBlocked(project, Id(j), blocked)
  ELSE \/ project.kind[Id(j)] = "unit" /\ ResourceBlocked(project, Id(j), blocked)
       \/ \E k \in wiring[j] : IsNode(k) /\ (Failed(k) \/ output[k] = "skipped")

\* cancelJobs, called with the state function the caller has by then: every
\* running job gets its token, and a statement that executes is interrupted.
CancelRunning(states) ==
  LET running == {j \in Jobs : states[j] = "running"}
  IN  /\ token' = [j \in Jobs |-> token[j] \/ j \in running]
      /\ interrupted' = [j \in Jobs |->
           interrupted[j] \/ (j \in running /\ registered[j] /\ wpc[j] = "executing")]
      /\ UNCHANGED <<registered, session>>

-----------------------------------------------------------------------------
(* The collect pass: finished jobs become rows. *)

Settle(j) ==
  /\ state' = [state EXCEPT ![j] = "done"]
  /\ occupied' = occupied \ {worker[j]}
  /\ active' = active - 1
  /\ completed' = completed + 1
  /\ UNCHANGED <<output, worker>>

\* Mutation: a test that could not run is not counted as failed.
CountFailedRows(j) ==
  IF options.mode = "compile" \/ IsNode(j)
  THEN hadError' = TRUE /\ UNCHANGED failedTests
  ELSE /\ failedTests' = failedTests + (IF output[j] = "fail" THEN 1 ELSE 0)
       /\ UNCHANGED hadError

CountFailure(j) ==
  IF options.mode = "compile" \/ IsNode(j)
  THEN hadError' = TRUE /\ UNCHANGED failedTests
  ELSE failedTests' = failedTests + 1 /\ UNCHANGED hadError

Finished == {j \in Jobs : state[j] = "finished"}

Collect ==
  /\ sup = "collect"
  /\ \E j \in First(Finished) :
     /\ Settle(j)
     /\ rows' = Append(rows, j)
     /\ changed' = TRUE
     /\ IF Failed(j)
        THEN /\ CountFailure(j)
             /\ blocked' = blocked \cup
                  (IF options.mode = "execute" THEN Blockers(project, Id(j)) ELSE {Id(j)})
             /\ IF options.failFast /\ ~stop
                THEN stop' = TRUE /\ CancelRunning(state')
                ELSE UNCHANGED <<stop, sessions>>
        ELSE UNCHANGED <<hadError, failedTests, blocked, stop, sessions>>
  /\ UNCHANGED <<static, sup, cursor, result, woken, threads>>

\* transferResult, the append or an event write fails after the job is done.
CollectFails ==
  /\ CallsMayFail /\ sup = "collect"
  /\ \E j \in First(Finished) :
     /\ Settle(j)
     /\ rows' \in {rows, Append(rows, j)}
  /\ sup' = "unwind" /\ result' = "failed"
  /\ UNCHANGED <<static, blocked, stop, hadError, failedTests, cursor, changed,
                 woken, sessions, threads>>

CollectEnds ==
  /\ sup = "collect" /\ Finished = {}
  /\ sup' = "skip" /\ cursor' = 1
  /\ UNCHANGED <<static, jobVars, tally, changed, result, woken, sessions, threads>>

-----------------------------------------------------------------------------
(* The skip pass: from the first job to the last, those that will not run. *)

MustSkip(j) ==
  /\ state[j] = "pending" /\ PrerequisitesDone(j)
  /\ stop \/ JobBlocked(j)

Skippable == {j \in Jobs : j >= cursor /\ MustSkip(j)}

Skip ==
  /\ sup = "skip"
  /\ \E j \in First(Skippable) :
     /\ rows' = Append(rows, j)
     /\ output' = [output EXCEPT ![j] = "skipped"]
     /\ state' = [state EXCEPT ![j] = "done"]
     /\ completed' = completed + 1
     /\ blocked' = blocked \cup {Id(j)}
     /\ cursor' = j + 1
  /\ changed' = TRUE
  /\ UNCHANGED <<static, worker, occupied, active, stop, hadError, failedTests,
                 sup, result, woken, sessions, threads>>

SkipFails ==
  /\ CallsMayFail /\ sup = "skip"
  /\ \E j \in First(Skippable) : rows' \in {rows, Append(rows, j)}
  /\ sup' = "unwind" /\ result' = "failed"
  /\ UNCHANGED <<static, jobVars, occupied, active, completed, blocked, stop, hadError,
                 failedTests, cursor, changed, woken, sessions, threads>>

SkipEnds ==
  /\ sup = "skip" /\ Skippable = {}
  /\ sup' = "launch"
  /\ UNCHANGED <<static, jobVars, tally, cursor, changed, result, woken, sessions, threads>>

-----------------------------------------------------------------------------
(* The launch pass: ready jobs take the free worker numbers. *)

Ready(j) == state[j] = "pending" /\ PrerequisitesDone(j) /\ ~JobBlocked(j)

Launchable ==
  IF stop \/ active >= options.threads THEN {} ELSE {j \in Jobs : Ready(j)}

FreeNumber == First((1..options.threads) \ occupied)

Seat(j) ==
  \E n \in FreeNumber :
    /\ worker' = [worker EXCEPT ![j] = n]
    /\ occupied' = occupied \cup {n}

Launch ==
  /\ sup = "launch"
  /\ \E j \in First(Launchable) :
     /\ Seat(j)
     /\ state' = [state EXCEPT ![j] = "running"]
     /\ wpc' = [wpc EXCEPT ![j] = "start"]
  /\ active' = active + 1
  /\ changed' = TRUE
  /\ sup' = IF options.single THEN "inline" ELSE "launch"
  /\ UNCHANGED <<static, output, completed, blocked, stop, rows, hadError, failedTests,
                 cursor, result, woken, sessions, local>>

\* The start event cannot be written, or no thread can be spawned.
LaunchFails ==
  /\ CallsMayFail /\ sup = "launch"
  /\ \E j \in First(Launchable) :
     /\ Seat(j)
     /\ \/ UNCHANGED <<state, active>>
        \/ /\ ~options.single
           /\ state' = [state EXCEPT ![j] = "running"]
           /\ active' = active + 1
  /\ sup' = "unwind" /\ result' = "failed"
  /\ UNCHANGED <<static, output, completed, blocked, stop, rows, hadError, failedTests,
                 cursor, changed, woken, sessions, threads>>

InlineReturns ==
  /\ sup = "inline" /\ \A j \in Jobs : ~Alive(j)
  /\ sup' = "launch"
  /\ UNCHANGED <<static, jobVars, tally, cursor, changed, result, woken, sessions, threads>>

LaunchEnds ==
  /\ sup = "launch" /\ Launchable = {}
  /\ sup' = "decide"
  /\ UNCHANGED <<static, jobVars, tally, cursor, changed, result, woken, sessions, threads>>

-----------------------------------------------------------------------------
(* What follows a round of the three passes. *)

AllDone == completed = Len(project.jobs)

Finish ==
  /\ sup = "decide" /\ AllDone
  /\ sup' = "unwind" /\ result' = "ok"
  /\ UNCHANGED <<static, jobVars, tally, cursor, changed, woken, sessions, threads>>

NoProgress ==
  /\ sup = "decide" /\ ~AllDone /\ ~changed /\ active = 0
  /\ sup' = "unwind" /\ result' = "CyclicModelDependency"
  /\ UNCHANGED <<static, jobVars, tally, cursor, changed, woken, sessions, threads>>

NextRound ==
  /\ sup = "decide" /\ ~AllDone /\ changed
  /\ sup' = "collect" /\ changed' = FALSE
  /\ UNCHANGED <<static, jobVars, tally, cursor, result, woken, sessions, threads>>

Wait ==
  /\ sup = "decide" /\ ~AllDone /\ ~changed /\ active > 0 /\ ~stop
  /\ sup' = "wait" /\ woken' = FALSE
  /\ UNCHANGED <<static, jobVars, tally, cursor, changed, result, sessions, threads>>

\* Mutation: it cancels only once.
JustSleep ==
  /\ sup = "decide" /\ ~AllDone /\ ~changed /\ active > 0 /\ stop
  /\ sup' = "sleep"
  /\ UNCHANGED <<static, jobVars, tally, cursor, changed, result, woken, sessions, threads>>

\* After fail-fast the supervisor cancels again every 10 ms.
CancelAgain ==
  /\ sup = "decide" /\ ~AllDone /\ ~changed /\ active > 0 /\ stop
  /\ CancelRunning(state)
  /\ sup' = "sleep"
  /\ UNCHANGED <<static, jobVars, tally, cursor, changed, result, woken, threads>>

Resume ==
  /\ \/ sup = "wait" /\ woken
     \/ sup = "sleep"
  /\ sup' = "collect"
  /\ UNCHANGED <<static, jobVars, tally, cursor, changed, result, woken, sessions, threads>>

PauseFails ==
  /\ CallsMayFail /\ sup \in {"wait", "sleep"}
  /\ sup' = "unwind" /\ result' = "failed"
  /\ UNCHANGED <<static, jobVars, tally, cursor, changed, woken, sessions, threads>>

\* Every exit cancels what runs, lets go of the mutex, and joins.
Unwind ==
  /\ sup = "unwind"
  /\ CancelRunning(state)
  /\ sup' = "joining"
  /\ UNCHANGED <<static, jobVars, tally, cursor, changed, result, woken, threads>>

\* Mutation: no join.
ReturnAtOnce ==
  /\ sup = "joining"
  /\ sup' = "returned"
  /\ UNCHANGED <<static, jobVars, tally, cursor, changed, result, woken, sessions, threads>>

Return ==
  /\ sup = "joining" /\ \A j \in Jobs : ~Alive(j)
  /\ sup' = "returned"
  /\ UNCHANGED <<static, jobVars, tally, cursor, changed, result, woken, sessions, threads>>

Supervisor ==
  \/ Collect \/ CollectFails \/ CollectEnds
  \/ Skip \/ SkipFails \/ SkipEnds
  \/ Launch \/ LaunchFails \/ InlineReturns \/ LaunchEnds
  \/ Finish \/ NoProgress \/ NextRound \/ Wait \/ CancelAgain
  \/ Resume \/ PauseFails \/ Unwind \/ Return

-----------------------------------------------------------------------------
(* A worker: Job.work around Job.perform. *)

Goto(j, pc) == wpc' = [wpc EXCEPT ![j] = pc]
Fail(j) == local' = [local EXCEPT ![j] = "error"]

\* perform opens the session first; compiling reads the token first and opens
\* a session only if the resource's templates query.
Open(j) ==
  /\ wpc[j] = "start"
  /\ options.mode = "compile" => ~token[j]
  /\ session' = [session EXCEPT ![j] = "open"]
  /\ Goto(j, "opened")
  /\ UNCHANGED <<token, registered, interrupted, local>>

OpenFails(j) ==
  /\ wpc[j] = "start"
  /\ Goto(j, "publishing") /\ Fail(j)
  /\ UNCHANGED sessions

RenderOffline(j) ==
  /\ wpc[j] = "start" /\ options.mode = "compile" /\ ~token[j]
  /\ Goto(j, "publishing")
  /\ local' = [local EXCEPT ![j] = "success"]
  /\ UNCHANGED sessions

\* The session becomes the supervisor's to cancel, unless the run was
\* cancelled before.  While compiling, the observer registers it regardless
\* and cancels at once; nothing executes yet, so that interrupt has no effect.
Register(j) ==
  /\ wpc[j] = "opened" /\ MutexFree
  /\ IF options.mode = "execute" /\ token[j]
     THEN Goto(j, "closing") /\ Fail(j) /\ UNCHANGED registered
     ELSE /\ Goto(j, "idle") /\ UNCHANGED local
          /\ registered' = [registered EXCEPT ![j] = TRUE]
  /\ UNCHANGED <<token, session, interrupted>>

CheckToken(j) ==
  /\ wpc[j] = "idle"
  /\ IF token[j] THEN Goto(j, "leaving") /\ Fail(j)
     ELSE Goto(j, "armed") /\ UNCHANGED local
  /\ UNCHANGED sessions

StartStatement(j) ==
  /\ wpc[j] = "armed"
  /\ Goto(j, "executing")
  /\ UNCHANGED <<sessions, local>>

EndStatement(j) ==
  /\ wpc[j] = "executing"
  /\ Goto(j, "leaving")
  /\ \E status \in IF IsNode(j) \/ options.mode = "compile" THEN NodeOutcomes ELSE TestOutcomes :
       local' = [local EXCEPT ![j] = status]
  /\ UNCHANGED sessions

Interrupted(j) ==
  /\ wpc[j] = "executing" /\ interrupted[j]
  /\ Goto(j, "leaving") /\ Fail(j)
  /\ UNCHANGED sessions

\* Mutation: the session is closed while the supervisor can still cancel it.
CloseFirst(j) ==
  /\ wpc[j] = "leaving" /\ MutexFree
  /\ session' = [session EXCEPT ![j] = "closed"]
  /\ Goto(j, "closing")
  /\ UNCHANGED <<token, registered, interrupted, local>>

Deregister(j) ==
  /\ wpc[j] = "leaving" /\ MutexFree
  /\ registered' = [registered EXCEPT ![j] = FALSE]
  /\ Goto(j, "closing")
  /\ UNCHANGED <<token, session, interrupted, local>>

Close(j) ==
  /\ wpc[j] = "closing"
  /\ session' = [session EXCEPT ![j] = "closed"]
  /\ Goto(j, "publishing")
  /\ UNCHANGED <<token, registered, interrupted, local>>

\* Mutation: no signal.
PublishQuietly(j) ==
  /\ wpc[j] = "publishing" /\ MutexFree
  /\ output' = [output EXCEPT ![j] = local[j]]
  /\ state' = [state EXCEPT ![j] = "finished"]
  /\ Goto(j, "exited")
  /\ UNCHANGED <<worker, woken, sessions, local>>

Publish(j) ==
  /\ wpc[j] = "publishing" /\ MutexFree
  /\ output' = [output EXCEPT ![j] = local[j]]
  /\ state' = [state EXCEPT ![j] = "finished"]
  /\ woken' = (woken \/ sup = "wait")
  /\ Goto(j, "exited")
  /\ UNCHANGED <<worker, sessions, local>>

WorkerStep(j) ==
  /\ \/ /\ \/ Open(j) \/ OpenFails(j) \/ RenderOffline(j) \/ Register(j)
           \/ CheckToken(j) \/ StartStatement(j) \/ EndStatement(j) \/ Interrupted(j)
           \/ Deregister(j) \/ Close(j)
        /\ UNCHANGED <<jobVars, woken>>
     \/ Publish(j)
  /\ UNCHANGED <<static, tally, control>>

Done == sup = "returned" /\ UNCHANGED vars

Next == Supervisor \/ (\E j \in Jobs : WorkerStep(j)) \/ Done

Spec == Init /\ [][Next]_vars

-----------------------------------------------------------------------------
(* Fairness: the supervisor and every thread keep running, and a thread    *)
(* that needs the mutex gets it if it is let go of again and again: strong *)
(* fairness, since the supervisor releases it for a wait or for 10 ms.     *)
(* That one of the supervisor's calls fails is never to be relied upon.    *)
(* A statement may run until it is interrupted; that all of them end is a  *)
(* premise, StatementsEnd, where it is needed.                             *)

AllJobs == UNION {JobSet(p) : p \in Projects}

Proceeds == Supervisor /\ (result' = "failed" => result = "failed")

StepsUnaided(j) == WorkerStep(j) /\ ~(wpc[j] = "executing" /\ ~interrupted[j])

FairSpec ==
  /\ Spec /\ WF_vars(Proceeds)
  /\ \A j \in AllJobs : SF_vars(j \in Jobs /\ StepsUnaided(j))

StatementsEnd ==
  \A j \in AllJobs : WF_vars(j \in Jobs /\ wpc[j] = "executing" /\ WorkerStep(j))

-----------------------------------------------------------------------------
(* Properties *)

InFlight == {j \in Jobs : state[j] \in {"running", "finished"}}
Started(j) == j \in InFlight \/ (state[j] = "done" /\ output[j] # "skipped")

\* The ids whose failure or whose tests hold job j back.
Above(j) == AllAncestors(project, project.deps[Id(j)]) \cup {Id(j)}
BlockedByJob(k) == IF options.mode = "execute" THEN Blockers(project, Id(k)) ELSE {Id(k)}

RunTyped ==
  /\ project \in Projects
  /\ options \in [mode : RunModes, threads : ThreadCounts, single : BOOLEAN, failFast : BOOLEAN]
  /\ wiring \in [Jobs -> SUBSET Jobs]

JobsTyped ==
  /\ state \in [Jobs -> {"pending", "running", "finished", "done"}]
  /\ output \in [Jobs -> Outcomes \cup {"none", "skipped"}]
  /\ worker \in [Jobs -> 0..options.threads]
  /\ occupied \subseteq 1..options.threads

TallyTyped ==
  /\ active \in Nat /\ completed \in Nat /\ failedTests \in Nat
  /\ blocked \subseteq Ids(project)
  /\ rows \in Seq(Jobs)
  /\ stop \in BOOLEAN /\ hadError \in BOOLEAN

ControlTyped ==
  /\ sup \in {"collect", "skip", "launch", "inline", "decide", "wait", "sleep",
              "unwind", "joining", "returned"}
  /\ cursor \in Nat \ {0} /\ changed \in BOOLEAN /\ woken \in BOOLEAN
  /\ result \in {"none", "ok", "failed", "CyclicModelDependency"}

ThreadsTyped ==
  /\ token \in [Jobs -> BOOLEAN] /\ registered \in [Jobs -> BOOLEAN]
  /\ interrupted \in [Jobs -> BOOLEAN]
  /\ session \in [Jobs -> {"none", "open", "closed"}]
  /\ wpc \in [Jobs -> {"unborn", "start", "opened", "idle", "armed", "executing",
                       "leaving", "closing", "publishing", "exited"}]
  /\ local \in [Jobs -> Outcomes \cup {"none"}]

\* Every variable holds a value of its type; the supervisor's counter of
\* active workers, unsigned in the code, is never decremented at zero.
TypeOK == RunTyped /\ JobsTyped /\ TallyTyped /\ ControlTyped /\ ThreadsTyped

\* A job runs only after every selected node it reads from, directly or
\* through ephemeral models, has finished and succeeded.
UpstreamSettled ==
  \A j, k \in Jobs :
    (Started(j) /\ IsNode(k)
       /\ Id(k) \in PhysicalDependencies(project, project.deps[Id(j)])
                    \ UnitTarget(project, Id(j)))
    => state[k] = "done" /\ output[k] \notin Failures \cup {"skipped"}

\* A model runs only after the tests that gate it - unit tests of the model
\* and of models above it, data tests of models above it - ended unfailed.
TestsGate ==
  options.mode = "execute" =>
    \A j, k \in Jobs :
      (/\ Started(j) /\ IsNode(j) /\ ~IsNode(k)
       /\ Blockers(project, Id(k)) \cap Above(j) # {}
       /\ UnitTarget(project, Id(k)) # {} \/ ~WouldCycle(project, Id(j), Id(k)))
      => state[k] = "done" /\ ~Failed(k)

\* Once a unit test failed, later unit tests of the same model do not run.
UnitsInTurn ==
  options.mode = "execute" =>
    \A j, k \in Jobs :
      (/\ Started(j) /\ k < j
       /\ UnitTarget(project, Id(j)) \cap UnitTarget(project, Id(k)) # {}) =>
      state[k] = "done" /\ ~Failed(k)

\* A failure skips what lies below it and nothing else: without fail-fast,
\* every skipped resource has a failed one whose blocked ids are above it.
OnlyDescendantsSkipped ==
  ~stop =>
    \A j \in Jobs : output[j] = "skipped" =>
      \E k \in Jobs : Failed(k) /\ state[k] = "done" /\ BlockedByJob(k) \cap Above(j) # {}

\* The supervisor interrupts only sessions that are open.
CancelIsSafe == \A j \in Jobs : registered[j] => session[j] = "open"

\* When runMode returns, on any path, no worker is left that could touch the
\* jobs, their arenas or the graph, and no session is open.
JoinedBeforeReturn ==
  sup = "returned" =>
    \A j \in Jobs : ~Alive(j) /\ session[j] # "open" /\ ~registered[j]

\* While the loop runs, the counters and worker numbers agree with the jobs.
SeatsAgree ==
  result = "none" =>
    /\ active = Cardinality(InFlight) /\ active = Cardinality(occupied)
    /\ occupied = {worker[j] : j \in InFlight}
    /\ completed = Cardinality({j \in Jobs : state[j] = "done"})

\* The exit status tells the truth: a run that ends well reports an error or
\* a failed test exactly if some resource failed, and skips need a failure.
SummaryTruthful ==
  result = "ok" =>
    /\ (hadError \/ failedTests > 0) <=> \E j \in Jobs : Failed(j)
    /\ (\E j \in Jobs : output[j] = "skipped") => \E j \in Jobs : Failed(j)

\* The supervisor never gives up with the message that the model graph has a
\* cycle: the graphs here have none.
NoFalseCycle == result # "CyclicModelDependency"

\* Once fail-fast has struck no job starts any more.
StopIsFinal ==
  [][stop => stop' /\ \A j \in Jobs : state[j] = "pending" => state'[j] \in {"pending", "done"}]_vars

\* If statements end so does the run, whatever fails: no wakeup is lost and no
\* worker is left waiting.
Terminates == StatementsEnd => <>(sup = "returned")

\* After fail-fast running work ends even if no statement ends by itself:
\* the token stops what has not begun, the repeated interrupt what has.  A
\* supervisor whose own call failed cancels once, without repeating it.
StopDrains == stop ~> (result = "failed" \/ \A j \in Jobs : ~Alive(j))

-----------------------------------------------------------------------------
(* The runner implements the build queue: a resource runs while it has a   *)
(* thread, and the build is over when runMode returns.                     *)

Phase(j) ==
  IF output[j] = "skipped" THEN "skipped"
  ELSE IF wpc[j] = "unborn" THEN "waiting"
  ELSE IF Alive(j) THEN "running"
  ELSE IF Failed(j) THEN "failed" ELSE "succeeded"

Queue == INSTANCE BuildQueue WITH
  Limits <- ThreadCounts, mode <- options.mode, limit <- options.threads,
  phase <- [j \in Jobs |-> Phase(j)], over <- (sup = "returned")

\* Every step of the supervisor and of the workers is a step the build queue
\* allows, or leaves what it sees as it was.
ImplementsQueue == Queue!Spec
=============================================================================
