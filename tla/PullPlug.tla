------------------------------ MODULE PullPlug ------------------------------
(***************************************************************************)
(* scripts/codex_pull_plug.py: a request to launch a fresh, detached Codex *)
(* after a delay, and the watchers that serve it: a guardian registered in *)
(* guardian.json and `watch` started by cron or by hand.  A watcher reads   *)
(* request.json, launches and writes its copy of the request back; a call   *)
(* that starts or stops the guardian reads guardian.json, starts or kills a *)
(* process and writes.  Others may come between these steps.  Calls that    *)
(* only rewrite request.json are one step.                                 *)
(***************************************************************************)
EXTENDS Naturals, FiniteSets

CONSTANTS
  Watchers,       \* bound: watcher processes, numbered from 1
  MaxRequests     \* bound: requests

VARIABLES
  request,     \* request.json: number, status and whether its delay is over
  issued,      \* requests written so far
  guardian,    \* guardian.json: the registered watcher, or 0
  watcher,     \* watcher -> its step, its copy of the request, its kind
  starter,     \* watcher -> the step of the start-guardian call for it
  stopper,     \* the guardian a stop-guardian call will write back, or 0
  launches,    \* history: request -> Codex processes launched for it
  slipped,     \* history: a guardian was forced, or a call that starts or stops
               \* one overlapped another or was killed on its way
  crowded,     \* history: two watchers were alive at once
  torn         \* history: requests launched but not recorded by a stopped watcher

calls == <<starter, stopper>>
vars == <<request, issued, guardian, watcher, calls, launches, slipped, crowded, torn>>

Ids == 1..MaxRequests
NoRequest == [id |-> 0, status |-> "none", due |-> FALSE]
Unborn == [pc |-> "unborn", copy |-> NoRequest, kind |-> "none"]

Init ==
  /\ request = NoRequest /\ issued = 0 /\ guardian = 0
  /\ watcher = [w \in Watchers |-> Unborn]
  /\ starter = [w \in Watchers |-> "idle"] /\ stopper = 0
  /\ launches = [r \in Ids |-> 0] /\ slipped = FALSE /\ crowded = FALSE /\ torn = {}

Alive(w) == watcher[w].pc \notin {"unborn", "ended"}

-----------------------------------------------------------------------------
(* The command line                                                         *)

\* A waiting request is replaced only under --force.
RequestRestart(force) ==
  /\ request.status = "requested" => force
  /\ issued < MaxRequests /\ issued' = issued + 1
  /\ request' = [id |-> issued + 1, status |-> "requested", due |-> FALSE]
  /\ UNCHANGED <<guardian, watcher, calls, launches, slipped, crowded, torn>>

Cancel ==
  /\ request.id # 0 /\ request.status # "canceled"
  /\ request' = [request EXCEPT !.status = "canceled"]
  /\ UNCHANGED <<issued, guardian, watcher, calls, launches, slipped, crowded, torn>>

Spawn(w, kind) ==
  /\ watcher[w].pc = "unborn"
  /\ watcher' = [watcher EXCEPT ![w] = [Unborn EXCEPT !.pc = "poll", !.kind = kind]]
  /\ crowded' = (crowded \/ \E v \in Watchers : Alive(v))

Calling == stopper # 0 \/ \E w \in Watchers : starter[w] # "idle"

\* The lowest number that is free.
NextUp(w) ==
  LET free == {v \in Watchers : watcher[v].pc = "unborn" /\ starter[v] = "idle"} IN
  w \in free /\ \A v \in free : w <= v

\* Mutation: the process is not looked at.
StartGuardianAnew(w, force) ==
  /\ NextUp(w)
  /\ starter' = [starter EXCEPT ![w] = "popen"]
  /\ slipped' = (slipped \/ force \/ Calling)
  /\ UNCHANGED <<request, issued, guardian, watcher, stopper, launches, crowded, torn>>

\* A guardian that is registered and alive is doubled only under --force.
StartGuardian(w, force) ==
  /\ NextUp(w)
  /\ guardian # 0 /\ Alive(guardian) => force
  /\ starter' = [starter EXCEPT ![w] = "popen"]
  /\ slipped' = (slipped \/ force \/ Calling)
  /\ UNCHANGED <<request, issued, guardian, watcher, stopper, launches, crowded, torn>>

PopenGuardian(w) ==
  /\ starter[w] = "popen"
  /\ Spawn(w, "guardian")
  /\ starter' = [starter EXCEPT ![w] = "write"]
  /\ UNCHANGED <<request, issued, guardian, stopper, launches, slipped, torn>>

RegisterGuardian(w) ==
  /\ starter[w] = "write"
  /\ guardian' = w
  /\ starter' = [starter EXCEPT ![w] = "idle"]
  /\ UNCHANGED <<request, issued, watcher, stopper, launches, slipped, crowded, torn>>

\* `watch` in a terminal, or `watch --once`, from cron or by hand.
WatchRequests(w, kind) ==
  /\ NextUp(w) /\ Spawn(w, kind)
  /\ UNCHANGED <<request, issued, guardian, calls, launches, slipped, torn>>

\* Bound: one stop-guardian call at a time.
StopGuardian ==
  /\ guardian # 0 /\ stopper = 0 /\ stopper' = guardian
  /\ IF Alive(guardian)
     THEN /\ torn' = torn \cup (IF watcher[guardian].pc = "record" THEN {watcher[guardian].copy.id} ELSE {})
          /\ watcher' = [watcher EXCEPT ![guardian].pc = "ended"]
     ELSE UNCHANGED <<torn, watcher>>
  /\ slipped' = (slipped \/ Calling)
  /\ UNCHANGED <<request, issued, guardian, starter, launches, crowded>>

WriteStopped ==
  /\ stopper # 0 /\ stopper' = 0
  /\ guardian' = stopper
  /\ UNCHANGED <<request, issued, watcher, starter, launches, slipped, crowded, torn>>

\* The call itself is killed on its way.
CutStart(w) ==
  /\ starter[w] # "idle"
  /\ starter' = [starter EXCEPT ![w] = "idle"]
  /\ slipped' = TRUE
  /\ UNCHANGED <<request, issued, guardian, watcher, stopper, launches, crowded, torn>>

-----------------------------------------------------------------------------
(* The watcher                                                              *)

\* Mutation: the mark that the pane's watcher waits for.
PollForMark(w) ==
  /\ watcher[w].pc = "poll"
  /\ IF request.status = "ready_to_exit" /\ request.due
     THEN watcher' = [watcher EXCEPT ![w].pc = "launch", ![w].copy = request]
     ELSE watcher[w].kind = "once" /\ watcher' = [watcher EXCEPT ![w].pc = "ended"]
  /\ UNCHANGED <<request, issued, guardian, calls, launches, slipped, crowded, torn>>

\* A request whose delay is over is taken; --once ends without one.
Poll(w) ==
  /\ watcher[w].pc = "poll"
  /\ IF request.status = "requested" /\ request.due
     THEN watcher' = [watcher EXCEPT ![w].pc = "launch", ![w].copy = request]
     ELSE watcher[w].kind = "once" /\ watcher' = [watcher EXCEPT ![w].pc = "ended"]
  /\ UNCHANGED <<request, issued, guardian, calls, launches, slipped, crowded, torn>>

Launch(w) ==
  /\ watcher[w].pc = "launch"
  /\ launches' = [launches EXCEPT ![watcher[w].copy.id] = @ + 1]
  /\ watcher' = [watcher EXCEPT ![w].pc = "record"]
  /\ UNCHANGED <<request, issued, guardian, calls, slipped, crowded, torn>>

\* Mutation: the launch is not written back.
RecordNothing(w) ==
  /\ watcher[w].pc = "record"
  /\ watcher' = [watcher EXCEPT ![w].pc = IF watcher[w].kind = "once" THEN "ended" ELSE "poll"]
  /\ UNCHANGED <<request, issued, guardian, calls, launches, slipped, crowded, torn>>

\* The watcher's copy is written back, whatever request.json holds by now.
Record(w) ==
  /\ watcher[w].pc = "record"
  /\ request' = [watcher[w].copy EXCEPT !.status = "launched"]
  /\ watcher' = [watcher EXCEPT ![w].pc = IF watcher[w].kind = "once" THEN "ended" ELSE "poll"]
  /\ UNCHANGED <<issued, guardian, calls, launches, slipped, crowded, torn>>

DelayEnds ==
  /\ request.status = "requested" /\ ~request.due
  /\ request' = [request EXCEPT !.due = TRUE]
  /\ UNCHANGED <<issued, guardian, watcher, calls, launches, slipped, crowded, torn>>

Watch(w) == Poll(w) \/ Launch(w) \/ Record(w)

Next ==
  \/ \E force \in BOOLEAN : RequestRestart(force)
  \/ Cancel \/ StopGuardian \/ WriteStopped \/ DelayEnds
  \/ \E w \in Watchers :
       \/ \E force \in BOOLEAN : StartGuardian(w, force)
       \/ \E kind \in {"terminal", "once"} : WatchRequests(w, kind)
       \/ PopenGuardian(w) \/ RegisterGuardian(w) \/ CutStart(w) \/ Watch(w)

\* A watcher that lives goes on: it sleeps only for a while; time passes.
Fairness == WF_vars(DelayEnds) /\ \A w \in Watchers : WF_vars(Watch(w))
Spec == Init /\ [][Next]_vars /\ Fairness

-----------------------------------------------------------------------------
(* Correctness                                                              *)

RequestType == [id : 0..MaxRequests, due : BOOLEAN,
                status : {"none", "requested", "launched", "canceled"}]

WatcherType == [pc : {"unborn", "poll", "launch", "record", "ended"}, copy : RequestType,
                kind : {"none", "guardian", "terminal", "once"}]

\* The type invariant of the files, the watchers and the calls.
TypeOK ==
  /\ request \in RequestType /\ issued \in 0..MaxRequests /\ guardian \in Watchers \cup {0}
  /\ watcher \in [Watchers -> WatcherType]
  /\ starter \in [Watchers -> {"idle", "popen", "write"}] /\ stopper \in Watchers \cup {0}
  /\ launches \in [Ids -> Nat] /\ slipped \in BOOLEAN /\ crowded \in BOOLEAN /\ torn \subseteq Ids

\* "guardian already running": however guardians are started, end and are
\* stopped, there is never more than one, unless one was forced, or a call that
\* starts or stops one overlapped another or was killed on its way.
OneGuardian ==
  ~slipped => \A v, w \in Watchers :
    Alive(v) /\ Alive(w) /\ watcher[v].kind = "guardian" /\ watcher[w].kind = "guardian" => v = w

\* A request launches one Codex, unless watchers overlapped or one was stopped
\* before it could record the launch.
LaunchedOnce == ~crowded => \A r \in Ids \ torn : launches[r] <= 1

Guarded == \E w \in Watchers : Alive(w) /\ watcher[w].kind = "guardian"

\* A waiting request is launched, canceled or replaced while a guardian lives.
RequestIsServed ==
  \A r \in Ids :
    request.id = r /\ request.status = "requested" /\ Guarded
      ~> ~(request.id = r /\ request.status = "requested" /\ Guarded)
=============================================================================
