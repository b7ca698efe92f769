----------------------------- MODULE CodexPane -----------------------------
(***************************************************************************)
(* scripts/codex_tmux_supervisor.py, which restarts Codex in its own tmux  *)
(* pane, and scripts/hermes_codex_watchdog.py, which ticks it from cron.   *)
(* A watcher polls request.json; once the turn has marked the request      *)
(* ready_to_exit it sends /exit, waits for the pane's shell and respawns.  *)
(* A watcher is a sequence of steps that others may come between, and so is *)
(* a call that starts or stops the guardian: each reads state.json, starts  *)
(* or kills a process and writes back what it had read.  Calls that only    *)
(* rewrite request.json are one step.                                      *)
(***************************************************************************)
EXTENDS Naturals, FiniteSets

CONSTANTS
  Watchers,       \* bound: watcher processes, guardians and cron ticks, from 1
  MaxPanes,       \* bound: panes that `start` may open
  MaxRequests     \* bound: requests

Panes == 1..MaxPanes

VARIABLES
  state,       \* state.json: the pane and the registered guardian
  request,     \* request.json: its number, its pane and its status
  pane,        \* pane -> "unused", "gone", "shell" or "codex"
  watcher,     \* watcher -> its step, its copy of the request, whether --once
  starter,     \* watcher -> the start-guardian call for it: its step, what it read
  stopper,     \* what a stop-guardian call has read and will write back, or NoState
  marked,      \* panes marked ready for the request there is
  crowded,     \* history: two watchers were alive at once
  rude,        \* history till then: a Codex was sent /exit whose pane was not
  killed,      \* history till then: steps from which a respawn killed a live Codex
  disturbed    \* history: a watcher was stopped between respawn and record, or a
               \* request was made or canceled while one was at work

calls == <<starter, stopper>>
vars == <<state, request, pane, watcher, calls, marked, rude, killed, crowded, disturbed>>

NoState == [pane |-> 0, guardian |-> 0]
NoRequest == [id |-> 0, pane |-> 0, status |-> "none"]
Idle == [pc |-> "idle", view |-> NoState]
Unborn == [pc |-> "unborn", copy |-> NoRequest, once |-> FALSE]
Pending == {"requested", "ready_to_exit"}

Init ==
  /\ state = NoState /\ request = NoRequest
  /\ pane = [p \in Panes |-> "unused"]
  /\ watcher = [w \in Watchers |-> Unborn]
  /\ starter = [w \in Watchers |-> Idle] /\ stopper = NoState
  /\ marked = {} /\ rude = FALSE /\ killed = {} /\ crowded = FALSE /\ disturbed = FALSE

Alive(w) == watcher[w].pc \notin {"unborn", "ended"}
AtWork(w) == watcher[w].pc \notin {"unborn", "poll", "ended"}
HasCodex(p) == p \in Panes /\ pane[p] = "codex"

-----------------------------------------------------------------------------
(* The command line                                                         *)

\* A new session with a Codex of its own; --force kills the one there is.
\* The state file is written anew, without the guardian.
Start(p) ==
  /\ pane[p] = "unused" /\ \A q \in Panes : q < p => pane[q] # "unused"
  /\ pane' = [q \in Panes |-> IF q = p THEN "codex" ELSE IF pane[q] = "unused" THEN "unused" ELSE "gone"]
  /\ state' = [pane |-> p, guardian |-> 0]
  /\ UNCHANGED <<request, watcher, calls, marked, rude, killed, crowded, disturbed>>

\* A pending request is replaced only under --force.  The new one is not ready.
Request(force) ==
  /\ state.pane # 0 /\ request.id < MaxRequests
  /\ request.status \in Pending => force
  /\ request' = [id |-> request.id + 1, pane |-> state.pane, status |-> "requested"]
  /\ marked' = {}
  /\ disturbed' = (disturbed \/ \E w \in Watchers : AtWork(w))
  /\ UNCHANGED <<state, pane, watcher, calls, rude, killed, crowded>>

\* The turn in the pane has ended, or so the caller says.
Ready ==
  /\ request.status = "requested"
  /\ request' = [request EXCEPT !.status = "ready_to_exit"]
  /\ marked' = marked \cup {request.pane}
  /\ UNCHANGED <<state, pane, watcher, calls, rude, killed, crowded, disturbed>>

Cancel ==
  /\ request.id # 0 /\ request.status # "canceled"
  /\ request' = [request EXCEPT !.status = "canceled"]
  /\ marked' = {}
  /\ disturbed' = (disturbed \/ \E w \in Watchers : AtWork(w))
  /\ UNCHANGED <<state, pane, watcher, calls, rude, killed, crowded>>

\* The lowest number that is free.
NextUp(w) ==
  LET free == {v \in Watchers : watcher[v].pc = "unborn" /\ starter[v].pc = "idle"} IN
  w \in free /\ \A v \in free : w <= v

Spawn(w, once) ==
  /\ watcher[w].pc = "unborn"
  /\ watcher' = [watcher EXCEPT ![w] = [Unborn EXCEPT !.pc = "poll", !.once = once]]
  /\ crowded' = (crowded \/ \E v \in Watchers : Alive(v))

\* The registered guardian is doubled only under --force.
StartGuardian(w, force) ==
  /\ NextUp(w) /\ (state.guardian # 0 /\ Alive(state.guardian) => force)
  /\ starter' = [starter EXCEPT ![w] = [pc |-> "popen", view |-> state]]
  /\ UNCHANGED <<state, request, pane, watcher, stopper, marked, rude, killed, crowded, disturbed>>

PopenGuardian(w) ==
  /\ starter[w].pc = "popen"
  /\ Spawn(w, FALSE)
  /\ starter' = [starter EXCEPT ![w].pc = "write"]
  /\ UNCHANGED <<state, request, pane, stopper, marked, rude, killed, disturbed>>

\* The whole state is written, with the pane it had when it was read.
RegisterGuardian(w) ==
  /\ starter[w].pc = "write"
  /\ state' = [starter[w].view EXCEPT !.guardian = w]
  /\ starter' = [starter EXCEPT ![w] = Idle]
  /\ UNCHANGED <<request, pane, watcher, stopper, marked, rude, killed, crowded, disturbed>>

\* `watch`, in a terminal or, with --once, from cron.
WatchPane(w, once) ==
  /\ NextUp(w) /\ Spawn(w, once)
  /\ UNCHANGED <<state, request, pane, calls, marked, rude, killed, disturbed>>

\* Bound: one stop-guardian call at a time.
StopGuardian ==
  /\ state.guardian # 0 /\ stopper = NoState /\ stopper' = state
  /\ IF Alive(state.guardian)
     THEN /\ disturbed' = (disturbed \/ watcher[state.guardian].pc = "record")
          /\ watcher' = [watcher EXCEPT ![state.guardian].pc = "ended", ![state.guardian].copy = NoRequest]
     ELSE UNCHANGED <<disturbed, watcher>>
  /\ UNCHANGED <<state, request, pane, starter, marked, rude, killed, crowded>>

WriteStopped ==
  /\ stopper # NoState /\ stopper' = NoState
  /\ state' = stopper
  /\ UNCHANGED <<request, pane, watcher, starter, marked, rude, killed, crowded, disturbed>>

-----------------------------------------------------------------------------
(* The watcher                                                              *)

Goto(w, label) ==
  watcher' = [watcher EXCEPT ![w].pc = label,
                             ![w].copy = IF label \in {"poll", "ended"} THEN NoRequest ELSE @]
Target(w) == watcher[w].copy.pane

\* Mutation: a request is served before the turn is over.
PollPending(w) ==
  /\ watcher[w].pc = "poll"
  /\ IF request.status \in Pending
     THEN watcher' = [watcher EXCEPT ![w].pc = "check", ![w].copy = request]
     ELSE watcher[w].once /\ Goto(w, "ended")
  /\ UNCHANGED <<state, request, pane, calls, marked, rude, killed, crowded, disturbed>>

Poll(w) ==
  /\ watcher[w].pc = "poll"
  /\ IF request.status = "ready_to_exit"
     THEN watcher' = [watcher EXCEPT ![w].pc = "check", ![w].copy = request]
     ELSE watcher[w].once /\ Goto(w, "ended")
  /\ UNCHANGED <<state, request, pane, calls, marked, rude, killed, crowded, disturbed>>

\* A pane without Codex is not restarted, nor one whose processes cannot be read.
Check(w) ==
  /\ watcher[w].pc = "check"
  /\ \/ HasCodex(Target(w)) /\ Goto(w, "exit")
     \/ Goto(w, "fail")
  /\ UNCHANGED <<state, request, pane, calls, marked, rude, killed, crowded, disturbed>>

\* send_interactive_exit: the keys reach whatever is in the pane by now.
SendExit(w) ==
  /\ watcher[w].pc = "exit"
  /\ rude' = (rude \/ (HasCodex(Target(w)) /\ Target(w) \notin marked /\ ~crowded))
  /\ Goto(w, "wait")
  /\ UNCHANGED <<state, request, pane, calls, marked, killed, crowded, disturbed>>

\* The pane is back at its shell; or it is not, but its processes cannot be
\* read, and its command is bash while Codex runs too (pane_runner).
SeeShell(w) ==
  /\ watcher[w].pc = "wait"
  /\ \/ pane[Target(w)] = "shell" /\ Goto(w, "respawn")
     \/ HasCodex(Target(w)) /\ Goto(w, "respawn blind")
  /\ UNCHANGED <<state, request, pane, calls, marked, rude, killed, crowded, disturbed>>

\* Mutation: when time is up the pane is respawned all the same.
TimeOutAnyway(w) ==
  /\ watcher[w].pc = "wait"
  /\ Goto(w, "respawn")
  /\ UNCHANGED <<state, request, pane, calls, marked, rude, killed, crowded, disturbed>>

TimeOut(w) ==
  /\ watcher[w].pc = "wait"
  /\ Goto(w, "fail")
  /\ UNCHANGED <<state, request, pane, calls, marked, rude, killed, crowded, disturbed>>

\* respawn-pane -k kills what runs in the pane.  Without the pane tmux fails,
\* and the watcher with it.
Respawn(w) ==
  /\ watcher[w].pc \in {"respawn", "respawn blind"}
  /\ IF pane[Target(w)] = "gone"
     THEN Goto(w, "ended") /\ UNCHANGED <<pane, marked, killed>>
     ELSE /\ killed' = killed \cup (IF HasCodex(Target(w)) /\ ~crowded THEN {watcher[w].pc} ELSE {})
          /\ pane' = [pane EXCEPT ![Target(w)] = "codex"]
          /\ marked' = marked \ {Target(w)}
          /\ Goto(w, "record")
  /\ UNCHANGED <<state, request, calls, rude, crowded, disturbed>>

\* Mutation: the outcome is not written back.
RecordNothing(w) ==
  /\ watcher[w].pc = "record"
  /\ Goto(w, IF watcher[w].once THEN "ended" ELSE "poll")
  /\ UNCHANGED <<state, request, pane, calls, marked, rude, killed, crowded, disturbed>>

\* The outcome is written with the watcher's copy of the request.
Record(w) ==
  /\ watcher[w].pc = "record"
  /\ request' = [watcher[w].copy EXCEPT !.status = "resumed"]
  /\ Goto(w, IF watcher[w].once THEN "ended" ELSE "poll")
  /\ UNCHANGED <<state, pane, calls, marked, rude, killed, crowded, disturbed>>

\* A failed restart ends the watcher, a guardian too.
RecordFailure(w) ==
  /\ watcher[w].pc = "fail"
  /\ request' = [watcher[w].copy EXCEPT !.status = "failed"]
  /\ Goto(w, "ended")
  /\ UNCHANGED <<state, pane, calls, marked, rude, killed, crowded, disturbed>>

-----------------------------------------------------------------------------
(* The pane: Codex ends, told or not; the shell or the session is left.      *)

CodexEnds(p) ==
  /\ pane[p] = "codex" /\ pane' = [pane EXCEPT ![p] = "shell"]
  /\ UNCHANGED <<state, request, watcher, calls, marked, rude, killed, crowded, disturbed>>

PaneCloses(p) ==
  /\ pane[p] = "shell" /\ pane' = [pane EXCEPT ![p] = "gone"]
  /\ UNCHANGED <<state, request, watcher, calls, marked, rude, killed, crowded, disturbed>>

Watch(w) ==
  \/ Poll(w) \/ Check(w) \/ SendExit(w) \/ SeeShell(w) \/ TimeOut(w)
  \/ Respawn(w) \/ Record(w) \/ RecordFailure(w)

Next ==
  \/ \E p \in Panes : Start(p) \/ CodexEnds(p) \/ PaneCloses(p)
  \/ \E force \in BOOLEAN : Request(force)
  \/ Ready \/ Cancel \/ StopGuardian \/ WriteStopped
  \/ \E w \in Watchers :
       \/ Watch(w) \/ PopenGuardian(w) \/ RegisterGuardian(w)
       \/ \E b \in BOOLEAN : StartGuardian(w, b) \/ WatchPane(w, b)

\* A watcher that lives goes on: it sleeps only for a while.
Fairness == \A w \in Watchers : WF_vars(Watch(w))
Spec == Init /\ [][Next]_vars /\ Fairness

-----------------------------------------------------------------------------
(* Correctness                                                              *)

StateType == [pane : Panes \cup {0}, guardian : Watchers \cup {0}]
StarterType == [pc : {"idle", "popen", "write"}, view : StateType]

RequestType == [id : 0..MaxRequests, pane : Panes \cup {0},
                status : {"none", "requested", "ready_to_exit", "resumed", "failed", "canceled"}]

WatcherType == [pc : {"unborn", "poll", "check", "exit", "wait", "respawn", "respawn blind", "record", "fail", "ended"},
                copy : RequestType, once : BOOLEAN]

\* The type invariant of the files, the panes, the watchers and the calls: a
\* request that was made names a pane.
TypeOK ==
  /\ request.id # 0 => request.pane # 0
  /\ state \in StateType /\ request \in RequestType
  /\ pane \in [Panes -> {"unused", "gone", "shell", "codex"}]
  /\ watcher \in [Watchers -> WatcherType] /\ marked \subseteq Panes
  /\ starter \in [Watchers -> StarterType] /\ stopper \in StateType
  /\ killed \subseteq {"respawn", "respawn blind"}
  /\ rude \in BOOLEAN /\ crowded \in BOOLEAN /\ disturbed \in BOOLEAN

\* "the watcher marks the request failed instead of respawning over a live
\* process" (docs/AGENT_OS.md:323), as long as there is one watcher at a time
\* and it could read the processes of the pane.
RespawnsOverNothing == ~crowded => "respawn" \notin killed

\* Only a Codex whose pane is marked ready for the request there is is told to
\* leave, unless watchers overlapped, one was stopped before it could record
\* what it had done, or a request was made or canceled while one was at work.
ExitOnlyWhenReady == ~crowded /\ ~disturbed => ~rude

Lasting == \E w \in Watchers : Alive(w) /\ ~watcher[w].once

\* A request that is ready has an outcome of its own, if only that it failed or
\* was canceled, or is replaced by a later one, while a watcher lives.  One
\* made while a watcher was at work may instead be overwritten by the outcome
\* of the older request that the watcher had taken.
ReadyIsServed ==
  \A r \in 1..MaxRequests :
    request.id = r /\ request.status = "ready_to_exit" /\ Lasting
      ~> \/ ~Lasting
         \/ request.id = r /\ request.status \in {"resumed", "failed", "canceled"}
         \/ request.id > r
         \/ request.id < r /\ disturbed
=============================================================================
