---------------------------- MODULE CodexRestart ----------------------------
(***************************************************************************)
(* The two ways to restart Codex, each with a request file, guardians and  *)
(* watchers of its own: in its tmux pane (CodexPane), or detached          *)
(* (PullPlug).  They share no file; a session uses one of them.            *)
(***************************************************************************)
EXTENDS Naturals

CONSTANTS PaneWatchers, PlugWatchers, MaxPanes, PaneRequests, PlugRequests

\* Watchers are numbered; 0 is nobody.
ASSUME RestartAssumption ==
  /\ PaneWatchers \subseteq Nat \ {0} /\ PlugWatchers \subseteq Nat \ {0}
  /\ MaxPanes \in Nat /\ PaneRequests \in Nat /\ PlugRequests \in Nat

VARIABLES
  tool,
  state, paneRequest, pane, paneWatcher, paneStarter, paneStopper,
  marked, rude, killed, paneCrowded, disturbed,
  plugRequest, issued, guardian, plugWatcher, plugStarter, plugStopper,
  launches, slipped, plugCrowded, plugTorn

Pane == INSTANCE CodexPane WITH
  Watchers <- PaneWatchers, MaxRequests <- PaneRequests, request <- paneRequest,
  watcher <- paneWatcher, starter <- paneStarter, stopper <- paneStopper, crowded <- paneCrowded

Plug == INSTANCE PullPlug WITH
  Watchers <- PlugWatchers, MaxRequests <- PlugRequests, request <- plugRequest,
  watcher <- plugWatcher, starter <- plugStarter, stopper <- plugStopper, crowded <- plugCrowded, torn <- plugTorn

paneVars ==
  <<state, paneRequest, pane, paneWatcher, paneStarter, paneStopper,
    marked, rude, killed, paneCrowded, disturbed>>
plugVars ==
  <<plugRequest, issued, guardian, plugWatcher, plugStarter, plugStopper,
    launches, slipped, plugCrowded, plugTorn>>
vars == <<tool, paneVars, plugVars>>

Init == tool \in {"pane", "plug"} /\ Pane!Init /\ Plug!Init

Next ==
  /\ UNCHANGED tool
  /\ \/ tool = "pane" /\ Pane!Next /\ UNCHANGED plugVars
     \/ tool = "plug" /\ Plug!Next /\ UNCHANGED paneVars

Spec == Init /\ [][Next]_vars /\ Pane!Fairness /\ Plug!Fairness

-----------------------------------------------------------------------------
(* What the two promise, with both running under one specification.         *)

\* A single watcher never respawns a pane over a live Codex, unless it could
\* not read the processes of that pane.
RespawnsOverNothing == Pane!RespawnsOverNothing

\* A single watcher tells only a Codex that is ready to leave.
ExitOnlyWhenReady == Pane!ExitOnlyWhenReady

\* A request that is ready gets an outcome of its own while a watcher lives, or
\* is replaced; one made while a watcher was at work may be overwritten.
ReadyIsServed == Pane!ReadyIsServed

\* There is one detached guardian, as long as none is forced and the calls that
\* start and stop it neither overlap nor are cut off.
OneGuardian == Plug!OneGuardian

\* A single watcher launches a request once.
LaunchedOnce == Plug!LaunchedOnce

\* A detached request whose delay is over is launched while a guardian lives.
RequestIsServed == Plug!RequestIsServed
=============================================================================
