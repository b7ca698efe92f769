------------------------ MODULE CodexRestart_proofs ------------------------
(***************************************************************************)
(* Proofs about the two ways to restart Codex for any number of watchers,  *)
(* panes and requests: of each tool by itself, then of both together, where *)
(* a step of one is a stutter of the other.                                *)
(***************************************************************************)
EXTENDS CodexRestart, TLAPS

-----------------------------------------------------------------------------
(* Restarts in a pane: the invariant. *)

Busy(w) == paneWatcher[w].pc \notin {"unborn", "poll", "ended"}
Used(p) == p \in Pane!Panes => pane[p] # "unused"

\* What names a pane names one that was opened.
Placed ==
  /\ Used(state.pane) /\ Used(paneRequest.pane)
  /\ paneRequest.status \in Pane!Pending => paneRequest.pane \in Pane!Panes
  /\ \A w \in PaneWatchers : Busy(w) => Pane!Target(w) \in Pane!Panes /\ Used(Pane!Target(w))
  /\ Used(paneStopper.pane) /\ \A w \in PaneWatchers : Used(paneStarter[w].view.pane)

\* Watchers that do not overlap.
PaneAlone == ~paneCrowded => \A v, w \in PaneWatchers : Pane!Alive(v) /\ Pane!Alive(w) => v = w

\* A pane that was seen at its shell stays without Codex until the respawn.
Vacated ==
  ~paneCrowded =>
    /\ "respawn" \notin killed
    /\ \A w \in PaneWatchers : paneWatcher[w].pc = "respawn" => pane[Pane!Target(w)] \in {"shell", "gone"}

PaneRecording(p) == \E w \in PaneWatchers : paneWatcher[w].pc = "record" /\ Pane!Target(w) = p
Willing(p) == Pane!HasCodex(p) => p \in marked

\* A Codex that is about to be told to leave has marked its turn.
Told ==
  ~paneCrowded /\ ~disturbed =>
    /\ ~rude
    /\ paneRequest.status = "ready_to_exit" => Willing(paneRequest.pane) \/ PaneRecording(paneRequest.pane)
    /\ \A w \in PaneWatchers : paneWatcher[w].pc \in {"check", "exit"} => Willing(Pane!Target(w))

PaneIInv == Pane!TypeOK /\ Placed /\ PaneAlone /\ Vacated /\ Told

-----------------------------------------------------------------------------
(* Where watchers go. *)

Labels == {"unborn", "poll", "check", "exit", "wait", "respawn", "respawn blind", "record", "fail", "ended"}

LEMMA Goes ==
  ASSUME paneWatcher \in [PaneWatchers -> Pane!WatcherType], PaneRequests \in Nat,
         NEW w \in PaneWatchers, NEW label \in Labels, Pane!Goto(w, label)
  PROVE  /\ paneWatcher' \in [PaneWatchers -> Pane!WatcherType]
         /\ paneWatcher'[w].pc = label
         /\ label \notin {"poll", "ended"} => paneWatcher'[w].copy = paneWatcher[w].copy
         /\ \A v \in PaneWatchers : v # w => paneWatcher'[v] = paneWatcher[v]
<1>. DEFINE copy == IF label \in {"poll", "ended"} THEN Pane!NoRequest ELSE paneWatcher[w].copy
<1>1. Pane!NoRequest \in Pane!RequestType
  BY DEF Pane!NoRequest, Pane!RequestType
<1>2. copy \in Pane!RequestType
  BY <1>1 DEF Pane!WatcherType
<1>3. paneWatcher' = [paneWatcher EXCEPT ![w].pc = label, ![w].copy = copy]
  BY DEF Pane!Goto, Pane!WatcherType
<1>. HIDE DEF copy
<1>4. paneWatcher' \in [PaneWatchers -> Pane!WatcherType]
  BY <1>2, <1>3 DEF Pane!WatcherType, Labels
<1>5. /\ paneWatcher'[w].pc = label /\ paneWatcher'[w].copy = copy
      /\ \A v \in PaneWatchers : v # w => paneWatcher'[v] = paneWatcher[v]
  BY <1>3 DEF Pane!WatcherType
<1>. QED  BY <1>4, <1>5 DEF copy

LEMMA Polls ==
  ASSUME Pane!TypeOK, PaneRequests \in Nat, NEW w \in PaneWatchers, Pane!Poll(w)
  PROVE  /\ paneWatcher[w].pc = "poll" /\ UNCHANGED <<state, paneRequest, pane, Pane!calls, marked, rude, killed, paneCrowded, disturbed>>
         /\ paneWatcher' \in [PaneWatchers -> Pane!WatcherType]
         /\ \A v \in PaneWatchers : v # w => paneWatcher'[v] = paneWatcher[v]
         /\ \/ paneWatcher'[w].pc = "ended"
            \/ paneWatcher'[w].pc = "check" /\ paneWatcher'[w].copy = paneRequest /\ paneRequest.status = "ready_to_exit"
<1>0. paneWatcher \in [PaneWatchers -> Pane!WatcherType] /\ paneRequest \in Pane!RequestType
  BY DEF Pane!TypeOK
<1>1. CASE paneRequest.status = "ready_to_exit"
  <2>1. paneWatcher' = [paneWatcher EXCEPT ![w].pc = "check", ![w].copy = paneRequest]
    BY <1>1 DEF Pane!Poll
  <2>2. paneWatcher' \in [PaneWatchers -> Pane!WatcherType]
    BY <1>0, <2>1 DEF Pane!WatcherType
  <2>3. paneWatcher'[w].pc = "check" /\ paneWatcher'[w].copy = paneRequest
    BY <1>0, <2>1 DEF Pane!WatcherType
  <2>. QED  BY <1>0, <1>1, <2>1, <2>2, <2>3 DEF Pane!Poll
<1>2. CASE paneRequest.status # "ready_to_exit"
  <2>1. Pane!Goto(w, "ended")
    BY <1>2 DEF Pane!Poll
  <2>. QED  BY <1>0, <2>1, Goes DEF Pane!Poll, Labels
<1>. QED  BY <1>1, <1>2

LEMMA PaneSpawned ==
  ASSUME Pane!TypeOK, PaneRequests \in Nat, NEW w \in PaneWatchers, NEW once \in BOOLEAN, Pane!Spawn(w, once)
  PROVE  /\ paneWatcher' \in [PaneWatchers -> Pane!WatcherType] /\ paneCrowded' \in BOOLEAN
         /\ paneWatcher'[w].pc = "poll"
         /\ \A v \in PaneWatchers : v # w => paneWatcher'[v] = paneWatcher[v]
         /\ \A v \in PaneWatchers : Pane!Alive(v) => paneCrowded'
         /\ paneCrowded => paneCrowded'
         /\ paneWatcher[w].pc = "unborn"
<1>0. Pane!NoRequest \in Pane!RequestType
  BY DEF Pane!NoRequest, Pane!RequestType
<1>1. [Pane!Unborn EXCEPT !.pc = "poll", !.once = once] \in Pane!WatcherType
  <2>1. CASE once = TRUE
    BY <1>0, <2>1 DEF Pane!Unborn, Pane!WatcherType
  <2>2. CASE once = FALSE
    BY <1>0, <2>2 DEF Pane!Unborn, Pane!WatcherType
  <2>. QED  BY <2>1, <2>2
<1>2. paneWatcher' \in [PaneWatchers -> Pane!WatcherType]
  BY <1>1 DEF Pane!Spawn, Pane!TypeOK
<1>. QED  BY <1>2 DEF Pane!TypeOK, Pane!WatcherType, Pane!Spawn, Pane!Unborn

LEMMA PaneStopped ==
  ASSUME Pane!TypeOK, PaneRequests \in Nat, Pane!StopGuardian, 0 \notin PaneWatchers
  PROVE  /\ state.guardian \in PaneWatchers
         /\ paneWatcher' \in [PaneWatchers -> Pane!WatcherType]
         /\ paneWatcher'[state.guardian] # paneWatcher[state.guardian]
              => paneWatcher'[state.guardian].pc = "ended" /\ Pane!Alive(state.guardian)
         /\ \A v \in PaneWatchers : v # state.guardian => paneWatcher'[v] = paneWatcher[v]
<1>1. state.guardian \in PaneWatchers
  BY DEF Pane!TypeOK, Pane!StateType, Pane!StopGuardian
<1>2. Pane!NoRequest \in Pane!RequestType
  BY DEF Pane!NoRequest, Pane!RequestType
<1>3. paneWatcher \in [PaneWatchers -> Pane!WatcherType]
  BY DEF Pane!TypeOK
<1>4. CASE Pane!Alive(state.guardian)
  <2>1. paneWatcher' = [paneWatcher EXCEPT ![state.guardian].pc = "ended", ![state.guardian].copy = Pane!NoRequest]
    BY <1>4 DEF Pane!StopGuardian
  <2>2. paneWatcher' \in [PaneWatchers -> Pane!WatcherType]
    BY <1>2, <1>3, <2>1 DEF Pane!WatcherType
  <2>3. paneWatcher'[state.guardian].pc = "ended"
    BY <1>1, <1>3, <2>1 DEF Pane!WatcherType
  <2>4. \A v \in PaneWatchers : v # state.guardian => paneWatcher'[v] = paneWatcher[v]
    BY <1>3, <2>1
  <2>. QED  BY <1>1, <1>4, <2>2, <2>3, <2>4
<1>5. CASE ~Pane!Alive(state.guardian)
  <2>1. paneWatcher' = paneWatcher
    BY <1>5 DEF Pane!StopGuardian
  <2>. QED  BY <1>1, <1>3, <2>1
<1>. QED  BY <1>4, <1>5

\* The steps of a watcher other than Poll.
LEMMA Steps ==
  ASSUME Pane!TypeOK, PaneRequests \in Nat, NEW w \in PaneWatchers, Pane!Watch(w), ~Pane!Poll(w)
  PROVE  /\ Busy(w) /\ paneWatcher' \in [PaneWatchers -> Pane!WatcherType]
         /\ \A v \in PaneWatchers : v # w => paneWatcher'[v] = paneWatcher[v]
         /\ Busy(w)' => Pane!Target(w)' = Pane!Target(w)
<1>0. paneWatcher \in [PaneWatchers -> Pane!WatcherType]
  BY DEF Pane!TypeOK
<1>1. PICK label \in Labels : Pane!Goto(w, label) /\ Busy(w)
  <2>1. CASE Pane!Check(w)
    BY <2>1 DEF Pane!Check, Labels, Busy
  <2>2. CASE Pane!SendExit(w)
    BY <2>2 DEF Pane!SendExit, Labels, Busy
  <2>3. CASE Pane!SeeShell(w) \/ Pane!TimeOut(w)
    BY <2>3 DEF Pane!SeeShell, Pane!TimeOut, Labels, Busy
  <2>4. CASE Pane!Respawn(w)
    BY <2>4 DEF Pane!Respawn, Labels, Busy
  <2>5. CASE Pane!Record(w)
    BY <2>5 DEF Pane!Record, Labels, Busy
  <2>6. CASE Pane!RecordFailure(w)
    BY <2>6 DEF Pane!RecordFailure, Labels, Busy
  <2>. QED  BY <2>1, <2>2, <2>3, <2>4, <2>5, <2>6 DEF Pane!Watch
<1>. QED  BY <1>0, <1>1, Goes DEF Busy, Pane!Target

-----------------------------------------------------------------------------
(* The conjuncts of the invariant, one after the other. *)

LEMMA PaneInitially == ASSUME 0 \notin PaneWatchers, PaneRequests \in Nat, MaxPanes \in Nat, Pane!Init PROVE PaneIInv
<1>1. Pane!NoRequest \in Pane!RequestType
  BY DEF Pane!NoRequest, Pane!RequestType
<1>2. paneWatcher \in [PaneWatchers -> Pane!WatcherType] /\ \A w \in PaneWatchers : paneWatcher[w].pc = "unborn"
  BY <1>1 DEF Pane!Init, Pane!Unborn, Pane!WatcherType
<1>3. Pane!TypeOK
  <2>1. Pane!NoState \in Pane!StateType
    BY DEF Pane!NoState, Pane!StateType
  <2>2. paneStarter \in [PaneWatchers -> Pane!StarterType] /\ paneStopper \in Pane!StateType
    BY <2>1 DEF Pane!Init, Pane!Idle, Pane!StarterType
  <2>. QED  BY <1>1, <1>2, <2>1, <2>2 DEF Pane!Init, Pane!TypeOK, Pane!NoRequest
<1>4. Placed
  <2>1. Used(0)
    BY DEF Used, Pane!Panes
  <2>2. /\ state.pane = 0 /\ paneStopper.pane = 0
        /\ \A w \in PaneWatchers : paneStarter[w].view.pane = 0
    BY DEF Pane!Init, Pane!NoState, Pane!Idle
  <2>. QED  BY <1>2, <2>1, <2>2 DEF Pane!Init, Placed, Pane!NoRequest, Busy, Pane!Pending
<1>5. PaneAlone /\ Vacated /\ Told
  BY <1>2 DEF Pane!Init, PaneAlone, Vacated, Told, Pane!Alive, Pane!NoRequest
<1>. QED  BY <1>3, <1>4, <1>5 DEF PaneIInv

\* A step keeps the types.
LEMMA PaneTypesKept ==
  ASSUME 0 \notin PaneWatchers, PaneRequests \in Nat, MaxPanes \in Nat, PaneIInv, Pane!Next
  PROVE  Pane!TypeOK'
<1>0. Pane!TypeOK /\ Placed
  BY DEF PaneIInv
<1>t. /\ paneRequest.id # 0 => paneRequest.pane # 0
      /\ state \in Pane!StateType /\ paneRequest \in Pane!RequestType
      /\ pane \in [Pane!Panes -> {"unused", "gone", "shell", "codex"}]
      /\ paneWatcher \in [PaneWatchers -> Pane!WatcherType] /\ marked \subseteq Pane!Panes
      /\ paneStarter \in [PaneWatchers -> Pane!StarterType] /\ paneStopper \in Pane!StateType
      /\ killed \subseteq {"respawn", "respawn blind"}
      /\ rude \in BOOLEAN /\ paneCrowded \in BOOLEAN /\ disturbed \in BOOLEAN
  BY <1>0 DEF Pane!TypeOK
<1>. USE DEF Pane!calls
<1>1. CASE \E p \in Pane!Panes : Pane!Start(p) \/ Pane!CodexEnds(p) \/ Pane!PaneCloses(p)
  <2>. PICK p \in Pane!Panes : Pane!Start(p) \/ Pane!CodexEnds(p) \/ Pane!PaneCloses(p)
    BY <1>1
  <2>1. CASE Pane!Start(p)
    <3>1. pane' \in [Pane!Panes -> {"unused", "gone", "shell", "codex"}]
      BY <2>1, <1>t DEF Pane!Start
    <3>2. state' \in Pane!StateType
      BY <2>1 DEF Pane!Start, Pane!StateType
    <3>. QED  BY <2>1, <1>t, <3>1, <3>2 DEF Pane!Start, Pane!TypeOK
  <2>2. CASE Pane!CodexEnds(p) \/ Pane!PaneCloses(p)
    <3>1. pane' \in [Pane!Panes -> {"unused", "gone", "shell", "codex"}]
      BY <2>2, <1>t DEF Pane!CodexEnds, Pane!PaneCloses
    <3>. QED  BY <2>2, <1>t, <3>1 DEF Pane!CodexEnds, Pane!PaneCloses, Pane!TypeOK
  <2>. QED  BY <2>1, <2>2
<1>2. CASE \E force \in BOOLEAN : Pane!Request(force)
  <2>1. paneRequest' \in Pane!RequestType /\ paneRequest'.pane # 0
    <3>1. /\ paneRequest' = [id |-> paneRequest.id + 1, pane |-> state.pane, status |-> "requested"]
          /\ state.pane # 0 /\ paneRequest.id < PaneRequests
      BY <1>2 DEF Pane!Request
    <3>2. state.pane \in Pane!Panes \cup {0} /\ paneRequest.id \in 0..PaneRequests
      BY <1>t DEF Pane!RequestType, Pane!StateType
    <3>3. paneRequest.id + 1 \in 0..PaneRequests
      BY <3>1, <3>2
    <3>. QED  BY <3>1, <3>2, <3>3 DEF Pane!RequestType
  <2>2. disturbed' \in BOOLEAN
    BY <1>2, <1>t, Zenon DEF Pane!Request
  <2>. QED  BY <1>2, <1>t, <2>1, <2>2 DEF Pane!Request, Pane!TypeOK
<1>3. CASE Pane!Ready
  <2>1. paneRequest' \in Pane!RequestType /\ paneRequest'.pane = paneRequest.pane /\ paneRequest.pane \in Pane!Panes
    BY <1>0, <1>3, <1>t DEF Pane!Ready, Pane!RequestType, Placed, Pane!Pending
  <2>2. /\ marked' = marked \cup {paneRequest.pane}
        /\ UNCHANGED <<state, pane, paneWatcher, paneStarter, paneStopper, rude, killed, paneCrowded, disturbed>>
    BY <1>3 DEF Pane!Ready, Pane!calls
  <2>3. marked' \subseteq Pane!Panes
    BY <1>t, <2>1, <2>2
  <2>4. paneRequest'.pane # 0
    BY <2>1 DEF Pane!Panes
  <2>. QED  BY <1>t, <2>1, <2>2, <2>3, <2>4 DEF Pane!TypeOK
<1>4. CASE Pane!Cancel
  <2>1. paneRequest' \in Pane!RequestType /\ paneRequest'.pane = paneRequest.pane /\ paneRequest'.id = paneRequest.id
    BY <1>4, <1>t DEF Pane!Cancel, Pane!RequestType
  <2>2. disturbed' \in BOOLEAN
    BY <1>4, <1>t, Zenon DEF Pane!Cancel
  <2>. QED  BY <1>4, <1>t, <2>1, <2>2 DEF Pane!Cancel, Pane!TypeOK
<1>5. CASE Pane!StopGuardian \/ Pane!WriteStopped
  <2>1. CASE Pane!StopGuardian
    <3>1. paneWatcher' \in [PaneWatchers -> Pane!WatcherType]
      BY <1>0, <2>1, PaneStopped
    <3>2. disturbed' \in BOOLEAN
      BY <1>t, <2>1, Zenon DEF Pane!StopGuardian
    <3>. QED  BY <1>t, <2>1, <3>1, <3>2 DEF Pane!StopGuardian, Pane!TypeOK
  <2>2. CASE Pane!WriteStopped
    <3>1. Pane!NoState \in Pane!StateType
      BY DEF Pane!NoState, Pane!StateType
    <3>. QED  BY <1>t, <2>2, <3>1 DEF Pane!WriteStopped, Pane!TypeOK
  <2>. QED  BY <1>5, <2>1, <2>2
<1>6. CASE \E w \in PaneWatchers, b \in BOOLEAN : Pane!PopenGuardian(w) \/ Pane!WatchPane(w, b)
  <2>. PICK w \in PaneWatchers, b \in BOOLEAN : Pane!PopenGuardian(w) \/ Pane!WatchPane(w, b)
    BY <1>6
  <2>1. paneWatcher' \in [PaneWatchers -> Pane!WatcherType] /\ paneCrowded' \in BOOLEAN
    <3>1. PICK once \in BOOLEAN : Pane!Spawn(w, once)
      BY DEF Pane!PopenGuardian, Pane!WatchPane
    <3>. QED  BY <1>0, <3>1, PaneSpawned
  <2>2. paneStarter' \in [PaneWatchers -> Pane!StarterType]
    <3>1. CASE Pane!PopenGuardian(w)
      <4>1. paneStarter' = [paneStarter EXCEPT ![w].pc = "write"]
        BY <3>1 DEF Pane!PopenGuardian
      <4>. QED  BY <1>t, <4>1 DEF Pane!StarterType
    <3>2. CASE Pane!WatchPane(w, b)
      BY <1>t, <3>2 DEF Pane!WatchPane
    <3>. QED  BY <3>1, <3>2
  <2>. QED  BY <1>t, <2>1, <2>2 DEF Pane!PopenGuardian, Pane!WatchPane, Pane!TypeOK
<1>8. CASE \E w \in PaneWatchers, b \in BOOLEAN : Pane!StartGuardian(w, b) \/ Pane!RegisterGuardian(w)
  <2>. PICK w \in PaneWatchers, b \in BOOLEAN : Pane!StartGuardian(w, b) \/ Pane!RegisterGuardian(w)
    BY <1>8
  <2>1. CASE Pane!StartGuardian(w, b)
    <3>1. paneStarter' \in [PaneWatchers -> Pane!StarterType]
      BY <1>t, <2>1 DEF Pane!StartGuardian, Pane!StarterType
    <3>. QED  BY <1>t, <2>1, <3>1 DEF Pane!StartGuardian, Pane!TypeOK
  <2>2. CASE Pane!RegisterGuardian(w)
    <3>1. Pane!Idle \in Pane!StarterType
      BY DEF Pane!Idle, Pane!NoState, Pane!StateType, Pane!StarterType
    <3>2. paneStarter' \in [PaneWatchers -> Pane!StarterType]
      BY <1>t, <2>2, <3>1 DEF Pane!RegisterGuardian
    <3>3. paneStarter[w].view \in Pane!StateType
      BY <1>t DEF Pane!StarterType
    <3>4. state' \in Pane!StateType
      BY <2>2, <3>3 DEF Pane!RegisterGuardian, Pane!StateType
    <3>. QED  BY <1>t, <2>2, <3>2, <3>4 DEF Pane!RegisterGuardian, Pane!TypeOK
  <2>. QED  BY <2>1, <2>2
<1>7. CASE \E w \in PaneWatchers : Pane!Watch(w)
  <2>. PICK w \in PaneWatchers : Pane!Watch(w)
    BY <1>7
  <2>1. CASE Pane!Poll(w)
    <3>1. paneWatcher' \in [PaneWatchers -> Pane!WatcherType]
      BY <1>0, <2>1, Polls
    <3>. QED  BY <1>t, <2>1, <3>1 DEF Pane!Poll, Pane!TypeOK
  <2>2. CASE ~Pane!Poll(w)
    <3>1. paneWatcher' \in [PaneWatchers -> Pane!WatcherType] /\ Busy(w)
      BY <1>0, <2>2, Steps
    <3>2. Pane!Target(w) \in Pane!Panes /\ paneWatcher[w].copy \in Pane!RequestType
      BY <1>0, <1>t, <3>1 DEF Placed, Pane!WatcherType
    <3>3. CASE Pane!Check(w) \/ Pane!SeeShell(w) \/ Pane!TimeOut(w)
      BY <1>t, <3>1, <3>3 DEF Pane!Check, Pane!SeeShell, Pane!TimeOut, Pane!TypeOK
    <3>4. CASE Pane!SendExit(w)
      <4>1. rude' \in BOOLEAN
        BY <1>t, <3>4, Zenon DEF Pane!SendExit
      <4>. QED  BY <1>t, <3>1, <3>4, <4>1 DEF Pane!SendExit, Pane!TypeOK
    <3>5. CASE Pane!Respawn(w)
      <4>1. pane' \in [Pane!Panes -> {"unused", "gone", "shell", "codex"}] /\ marked' \subseteq Pane!Panes
        BY <1>t, <3>5 DEF Pane!Respawn
      <4>2. killed' \subseteq {"respawn", "respawn blind"}
        BY <1>t, <3>5 DEF Pane!Respawn
      <4>. QED  BY <1>t, <3>1, <3>5, <4>1, <4>2 DEF Pane!Respawn, Pane!TypeOK
    <3>6. CASE Pane!Record(w) \/ Pane!RecordFailure(w)
      <4>1. paneRequest' \in Pane!RequestType /\ paneRequest'.pane = Pane!Target(w)
        BY <3>2, <3>6 DEF Pane!Record, Pane!RecordFailure, Pane!RequestType, Pane!Target
      <4>2. paneRequest'.pane # 0
        BY <3>2, <4>1 DEF Pane!Panes
      <4>. QED  BY <1>t, <3>1, <3>6, <4>1, <4>2 DEF Pane!Record, Pane!RecordFailure, Pane!TypeOK
    <3>. QED  BY <2>2, <3>3, <3>4, <3>5, <3>6 DEF Pane!Watch
  <2>. QED  BY <2>1, <2>2
<1>. QED  BY <1>1, <1>2, <1>3, <1>4, <1>5, <1>6, <1>7, <1>8 DEF Pane!Next

\* A pane that was opened never counts as unused again.
LEMMA UsedStays ==
  ASSUME PaneIInv, Pane!Next
  PROVE  \A p \in Pane!Panes : pane[p] # "unused" => pane'[p] # "unused"
<1>0. pane \in [Pane!Panes -> {"unused", "gone", "shell", "codex"}]
  BY DEF PaneIInv, Pane!TypeOK
<1>1. CASE \E p \in Pane!Panes : Pane!Start(p) \/ Pane!CodexEnds(p) \/ Pane!PaneCloses(p)
  BY <1>0, <1>1 DEF Pane!Start, Pane!CodexEnds, Pane!PaneCloses
<1>2. CASE \E w \in PaneWatchers : Pane!Respawn(w)
  BY <1>0, <1>2 DEF Pane!Respawn
<1>3. CASE UNCHANGED pane
  BY <1>3
<1>4. ASSUME NEW w \in PaneWatchers, Pane!Watch(w), ~Pane!Respawn(w)
      PROVE  UNCHANGED pane
  BY <1>4 DEF Pane!Watch, Pane!Poll, Pane!Check, Pane!SendExit, Pane!SeeShell, Pane!TimeOut,
      Pane!Record, Pane!RecordFailure
<1>. QED
  BY <1>1, <1>2, <1>3, <1>4 DEF Pane!Next, Pane!Request, Pane!Ready, Pane!Cancel,
      Pane!StopGuardian, Pane!StartGuardian, Pane!PopenGuardian,
      Pane!RegisterGuardian, Pane!WriteStopped, Pane!WatchPane

\* Who is at work was so before, or has just taken the request.
LEMMA BusyFrom ==
  ASSUME 0 \notin PaneWatchers, PaneRequests \in Nat, PaneIInv, Pane!Next, NEW v \in PaneWatchers, Busy(v)'
  PROVE  \/ Busy(v) /\ Pane!Target(v)' = Pane!Target(v)
         \/ /\ Pane!Poll(v) /\ paneRequest.status = "ready_to_exit"
            /\ paneWatcher'[v].pc = "check" /\ Pane!Target(v)' = paneRequest.pane
<1>0. Pane!TypeOK
  BY DEF PaneIInv
<1>1. CASE UNCHANGED paneWatcher
  BY <1>1 DEF Busy, Pane!Target
<1>2. CASE Pane!StopGuardian
  BY <1>0, <1>2, PaneStopped DEF Busy, Pane!Target
<1>3. CASE \E w \in PaneWatchers, b \in BOOLEAN : Pane!PopenGuardian(w) \/ Pane!WatchPane(w, b)
  <2>. PICK w \in PaneWatchers, once \in BOOLEAN : Pane!Spawn(w, once)
    BY <1>3 DEF Pane!PopenGuardian, Pane!WatchPane
  <2>. QED  BY <1>0, PaneSpawned DEF Busy, Pane!Target
<1>4. CASE \E w \in PaneWatchers : Pane!Watch(w)
  <2>. PICK w \in PaneWatchers : Pane!Watch(w)
    BY <1>4
  <2>1. CASE Pane!Poll(w)
    BY <1>0, <2>1, Polls DEF Busy, Pane!Target
  <2>2. CASE ~Pane!Poll(w)
    BY <1>0, <2>2, Steps DEF Busy, Pane!Target
  <2>. QED  BY <2>1, <2>2
<1>. QED
  BY <1>1, <1>2, <1>3, <1>4 DEF Pane!Next, Pane!Start, Pane!CodexEnds, Pane!PaneCloses,
      Pane!Request, Pane!Ready, Pane!Cancel, Pane!StartGuardian, Pane!RegisterGuardian, Pane!WriteStopped

\* A step keeps what names a pane.
LEMMA PlacedKept ==
  ASSUME 0 \notin PaneWatchers, PaneRequests \in Nat, MaxPanes \in Nat, PaneIInv, Pane!Next
  PROVE  Placed'
<1>0. Placed /\ Pane!TypeOK
  BY DEF PaneIInv
<1>t. /\ pane \in [Pane!Panes -> {"unused", "gone", "shell", "codex"}]
      /\ state \in Pane!StateType /\ paneStopper \in Pane!StateType
      /\ paneStarter \in [PaneWatchers -> Pane!StarterType]
      /\ paneRequest \in Pane!RequestType /\ paneWatcher \in [PaneWatchers -> Pane!WatcherType]
  BY <1>0 DEF Pane!TypeOK
<1>1. Used(state.pane)' /\ Used(paneStopper.pane)' /\ \A w \in PaneWatchers : Used(paneStarter[w].view.pane)'
  <2>0. ASSUME NEW p, Used(p)
        PROVE  p \in Pane!Panes => pane'[p] # "unused"
    BY <2>0, UsedStays DEF Used
  <2>z. Used(Pane!NoState.pane)
    BY DEF Used, Pane!NoState, Pane!Panes
  <2>1. CASE \E p \in Pane!Panes : Pane!Start(p)
    <3>1. Used(state.pane)'
      BY <1>t, <2>1 DEF Pane!Start, Used
    <3>. QED  BY <1>0, <2>0, <2>1, <3>1 DEF Pane!Start, Pane!calls, Placed, Used
  <2>2. CASE UNCHANGED <<state, Pane!calls>>
    BY <1>0, <2>0, <2>2 DEF Placed, Used, Pane!calls
  <2>3. CASE \E w \in PaneWatchers, b \in BOOLEAN : Pane!StartGuardian(w, b) \/ Pane!PopenGuardian(w)
    <3>1. /\ UNCHANGED <<state, paneStopper>>
          /\ \A w \in PaneWatchers : paneStarter'[w].view \in {state, paneStarter[w].view}
      <4>. PICK w \in PaneWatchers, b \in BOOLEAN : Pane!StartGuardian(w, b) \/ Pane!PopenGuardian(w)
        BY <2>3
      <4>1. CASE Pane!StartGuardian(w, b)
        BY <1>t, <4>1 DEF Pane!StartGuardian
      <4>2. CASE Pane!PopenGuardian(w)
        BY <1>t, <4>2 DEF Pane!PopenGuardian, Pane!StarterType
      <4>. QED  BY <4>1, <4>2
    <3>2. \A w \in PaneWatchers : paneStarter'[w].view.pane \in {state.pane, paneStarter[w].view.pane}
      BY <3>1
    <3>. QED  BY <1>0, <2>0, <3>1, <3>2 DEF Placed, Used
  <2>4. CASE \E w \in PaneWatchers : Pane!RegisterGuardian(w)
    <3>. PICK u \in PaneWatchers : Pane!RegisterGuardian(u)
      BY <2>4
    <3>1. state'.pane = paneStarter[u].view.pane /\ UNCHANGED paneStopper
      BY <1>t DEF Pane!RegisterGuardian, Pane!StarterType, Pane!StateType
    <3>2. \A w \in PaneWatchers : paneStarter'[w].view.pane \in {0, paneStarter[w].view.pane}
      BY <1>t DEF Pane!RegisterGuardian, Pane!Idle, Pane!NoState
    <3>. QED  BY <1>0, <2>0, <2>z, <3>1, <3>2 DEF Placed, Used, Pane!NoState
  <2>5. CASE Pane!StopGuardian \/ Pane!WriteStopped
    <3>1. /\ UNCHANGED paneStarter /\ state'.pane \in {state.pane, paneStopper.pane}
          /\ paneStopper'.pane \in {state.pane, 0}
      BY <1>t, <2>5 DEF Pane!StopGuardian, Pane!WriteStopped, Pane!NoState
    <3>. QED  BY <1>0, <2>0, <2>z, <3>1 DEF Placed, Used, Pane!NoState
  <2>6. ASSUME NEW w \in PaneWatchers, Pane!Watch(w)
        PROVE  UNCHANGED <<state, Pane!calls>>
    BY <2>6 DEF Pane!Watch, Pane!Poll, Pane!Check, Pane!SendExit, Pane!SeeShell, Pane!TimeOut,
        Pane!Respawn, Pane!Record, Pane!RecordFailure
  <2>. QED  BY <2>1, <2>2, <2>3, <2>4, <2>5, <2>6 DEF Pane!Next, Pane!CodexEnds, Pane!PaneCloses, Pane!Request,
      Pane!Ready, Pane!Cancel, Pane!WatchPane
<1>2. Used(paneRequest.pane)' /\ (paneRequest.status \in Pane!Pending => paneRequest.pane \in Pane!Panes)'
  <2>1. CASE \E force \in BOOLEAN : Pane!Request(force)
    <3>1. paneRequest'.pane = state.pane /\ state.pane \in Pane!Panes
      BY <1>t, <2>1 DEF Pane!Request, Pane!StateType
    <3>. QED  BY <1>0, <3>1, UsedStays DEF Placed, Used
  <2>2. CASE Pane!Ready \/ Pane!Cancel
    <3>1. paneRequest'.pane = paneRequest.pane /\ (paneRequest'.status \in Pane!Pending => paneRequest.status \in Pane!Pending)
      BY <1>t, <2>2 DEF Pane!Ready, Pane!Cancel, Pane!RequestType, Pane!Pending
    <3>. QED  BY <1>0, <3>1, UsedStays DEF Placed, Used
  <2>3. CASE \E w \in PaneWatchers : Pane!Record(w) \/ Pane!RecordFailure(w)
    <3>. PICK w \in PaneWatchers : Pane!Record(w) \/ Pane!RecordFailure(w)
      BY <2>3
    <3>1. Busy(w)
      BY DEF Pane!Record, Pane!RecordFailure, Busy
    <3>2. paneWatcher[w].copy \in Pane!RequestType
      BY <1>t DEF Pane!WatcherType
    <3>3. paneRequest'.pane = Pane!Target(w) /\ paneRequest'.status \notin Pane!Pending
      BY <3>2 DEF Pane!Record, Pane!RecordFailure, Pane!RequestType, Pane!Target, Pane!Pending
    <3>. QED  BY <1>0, <3>1, <3>3, UsedStays DEF Placed, Used
  <2>4. CASE UNCHANGED paneRequest
    BY <1>0, <2>4, UsedStays DEF Placed, Used
  <2>5. ASSUME NEW w \in PaneWatchers, Pane!Watch(w), ~(Pane!Record(w) \/ Pane!RecordFailure(w))
        PROVE  UNCHANGED paneRequest
    BY <2>5 DEF Pane!Watch, Pane!Poll, Pane!Check, Pane!SendExit, Pane!SeeShell, Pane!TimeOut,
        Pane!Respawn
  <2>. QED
    BY <2>1, <2>2, <2>3, <2>4, <2>5 DEF Pane!Next, Pane!Start, Pane!CodexEnds, Pane!PaneCloses,
        Pane!StopGuardian, Pane!StartGuardian, Pane!PopenGuardian,
      Pane!RegisterGuardian, Pane!WriteStopped, Pane!WatchPane
<1>3. ASSUME NEW v \in PaneWatchers, Busy(v)'
      PROVE  Pane!Target(v)' \in Pane!Panes /\ Used(Pane!Target(v))'
  <2>1. Pane!Target(v)' \in Pane!Panes /\ Used(Pane!Target(v)')
    BY <1>0, <1>3, BusyFrom DEF Placed, Pane!Pending
  <2>. QED  BY <2>1, UsedStays DEF Used
<1>. QED  BY <1>1, <1>2, <1>3 DEF Placed

\* Who is alive was so before, unless it is the one just spawned; watchers that
\* once overlapped have done so for ever.
LEMMA AliveFrom ==
  ASSUME 0 \notin PaneWatchers, PaneRequests \in Nat, PaneIInv, Pane!Next
  PROVE  /\ paneCrowded => paneCrowded'
         /\ \/ \A v \in PaneWatchers : Pane!Alive(v)' => Pane!Alive(v)
            \/ \E w \in PaneWatchers : /\ \A v \in PaneWatchers : v # w => paneWatcher'[v] = paneWatcher[v]
                                   /\ \A v \in PaneWatchers : Pane!Alive(v) => paneCrowded'
<1>0. Pane!TypeOK
  BY DEF PaneIInv
<1>1. CASE UNCHANGED <<paneWatcher, paneCrowded>>
  BY <1>1 DEF Pane!Alive
<1>2. CASE Pane!StopGuardian
  BY <1>0, <1>2, PaneStopped DEF Pane!Alive, Pane!StopGuardian
<1>3. CASE \E w \in PaneWatchers, b \in BOOLEAN : Pane!PopenGuardian(w) \/ Pane!WatchPane(w, b)
  <2>. PICK w \in PaneWatchers, once \in BOOLEAN : Pane!Spawn(w, once)
    BY <1>3 DEF Pane!PopenGuardian, Pane!WatchPane
  <2>. QED  BY <1>0, PaneSpawned
<1>4. CASE \E w \in PaneWatchers : Pane!Watch(w)
  <2>. PICK w \in PaneWatchers : Pane!Watch(w)
    BY <1>4
  <2>1. UNCHANGED paneCrowded
    BY DEF Pane!Watch, Pane!Poll, Pane!Check, Pane!SendExit, Pane!SeeShell, Pane!TimeOut,
        Pane!Respawn, Pane!Record, Pane!RecordFailure
  <2>2. CASE Pane!Poll(w)
    BY <1>0, <2>1, <2>2, Polls DEF Pane!Alive
  <2>3. CASE ~Pane!Poll(w)
    BY <1>0, <2>1, <2>3, Steps DEF Pane!Alive, Busy
  <2>. QED  BY <2>2, <2>3
<1>. QED
  BY <1>1, <1>2, <1>3, <1>4 DEF Pane!Next, Pane!Start, Pane!CodexEnds, Pane!PaneCloses,
      Pane!Request, Pane!Ready, Pane!Cancel, Pane!StartGuardian, Pane!RegisterGuardian, Pane!WriteStopped

LEMMA PaneAloneKept ==
  ASSUME 0 \notin PaneWatchers, PaneRequests \in Nat, PaneIInv, Pane!Next
  PROVE  PaneAlone'
<1>1. PaneAlone
  BY DEF PaneIInv
<1>. QED  BY <1>1, AliveFrom DEF PaneAlone, Pane!Alive

\* Beside a watcher that is alone nobody respawns, sends keys or records.
LEMMA OnlyOne ==
  ASSUME PaneIInv, ~paneCrowded, NEW v \in PaneWatchers, NEW w \in PaneWatchers, Pane!Alive(v), Pane!Alive(w)
  PROVE  v = w
BY DEF PaneIInv, PaneAlone

\* A pane at its shell or gone gets a Codex by a respawn only.
LEMMA Vacant ==
  ASSUME PaneIInv, Pane!Next, NEW p \in Pane!Panes, pane[p] \in {"shell", "gone"},
         \A w \in PaneWatchers : ~(Pane!Respawn(w) /\ Pane!Target(w) = p)
  PROVE  pane'[p] \in {"shell", "gone"}
<1>0. pane \in [Pane!Panes -> {"unused", "gone", "shell", "codex"}]
  BY DEF PaneIInv, Pane!TypeOK
<1>1. CASE \E q \in Pane!Panes : Pane!Start(q) \/ Pane!CodexEnds(q) \/ Pane!PaneCloses(q)
  BY <1>0, <1>1 DEF Pane!Start, Pane!CodexEnds, Pane!PaneCloses
<1>2. CASE \E w \in PaneWatchers : Pane!Respawn(w)
  BY <1>0, <1>2 DEF Pane!Respawn
<1>3. CASE UNCHANGED pane
  BY <1>3
<1>4. ASSUME NEW w \in PaneWatchers, Pane!Watch(w), ~Pane!Respawn(w)
      PROVE  UNCHANGED pane
  BY <1>4 DEF Pane!Watch, Pane!Poll, Pane!Check, Pane!SendExit, Pane!SeeShell, Pane!TimeOut,
      Pane!Record, Pane!RecordFailure
<1>. QED
  BY <1>1, <1>2, <1>3, <1>4 DEF Pane!Next, Pane!Request, Pane!Ready, Pane!Cancel,
      Pane!StopGuardian, Pane!StartGuardian, Pane!PopenGuardian,
      Pane!RegisterGuardian, Pane!WriteStopped, Pane!WatchPane

\* Who is about to respawn was so before, or has just seen the shell.
LEMMA RespawnFrom ==
  ASSUME 0 \notin PaneWatchers, PaneRequests \in Nat, PaneIInv, Pane!Next, NEW v \in PaneWatchers,
         paneWatcher'[v].pc = "respawn"
  PROVE  /\ Busy(v) /\ Pane!Target(v)' = Pane!Target(v)
         /\ paneWatcher[v].pc = "respawn" \/ Pane!SeeShell(v)
<1>0. Pane!TypeOK /\ paneWatcher \in [PaneWatchers -> Pane!WatcherType]
  BY DEF PaneIInv, Pane!TypeOK
<1>1. Busy(v) /\ Pane!Target(v)' = Pane!Target(v)
  BY BusyFrom DEF Busy
<1>2. CASE UNCHANGED paneWatcher
  BY <1>1, <1>2
<1>3. CASE Pane!StopGuardian
  BY <1>0, <1>1, <1>3, PaneStopped
<1>4. CASE \E w \in PaneWatchers, b \in BOOLEAN : Pane!PopenGuardian(w) \/ Pane!WatchPane(w, b)
  <2>. PICK w \in PaneWatchers, once \in BOOLEAN : Pane!Spawn(w, once)
    BY <1>4 DEF Pane!PopenGuardian, Pane!WatchPane
  <2>. QED  BY <1>0, <1>1, PaneSpawned
<1>5. CASE \E w \in PaneWatchers : Pane!Watch(w)
  <2>. PICK w \in PaneWatchers : Pane!Watch(w)
    BY <1>5
  <2>1. CASE Pane!Poll(w)
    BY <1>0, <1>1, <2>1, Polls
  <2>2. CASE ~Pane!Poll(w) /\ v # w
    BY <1>0, <1>1, <2>2, Steps
  <2>3. CASE ~Pane!Poll(w) /\ v = w
    <3>1. ASSUME NEW label \in Labels, Pane!Goto(w, label)
          PROVE  label = "respawn"
      BY <1>0, <2>3, <3>1, Goes
    <3>. QED
      BY <1>1, <2>3, <3>1 DEF Pane!Watch, Pane!Check, Pane!SendExit, Pane!TimeOut, Pane!Respawn,
          Pane!Record, Pane!RecordFailure, Labels
  <2>. QED  BY <2>1, <2>2, <2>3
<1>. QED
  BY <1>2, <1>3, <1>4, <1>5 DEF Pane!Next, Pane!Start, Pane!CodexEnds, Pane!PaneCloses,
      Pane!Request, Pane!Ready, Pane!Cancel, Pane!StartGuardian, Pane!RegisterGuardian, Pane!WriteStopped

LEMMA VacatedKept ==
  ASSUME 0 \notin PaneWatchers, PaneRequests \in Nat, PaneIInv, Pane!Next
  PROVE  Vacated'
<1>. SUFFICES ASSUME ~paneCrowded'
              PROVE  /\ "respawn" \notin killed'
                     /\ \A w \in PaneWatchers : paneWatcher'[w].pc = "respawn" => pane'[Pane!Target(w)'] \in {"shell", "gone"}
  BY DEF Vacated
<1>0. ~paneCrowded /\ Vacated /\ Placed
  BY AliveFrom DEF PaneIInv
<1>1. "respawn" \notin killed'
  <2>1. CASE \E w \in PaneWatchers : Pane!Respawn(w)
    <3>. PICK w \in PaneWatchers : Pane!Respawn(w)
      BY <2>1
    <3>1. paneWatcher[w].pc = "respawn" => pane[Pane!Target(w)] \in {"shell", "gone"}
      BY <1>0 DEF Vacated
    <3>. QED  BY <1>0, <3>1 DEF Pane!Respawn, Vacated, Pane!HasCodex
  <2>2. ASSUME NEW w \in PaneWatchers, Pane!Watch(w), ~Pane!Respawn(w)
        PROVE  UNCHANGED killed
    BY <2>2 DEF Pane!Watch, Pane!Poll, Pane!Check, Pane!SendExit, Pane!SeeShell, Pane!TimeOut,
        Pane!Record, Pane!RecordFailure
  <2>3. CASE UNCHANGED killed
    BY <1>0, <2>3 DEF Vacated
  <2>. QED
    BY <2>1, <2>2, <2>3 DEF Pane!Next, Pane!Start, Pane!CodexEnds, Pane!PaneCloses, Pane!Request,
        Pane!Ready, Pane!Cancel, Pane!StopGuardian, Pane!StartGuardian, Pane!PopenGuardian,
      Pane!RegisterGuardian, Pane!WriteStopped, Pane!WatchPane
<1>2. ASSUME NEW v \in PaneWatchers, paneWatcher'[v].pc = "respawn"
      PROVE  pane'[Pane!Target(v)'] \in {"shell", "gone"}
  <2>1. Busy(v) /\ Pane!Target(v)' = Pane!Target(v) /\ (paneWatcher[v].pc = "respawn" \/ Pane!SeeShell(v))
    BY <1>2, RespawnFrom
  <2>2. Pane!Target(v) \in Pane!Panes /\ Pane!Alive(v)
    BY <1>0, <2>1 DEF Placed, Busy, Pane!Alive
  <2>3. pane[Pane!Target(v)] \in {"shell", "gone"}
    <3>1. CASE paneWatcher[v].pc = "respawn"
      BY <1>0, <3>1 DEF Vacated
    <3>2. CASE Pane!SeeShell(v)
      <4>1. ~Pane!Goto(v, "respawn blind")
        <5>1. paneWatcher \in [PaneWatchers -> Pane!WatcherType]
          BY DEF PaneIInv, Pane!TypeOK
        <5>. QED  BY <1>2, <5>1, Goes DEF Labels
      <4>. QED  BY <3>2, <4>1 DEF Pane!SeeShell
    <3>. QED  BY <2>1, <3>1, <3>2
  <2>4. ASSUME NEW w \in PaneWatchers, Pane!Respawn(w)
        PROVE  FALSE
    <3>1. Pane!Alive(w)
      BY <2>4 DEF Pane!Respawn, Pane!Alive
    <3>2. w = v
      BY <1>0, <2>2, <3>1, OnlyOne
    <3>3. paneWatcher \in [PaneWatchers -> Pane!WatcherType]
      BY DEF PaneIInv, Pane!TypeOK
    <3>4. paneWatcher'[w].pc # "respawn"
      <4>1. PICK label \in {"ended", "record"} : Pane!Goto(w, label)
        BY <2>4 DEF Pane!Respawn
      <4>. QED  BY <3>3, <4>1, Goes DEF Labels
    <3>. QED  BY <1>2, <3>2, <3>4
  <2>. QED  BY <2>1, <2>2, <2>3, <2>4, Vacant
<1>. QED  BY <1>1, <1>2

\* A Codex whose pane is marked, or an empty pane, stays so until a respawn or
\* until the request is replaced or canceled.
LEMMA WillingStays ==
  ASSUME PaneIInv, Pane!Next, NEW p, Used(p), Willing(p), ~Pane!Cancel, \A force \in BOOLEAN : ~Pane!Request(force),
         \A w \in PaneWatchers : ~(Pane!Respawn(w) /\ Pane!Target(w) = p)
  PROVE  Willing(p)'
<1>0. pane \in [Pane!Panes -> {"unused", "gone", "shell", "codex"}] /\ marked \subseteq Pane!Panes
  BY DEF PaneIInv, Pane!TypeOK
<1>1. CASE \E q \in Pane!Panes : Pane!Start(q) \/ Pane!CodexEnds(q) \/ Pane!PaneCloses(q)
  BY <1>0, <1>1 DEF Pane!Start, Pane!CodexEnds, Pane!PaneCloses, Used, Willing, Pane!HasCodex
<1>2. CASE \E w \in PaneWatchers : Pane!Respawn(w)
  BY <1>0, <1>2 DEF Pane!Respawn, Used, Willing, Pane!HasCodex
<1>3. CASE UNCHANGED pane /\ marked \subseteq marked'
  BY <1>3 DEF Willing, Pane!HasCodex
<1>4. ASSUME NEW w \in PaneWatchers, Pane!Watch(w), ~Pane!Respawn(w)
      PROVE  UNCHANGED <<pane, marked>>
  BY <1>4 DEF Pane!Watch, Pane!Poll, Pane!Check, Pane!SendExit, Pane!SeeShell, Pane!TimeOut,
      Pane!Record, Pane!RecordFailure
<1>. QED
  BY <1>1, <1>2, <1>3, <1>4 DEF Pane!Next, Pane!Request, Pane!Ready, Pane!Cancel,
      Pane!StopGuardian, Pane!StartGuardian, Pane!PopenGuardian,
      Pane!RegisterGuardian, Pane!WriteStopped, Pane!WatchPane

\* Who is about to tell Codex to leave was so before, or has just taken a
\* request that is ready.
LEMMA TellFrom ==
  ASSUME 0 \notin PaneWatchers, PaneRequests \in Nat, PaneIInv, Pane!Next, NEW v \in PaneWatchers,
         paneWatcher'[v].pc \in {"check", "exit"}
  PROVE  \/ /\ Busy(v) /\ paneWatcher[v].pc \in {"check", "exit"} /\ Pane!Target(v)' = Pane!Target(v)
         \/ Pane!Poll(v) /\ paneRequest.status = "ready_to_exit" /\ Pane!Target(v)' = paneRequest.pane
<1>0. Pane!TypeOK /\ paneWatcher \in [PaneWatchers -> Pane!WatcherType]
  BY DEF PaneIInv, Pane!TypeOK
<1>1. CASE Pane!Poll(v) /\ paneRequest.status = "ready_to_exit" /\ Pane!Target(v)' = paneRequest.pane
  BY <1>1
<1>2. CASE Busy(v) /\ Pane!Target(v)' = Pane!Target(v)
  <2>1. CASE paneWatcher'[v] = paneWatcher[v]
    BY <1>2, <2>1
  <2>2. CASE Pane!StopGuardian
    BY <1>0, <2>1, <2>2, PaneStopped
  <2>3. CASE \E w \in PaneWatchers, b \in BOOLEAN : Pane!PopenGuardian(w) \/ Pane!WatchPane(w, b)
    <3>. PICK w \in PaneWatchers, once \in BOOLEAN : Pane!Spawn(w, once)
      BY <2>3 DEF Pane!PopenGuardian, Pane!WatchPane
    <3>. QED  BY <1>0, <2>1, PaneSpawned
  <2>4. CASE \E w \in PaneWatchers : Pane!Watch(w)
    <3>. PICK w \in PaneWatchers : Pane!Watch(w)
      BY <2>4
    <3>1. CASE v # w
      BY <1>0, <2>1, <3>1, Steps, Polls
    <3>2. CASE v = w
      <4>1. ~Pane!Poll(w)
        BY <1>2, <3>2 DEF Busy, Pane!Poll
      <4>2. ASSUME NEW label \in Labels, Pane!Goto(w, label)
            PROVE  label \in {"check", "exit"}
        BY <1>0, <3>2, <4>2, Goes
      <4>. QED
        BY <1>2, <3>2, <4>1, <4>2 DEF Pane!Watch, Pane!Check, Pane!SendExit, Pane!SeeShell,
            Pane!TimeOut, Pane!Respawn, Pane!Record, Pane!RecordFailure, Labels
    <3>. QED  BY <3>1, <3>2
  <2>. QED
    BY <2>1, <2>2, <2>3, <2>4 DEF Pane!Next, Pane!Start, Pane!CodexEnds, Pane!PaneCloses,
        Pane!Request, Pane!Ready, Pane!Cancel, Pane!StartGuardian, Pane!RegisterGuardian, Pane!WriteStopped
<1>3. Busy(v)'
  BY DEF Busy
<1>. QED  BY <1>1, <1>2, <1>3, BusyFrom

\* A respawn not yet recorded stays so, unless its watcher records it or is stopped.
LEMMA RecordingStays ==
  ASSUME 0 \notin PaneWatchers, PaneRequests \in Nat, PaneIInv, Pane!Next, ~disturbed',
         NEW w \in PaneWatchers, paneWatcher[w].pc = "record", ~Pane!Record(w)
  PROVE  paneWatcher'[w].pc = "record" /\ Pane!Target(w)' = Pane!Target(w)
<1>0. Pane!TypeOK
  BY DEF PaneIInv
<1>1. CASE paneWatcher'[w] = paneWatcher[w]
  BY <1>1 DEF Pane!Target
<1>2. CASE Pane!StopGuardian
  BY <1>0, <1>1, <1>2, PaneStopped DEF Pane!StopGuardian
<1>3. CASE \E v \in PaneWatchers, b \in BOOLEAN : Pane!PopenGuardian(v) \/ Pane!WatchPane(v, b)
  <2>. PICK v \in PaneWatchers, once \in BOOLEAN : Pane!Spawn(v, once)
    BY <1>3 DEF Pane!PopenGuardian, Pane!WatchPane
  <2>. QED  BY <1>0, <1>1, PaneSpawned
<1>4. CASE \E v \in PaneWatchers : Pane!Watch(v)
  <2>. PICK v \in PaneWatchers : Pane!Watch(v)
    BY <1>4
  <2>1. CASE v # w
    BY <1>0, <1>1, <2>1, Steps, Polls
  <2>2. CASE v = w
    BY <2>2 DEF Pane!Watch, Pane!Poll, Pane!Check, Pane!SendExit, Pane!SeeShell, Pane!TimeOut,
        Pane!Respawn, Pane!RecordFailure
  <2>. QED  BY <2>1, <2>2
<1>. QED
  BY <1>1, <1>2, <1>3, <1>4 DEF Pane!Next, Pane!Start, Pane!CodexEnds, Pane!PaneCloses,
      Pane!Request, Pane!Ready, Pane!Cancel, Pane!StartGuardian, Pane!RegisterGuardian, Pane!WriteStopped

\* A request that is ready was so before, or has just been marked.
LEMMA ReadyFrom ==
  ASSUME PaneIInv, Pane!Next, paneRequest'.status = "ready_to_exit"
  PROVE  /\ ~Pane!Cancel /\ \A force \in BOOLEAN : ~Pane!Request(force)
         /\ \A w \in PaneWatchers : ~Pane!Record(w)
         /\ \/ UNCHANGED paneRequest /\ paneRequest.status = "ready_to_exit"
            \/ Pane!Ready /\ paneRequest'.pane = paneRequest.pane
<1>0. paneRequest \in Pane!RequestType /\ paneWatcher \in [PaneWatchers -> Pane!WatcherType]
  BY DEF PaneIInv, Pane!TypeOK
<1>1. ASSUME NEW w \in PaneWatchers
      PROVE  ~Pane!Record(w) /\ ~Pane!RecordFailure(w)
  <2>1. paneWatcher[w].copy \in Pane!RequestType
    BY <1>0 DEF Pane!WatcherType
  <2>. QED  BY <2>1 DEF Pane!Record, Pane!RecordFailure, Pane!RequestType
<1>2. ASSUME NEW w \in PaneWatchers, Pane!Watch(w)
      PROVE  UNCHANGED paneRequest
  BY <1>1, <1>2 DEF Pane!Watch, Pane!Poll, Pane!Check, Pane!SendExit, Pane!SeeShell, Pane!TimeOut,
      Pane!Respawn
<1>3. ~Pane!Cancel /\ \A force \in BOOLEAN : ~Pane!Request(force)
  BY <1>0 DEF Pane!Cancel, Pane!Request, Pane!RequestType
<1>4. ASSUME Pane!Ready
      PROVE  paneRequest'.pane = paneRequest.pane
  BY <1>0, <1>4 DEF Pane!Ready, Pane!RequestType
<1>. QED
  BY <1>1, <1>2, <1>3, <1>4 DEF Pane!Next, Pane!Start, Pane!CodexEnds, Pane!PaneCloses,
      Pane!StopGuardian, Pane!StartGuardian, Pane!PopenGuardian,
      Pane!RegisterGuardian, Pane!WriteStopped, Pane!WatchPane

LEMMA ToldKept ==
  ASSUME 0 \notin PaneWatchers, PaneRequests \in Nat, PaneIInv, Pane!Next
  PROVE  Told'
<1>. SUFFICES ASSUME ~paneCrowded', ~disturbed'
              PROVE  /\ ~rude'
                     /\ paneRequest'.status = "ready_to_exit" => Willing(paneRequest.pane)' \/ PaneRecording(paneRequest.pane)'
                     /\ \A w \in PaneWatchers : paneWatcher'[w].pc \in {"check", "exit"} => Willing(Pane!Target(w))'
  BY DEF Told
<1>0. ~paneCrowded /\ Placed
  BY AliveFrom DEF PaneIInv
<1>1. ~disturbed
  <2>1. ASSUME NEW w \in PaneWatchers, Pane!Watch(w)
        PROVE  UNCHANGED disturbed
    BY <2>1 DEF Pane!Watch, Pane!Poll, Pane!Check, Pane!SendExit, Pane!SeeShell, Pane!TimeOut,
        Pane!Respawn, Pane!Record, Pane!RecordFailure
  <2>. QED
    BY <2>1 DEF Pane!Next, Pane!Start, Pane!CodexEnds, Pane!PaneCloses, Pane!Request, Pane!Ready,
        Pane!Cancel, Pane!StopGuardian, Pane!StartGuardian, Pane!PopenGuardian,
      Pane!RegisterGuardian, Pane!WriteStopped, Pane!WatchPane
<1>2. /\ ~rude /\ (paneRequest.status = "ready_to_exit" => Willing(paneRequest.pane) \/ PaneRecording(paneRequest.pane))
      /\ \A w \in PaneWatchers : paneWatcher[w].pc \in {"check", "exit"} => Willing(Pane!Target(w))
  BY <1>0, <1>1 DEF PaneIInv, Told
<1>3. ~rude'
  <2>1. CASE \E w \in PaneWatchers : Pane!SendExit(w)
    BY <1>2, <2>1 DEF Pane!SendExit, Willing
  <2>2. ASSUME NEW w \in PaneWatchers, Pane!Watch(w), ~Pane!SendExit(w)
        PROVE  UNCHANGED rude
    BY <2>2 DEF Pane!Watch, Pane!Poll, Pane!Check, Pane!SeeShell, Pane!TimeOut, Pane!Respawn,
        Pane!Record, Pane!RecordFailure
  <2>. QED
    BY <1>2, <2>1, <2>2 DEF Pane!Next, Pane!Start, Pane!CodexEnds, Pane!PaneCloses, Pane!Request,
        Pane!Ready, Pane!Cancel, Pane!StopGuardian, Pane!StartGuardian, Pane!PopenGuardian,
      Pane!RegisterGuardian, Pane!WriteStopped, Pane!WatchPane
<1>4. ASSUME paneRequest'.status = "ready_to_exit"
      PROVE  Willing(paneRequest.pane)' \/ PaneRecording(paneRequest.pane)'
  <2>1. CASE Pane!Ready
    <3>1. paneRequest'.pane = paneRequest.pane /\ paneRequest.pane \in marked'
      BY <1>4, <2>1, ReadyFrom DEF Pane!Ready
    <3>. QED  BY <3>1 DEF Willing
  <2>2. CASE UNCHANGED paneRequest /\ paneRequest.status = "ready_to_exit"
    <3>1. CASE PaneRecording(paneRequest.pane)
      <4>1. PICK w \in PaneWatchers : paneWatcher[w].pc = "record" /\ Pane!Target(w) = paneRequest.pane
        BY <3>1 DEF PaneRecording
      <4>2. paneWatcher'[w].pc = "record" /\ Pane!Target(w)' = Pane!Target(w)
        BY <1>4, <4>1, ReadyFrom, RecordingStays
      <4>3. Pane!Target(w)' = paneRequest'.pane
        BY <2>2, <4>1, <4>2
      <4>. QED  BY <4>2, <4>3 DEF PaneRecording
    <3>2. CASE \E w \in PaneWatchers : Pane!Respawn(w) /\ Pane!Target(w) = paneRequest.pane
      <4>1. PICK w \in PaneWatchers : Pane!Respawn(w) /\ Pane!Target(w) = paneRequest.pane
        BY <3>2
      <4>2. paneWatcher \in [PaneWatchers -> Pane!WatcherType]
        BY DEF PaneIInv, Pane!TypeOK
      <4>3. CASE Pane!Goto(w, "record")
        <5>1. paneWatcher'[w].pc = "record" /\ Pane!Target(w)' = Pane!Target(w)
          BY <4>2, <4>3, Goes DEF Labels, Pane!Target
        <5>2. Pane!Target(w)' = paneRequest'.pane
          BY <2>2, <4>1, <5>1
        <5>. QED  BY <5>1, <5>2 DEF PaneRecording
      <4>4. CASE pane[Pane!Target(w)] = "gone" /\ UNCHANGED pane
        <5>1. ~Pane!HasCodex(paneRequest.pane)'
          BY <2>2, <4>1, <4>4 DEF Pane!HasCodex
        <5>. QED  BY <5>1 DEF Willing
      <4>. QED  BY <4>1, <4>3, <4>4 DEF Pane!Respawn
    <3>3. CASE Willing(paneRequest.pane) /\ ~\E w \in PaneWatchers : Pane!Respawn(w) /\ Pane!Target(w) = paneRequest.pane
      <4>1. Willing(paneRequest.pane') /\ Used(paneRequest.pane)
        BY <1>0, <2>2, <3>3 DEF Placed
      <4>. QED  BY <1>4, <2>2, <3>3, <4>1, ReadyFrom, WillingStays DEF Willing, Pane!HasCodex
    <3>. QED  BY <1>2, <2>2, <3>1, <3>2, <3>3
  <2>. QED  BY <1>4, <2>1, <2>2, ReadyFrom
<1>5. ASSUME NEW v \in PaneWatchers, paneWatcher'[v].pc \in {"check", "exit"}
      PROVE  Willing(Pane!Target(v))'
  <2>1. Pane!Alive(v)
    BY <1>5, TellFrom DEF Busy, Pane!Alive, Pane!Poll
  <2>2. \A w \in PaneWatchers : ~Pane!Respawn(w)
    <3>. SUFFICES ASSUME NEW w \in PaneWatchers, Pane!Respawn(w)
                  PROVE  FALSE
      OBVIOUS
    <3>1. v = w
      BY <1>0, <2>1, OnlyOne DEF Pane!Respawn, Pane!Alive
    <3>. QED  BY <1>5, <3>1, TellFrom DEF Pane!Respawn, Pane!Poll
  <2>3. Willing(Pane!Target(v)')
    <3>1. CASE paneWatcher[v].pc \in {"check", "exit"} /\ Pane!Target(v)' = Pane!Target(v)
      BY <1>2, <3>1
    <3>2. CASE Pane!Poll(v) /\ paneRequest.status = "ready_to_exit" /\ Pane!Target(v)' = paneRequest.pane
      <4>1. ~PaneRecording(paneRequest.pane)
        BY <1>0, <2>1, <3>2, OnlyOne DEF PaneRecording, Pane!Alive, Pane!Poll
      <4>. QED  BY <1>2, <3>2, <4>1
    <3>. QED  BY <1>5, <3>1, <3>2, TellFrom
  <2>4. Used(Pane!Target(v)')
    <3>1. CASE Busy(v) /\ Pane!Target(v)' = Pane!Target(v)
      BY <1>0, <3>1 DEF Placed
    <3>2. CASE Pane!Target(v)' = paneRequest.pane
      BY <1>0, <3>2 DEF Placed
    <3>. QED  BY <1>5, <3>1, <3>2, TellFrom
  <2>5. ~Pane!Cancel /\ \A force \in BOOLEAN : ~Pane!Request(force)
    <3>1. CASE Pane!AtWork(v)
      BY <3>1 DEF Pane!Cancel, Pane!Request
    <3>2. CASE Pane!Poll(v)
      <4>1. UNCHANGED paneRequest /\ paneRequest \in Pane!RequestType
        BY <3>2 DEF Pane!Poll, PaneIInv, Pane!TypeOK
      <4>. QED  BY <4>1 DEF Pane!Cancel, Pane!Request, Pane!RequestType
    <3>. QED  BY <1>5, <3>1, <3>2, TellFrom DEF Busy, Pane!AtWork
  <2>. QED  BY <2>2, <2>3, <2>4, <2>5, WillingStays DEF Willing, Pane!HasCodex
<1>. QED  BY <1>3, <1>4, <1>5

-----------------------------------------------------------------------------
(* The theorems. *)

LEMMA PaneKept ==
  ASSUME 0 \notin PaneWatchers, PaneRequests \in Nat, MaxPanes \in Nat, PaneIInv, [Pane!Next]_(Pane!vars)
  PROVE  PaneIInv'
<1>1. CASE Pane!Next
  BY <1>1, PaneTypesKept, PlacedKept, PaneAloneKept, VacatedKept, ToldKept DEF PaneIInv
<1>2. CASE UNCHANGED Pane!vars
  BY <1>2 DEF PaneIInv, Pane!vars, Pane!calls, Pane!TypeOK, Placed, Used, Busy, Pane!Target, PaneAlone,
      Pane!Alive, Vacated, Told, Willing, Pane!HasCodex, PaneRecording
<1>. QED  BY <1>1, <1>2


\* What the invariant says of the panes.
LEMMA PaneImplied == PaneIInv => Pane!RespawnsOverNothing /\ Pane!ExitOnlyWhenReady
BY DEF PaneIInv, Vacated, Told, Pane!RespawnsOverNothing, Pane!ExitOnlyWhenReady

-----------------------------------------------------------------------------
(* The detached restart: the invariant. *)

Numbered ==
  /\ plugRequest.id <= issued
  /\ \A w \in PlugWatchers : plugWatcher[w].pc \in {"launch", "record"} => plugWatcher[w].copy.id \in 1..issued
  /\ plugRequest.status = "requested" => plugRequest.id \in 1..issued

Guards(w) == Plug!Alive(w) /\ plugWatcher[w].kind = "guardian"

\* As long as nothing has slipped: calls do not overlap; while one starts a
\* guardian no other lives; after it the one that lives is the registered one;
\* and a stop, which leaves none, writes back what is registered.
Registered ==
  ~slipped =>
    /\ \A v, w \in PlugWatchers : plugStarter[v] # "idle" /\ plugStarter[w] # "idle" => v = w
    /\ \A v, w \in PlugWatchers : plugStarter[v] # "idle" /\ Guards(w) => plugStarter[w] = "write"
    /\ \A w \in PlugWatchers : plugStarter[w] # "idle" => plugStopper = 0
    /\ \A w \in PlugWatchers : Guards(w) => guardian = w \/ plugStarter[w] = "write"
    /\ plugStopper # 0 => plugStopper = guardian /\ \A w \in PlugWatchers : ~Guards(w)

\* Watchers that do not overlap.
PlugAlone == ~plugCrowded => \A v, w \in PlugWatchers : Plug!Alive(v) /\ Plug!Alive(w) => v = w

Clean(r) == r \in plugTorn \/ launches[r] = 0
PlugRecording(r) == \E w \in PlugWatchers : plugWatcher[w].pc = "record" /\ plugWatcher[w].copy.id = r

\* What may still be launched has not been: the numbers to come, the request
\* that waits unless its launch is about to be recorded, and what a watcher has
\* taken.
Fresh ==
  ~plugCrowded =>
    /\ \A r \in Plug!Ids : r > issued => launches[r] = 0
    /\ plugRequest.status = "requested" => Clean(plugRequest.id) \/ PlugRecording(plugRequest.id)
    /\ \A w \in PlugWatchers : plugWatcher[w].pc = "launch" => Clean(plugWatcher[w].copy.id)
    /\ Plug!LaunchedOnce

PlugIInv == Plug!TypeOK /\ Numbered /\ Registered /\ PlugAlone /\ Fresh

-----------------------------------------------------------------------------
LEMMA PlugInitially == ASSUME PlugRequests \in Nat PROVE Plug!Init => PlugIInv
<1>. SUFFICES ASSUME Plug!Init PROVE PlugIInv
  OBVIOUS
<1>1. 0 \in 0..PlugRequests
  OBVIOUS
<1>2. Plug!NoRequest \in Plug!RequestType
  BY <1>1 DEF Plug!NoRequest, Plug!RequestType
<1>3. Plug!TypeOK
  <2>1. plugRequest \in Plug!RequestType /\ issued \in 0..PlugRequests /\ guardian \in PlugWatchers \cup {0}
    BY <1>1, <1>2 DEF Plug!Init
  <2>2. plugWatcher \in [PlugWatchers -> Plug!WatcherType]
    BY <1>2 DEF Plug!Init, Plug!Unborn, Plug!WatcherType
  <2>3. launches \in [Plug!Ids -> Nat] /\ plugTorn \subseteq Plug!Ids
    BY DEF Plug!Init
  <2>4. /\ slipped \in BOOLEAN /\ plugCrowded \in BOOLEAN
        /\ plugStarter \in [PlugWatchers -> {"idle", "popen", "write"}] /\ plugStopper \in PlugWatchers \cup {0}
    BY DEF Plug!Init
  <2>. QED  BY <2>1, <2>2, <2>3, <2>4 DEF Plug!TypeOK
<1>4. \A w \in PlugWatchers : plugWatcher[w].pc = "unborn"
  BY DEF Plug!Init, Plug!Unborn
<1>5. plugRequest.id = 0 /\ plugRequest.status = "none" /\ issued = 0
  BY DEF Plug!Init, Plug!NoRequest
<1>6. Numbered /\ Registered /\ PlugAlone
  <2>1. plugStopper = 0 /\ \A w \in PlugWatchers : plugStarter[w] = "idle"
    BY DEF Plug!Init
  <2>2. \A w \in PlugWatchers : ~Plug!Alive(w)
    BY <1>4 DEF Plug!Alive
  <2>. QED  BY <1>4, <1>5, <2>1, <2>2 DEF Numbered, Registered, Guards, PlugAlone
<1>7. Fresh
  BY <1>4, <1>5 DEF Plug!Init, Fresh, Plug!LaunchedOnce
<1>. QED  BY <1>3, <1>6, <1>7 DEF PlugIInv


\* Where a watcher goes, and what it takes along.
LEMMA Moves ==
  ASSUME plugWatcher \in [PlugWatchers -> Plug!WatcherType], NEW w \in PlugWatchers,
         NEW label \in {"unborn", "poll", "launch", "record", "ended"}, NEW copy \in Plug!RequestType
  PROVE  /\ [plugWatcher EXCEPT ![w].pc = label] \in [PlugWatchers -> Plug!WatcherType]
         /\ [plugWatcher EXCEPT ![w].pc = label, ![w].copy = copy] \in [PlugWatchers -> Plug!WatcherType]
BY DEF Plug!WatcherType

\* No command and no watcher leaves the types.
LEMMA PlugTypesKept ==
  ASSUME PlugRequests \in Nat, Plug!TypeOK, Numbered, [Plug!Next]_(Plug!vars)
  PROVE  Plug!TypeOK'
<1>. USE DEF Plug!TypeOK, Plug!calls
<1>1. ASSUME NEW force, Plug!RequestRestart(force) PROVE Plug!TypeOK'
  <2>1. issued' \in 0..PlugRequests /\ issued' = issued + 1
    BY <1>1 DEF Plug!RequestRestart
  <2>2. plugRequest' \in Plug!RequestType
    BY <1>1, <2>1 DEF Plug!RequestRestart, Plug!RequestType
  <2>. QED  BY <1>1, <2>1, <2>2 DEF Plug!RequestRestart
<1>2. ASSUME Plug!Cancel PROVE Plug!TypeOK'
  <2>1. plugRequest' \in Plug!RequestType
    BY <1>2 DEF Plug!Cancel, Plug!RequestType
  <2>. QED  BY <1>2, <2>1 DEF Plug!Cancel
<1>3. ASSUME Plug!DelayEnds PROVE Plug!TypeOK'
  <2>1. plugRequest' \in Plug!RequestType
    BY <1>3 DEF Plug!DelayEnds, Plug!RequestType
  <2>. QED  BY <1>3, <2>1 DEF Plug!DelayEnds
<1>4. ASSUME Plug!StopGuardian PROVE Plug!TypeOK'
  <2>1. guardian \in PlugWatchers
    BY <1>4 DEF Plug!StopGuardian
  <2>2. plugWatcher' \in [PlugWatchers -> Plug!WatcherType]
    <3>1. CASE Plug!Alive(guardian)
      <4>1. plugWatcher' = [plugWatcher EXCEPT ![guardian].pc = "ended"]
        BY <1>4, <3>1 DEF Plug!StopGuardian
      <4>. QED  BY <2>1, <4>1, Moves
    <3>2. CASE ~Plug!Alive(guardian)
      BY <1>4, <3>2 DEF Plug!StopGuardian
    <3>. QED  BY <3>1, <3>2
  <2>3. plugTorn' \subseteq Plug!Ids
    <3>1. plugWatcher[guardian].pc = "record" => plugWatcher[guardian].copy.id \in Plug!Ids
      BY <2>1 DEF Numbered, Plug!Ids
    <3>. QED  BY <1>4, <3>1 DEF Plug!StopGuardian
  <2>4. slipped' \in BOOLEAN
    BY <1>4, Zenon DEF Plug!StopGuardian
  <2>. QED  BY <1>4, <2>1, <2>2, <2>3, <2>4 DEF Plug!StopGuardian
<1>5. ASSUME NEW w \in PlugWatchers, NEW kind \in {"guardian", "terminal", "once"}, Plug!Spawn(w, kind),
             PlugRequests \in Nat
      PROVE  plugWatcher' \in [PlugWatchers -> Plug!WatcherType] /\ plugCrowded' \in BOOLEAN
  <2>1. Plug!NoRequest \in Plug!RequestType
    BY DEF Plug!NoRequest, Plug!RequestType
  <2>2. [Plug!Unborn EXCEPT !.pc = "poll", !.kind = kind] \in Plug!WatcherType
    BY <2>1 DEF Plug!Unborn, Plug!WatcherType
  <2>3. plugWatcher' \in [PlugWatchers -> Plug!WatcherType]
    BY <1>5, <2>2 DEF Plug!Spawn
  <2>4. plugCrowded' \in BOOLEAN
    BY <1>5 DEF Plug!Spawn
  <2>. QED  BY <2>3, <2>4
<1>6. ASSUME NEW w \in PlugWatchers, NEW force \in BOOLEAN, Plug!StartGuardian(w, force) PROVE Plug!TypeOK'
  <2>1. slipped' \in BOOLEAN
    BY <1>6, Zenon DEF Plug!StartGuardian
  <2>2. plugStarter' \in [PlugWatchers -> {"idle", "popen", "write"}]
    BY <1>6 DEF Plug!StartGuardian
  <2>. QED  BY <1>6, <2>1, <2>2 DEF Plug!StartGuardian
<1>7. ASSUME NEW w \in PlugWatchers, NEW kind \in {"terminal", "once"}, Plug!WatchRequests(w, kind) PROVE Plug!TypeOK'
  <2>1. /\ Plug!Spawn(w, kind)
        /\ UNCHANGED <<plugRequest, issued, guardian, plugStarter, plugStopper, launches, slipped, plugTorn>>
    BY <1>7 DEF Plug!WatchRequests, Plug!calls
  <2>2. plugWatcher' \in [PlugWatchers -> Plug!WatcherType] /\ plugCrowded' \in BOOLEAN
    BY <1>5, <2>1
  <2>. QED  BY <2>1, <2>2
<1>12. ASSUME NEW w \in PlugWatchers, Plug!PopenGuardian(w) PROVE Plug!TypeOK'
  <2>1. /\ Plug!Spawn(w, "guardian")
        /\ UNCHANGED <<plugRequest, issued, guardian, plugStopper, launches, slipped, plugTorn>>
    BY <1>12 DEF Plug!PopenGuardian
  <2>2. plugWatcher' \in [PlugWatchers -> Plug!WatcherType] /\ plugCrowded' \in BOOLEAN
    BY <1>5, <2>1
  <2>3. plugStarter' \in [PlugWatchers -> {"idle", "popen", "write"}]
    BY <1>12 DEF Plug!PopenGuardian
  <2>. QED  BY <2>1, <2>2, <2>3
<1>13. ASSUME NEW w \in PlugWatchers, Plug!RegisterGuardian(w) PROVE Plug!TypeOK'
  BY <1>13 DEF Plug!RegisterGuardian
<1>14. ASSUME NEW w \in PlugWatchers, Plug!CutStart(w) PROVE Plug!TypeOK'
  BY <1>14 DEF Plug!CutStart
<1>15. ASSUME Plug!WriteStopped PROVE Plug!TypeOK'
  BY <1>15 DEF Plug!WriteStopped
<1>8. ASSUME NEW w \in PlugWatchers, Plug!Poll(w) PROVE Plug!TypeOK'
  <2>1. plugWatcher' \in [PlugWatchers -> Plug!WatcherType]
    <3>1. \/ plugWatcher' = [plugWatcher EXCEPT ![w].pc = "launch", ![w].copy = plugRequest]
          \/ plugWatcher' = [plugWatcher EXCEPT ![w].pc = "ended"]
      BY <1>8 DEF Plug!Poll
    <3>2. plugRequest \in Plug!RequestType /\ plugWatcher \in [PlugWatchers -> Plug!WatcherType]
      OBVIOUS
    <3>3. [plugWatcher EXCEPT ![w].pc = "launch", ![w].copy = plugRequest] \in [PlugWatchers -> Plug!WatcherType]
      BY <3>2, Moves
    <3>4. [plugWatcher EXCEPT ![w].pc = "ended"] \in [PlugWatchers -> Plug!WatcherType]
      BY <3>2, Moves
    <3>. QED  BY <3>1, <3>3, <3>4
  <2>. QED  BY <1>8, <2>1 DEF Plug!Poll
<1>9. ASSUME NEW w \in PlugWatchers, Plug!Launch(w) PROVE Plug!TypeOK'
  <2>1. plugWatcher' \in [PlugWatchers -> Plug!WatcherType]
    BY <1>9, Moves DEF Plug!Launch
  <2>2. launches' \in [Plug!Ids -> Nat]
    <3>1. plugWatcher[w].copy.id \in Plug!Ids
      BY <1>9 DEF Plug!Launch, Numbered, Plug!Ids
    <3>. QED  BY <1>9, <3>1 DEF Plug!Launch
  <2>. QED  BY <1>9, <2>1, <2>2 DEF Plug!Launch
<1>10. ASSUME NEW w \in PlugWatchers, Plug!Record(w) PROVE Plug!TypeOK'
  <2>1. plugWatcher' \in [PlugWatchers -> Plug!WatcherType]
    BY <1>10, Moves DEF Plug!Record
  <2>2. plugRequest' \in Plug!RequestType
    <3>1. plugWatcher[w].copy \in Plug!RequestType
      BY DEF Plug!WatcherType
    <3>. QED  BY <1>10, <3>1 DEF Plug!Record, Plug!RequestType
  <2>. QED  BY <1>10, <2>1, <2>2 DEF Plug!Record
<1>11. ASSUME UNCHANGED Plug!vars PROVE Plug!TypeOK'
  BY <1>11 DEF Plug!vars, Plug!calls
<1>. QED
  BY <1>1, <1>2, <1>3, <1>4, <1>6, <1>7, <1>8, <1>9, <1>10, <1>11, <1>12, <1>13, <1>14, <1>15
     DEF Plug!Next, Plug!Watch

-----------------------------------------------------------------------------
(* Who is alive, and where. *)

\* A watcher's step changes its own place only.
LEMMA Places ==
  ASSUME Plug!TypeOK, NEW w \in PlugWatchers, NEW v \in PlugWatchers
  PROVE  /\ Plug!Watch(w) => plugWatcher[w].pc \in {"poll", "launch", "record"}
         /\ Plug!Watch(w) => plugWatcher'[v].kind = plugWatcher[v].kind
         /\ Plug!Watch(w) /\ v # w => plugWatcher'[v] = plugWatcher[v]
         /\ Plug!Poll(w) => \/ plugWatcher'[w].pc = "launch" /\ plugWatcher'[w].copy = plugRequest /\ plugRequest.status = "requested"
                       \/ plugWatcher'[w].pc = "ended"
         /\ Plug!Launch(w) => plugWatcher'[w].pc = "record" /\ plugWatcher'[w].copy = plugWatcher[w].copy
         /\ Plug!Record(w) => plugWatcher'[w].pc \in {"poll", "ended"} /\ plugWatcher'[w].copy = plugWatcher[w].copy
<1>1. plugWatcher \in [PlugWatchers -> Plug!WatcherType]
  BY DEF Plug!TypeOK
<1>2. ASSUME Plug!Poll(w)
      PROVE  /\ plugWatcher[w].pc = "poll" /\ plugWatcher'[v].kind = plugWatcher[v].kind
             /\ v # w => plugWatcher'[v] = plugWatcher[v]
             /\ \/ plugWatcher'[w].pc = "launch" /\ plugWatcher'[w].copy = plugRequest /\ plugRequest.status = "requested"
                \/ plugWatcher'[w].pc = "ended"
  <2>1. \/ /\ plugWatcher' = [plugWatcher EXCEPT ![w].pc = "launch", ![w].copy = plugRequest]
           /\ plugRequest.status = "requested"
        \/ plugWatcher' = [plugWatcher EXCEPT ![w].pc = "ended"]
    BY <1>2 DEF Plug!Poll
  <2>. QED  BY <1>1, <1>2, <2>1 DEF Plug!Poll, Plug!WatcherType
<1>3. ASSUME Plug!Launch(w)
      PROVE  /\ plugWatcher[w].pc = "launch" /\ plugWatcher'[v].kind = plugWatcher[v].kind
             /\ v # w => plugWatcher'[v] = plugWatcher[v]
             /\ plugWatcher'[w].pc = "record" /\ plugWatcher'[w].copy = plugWatcher[w].copy
  BY <1>1, <1>3 DEF Plug!Launch, Plug!WatcherType
<1>4. ASSUME Plug!Record(w)
      PROVE  /\ plugWatcher[w].pc = "record" /\ plugWatcher'[v].kind = plugWatcher[v].kind
             /\ v # w => plugWatcher'[v] = plugWatcher[v]
             /\ plugWatcher'[w].pc \in {"poll", "ended"} /\ plugWatcher'[w].copy = plugWatcher[w].copy
  BY <1>1, <1>4 DEF Plug!Record, Plug!WatcherType
<1>. QED  BY <1>2, <1>3, <1>4 DEF Plug!Watch

LEMMA PlugSpawned ==
  ASSUME Plug!TypeOK, NEW w \in PlugWatchers, NEW v \in PlugWatchers, NEW kind, Plug!Spawn(w, kind)
  PROVE  /\ plugWatcher[w].pc = "unborn" /\ plugWatcher'[w].pc = "poll" /\ plugWatcher'[w].kind = kind
         /\ v # w => plugWatcher'[v] = plugWatcher[v]
         /\ Plug!Alive(v) => plugCrowded'
         /\ plugCrowded => plugCrowded'
BY DEF Plug!TypeOK, Plug!WatcherType, Plug!Spawn, Plug!Unborn

LEMMA PlugStopped ==
  ASSUME Plug!TypeOK, NEW v \in PlugWatchers, Plug!StopGuardian
  PROVE  /\ guardian \in PlugWatchers
         /\ v # guardian => plugWatcher'[v] = plugWatcher[v]
         /\ plugWatcher'[guardian].pc \in {plugWatcher[guardian].pc, "ended"}
         /\ plugWatcher'[guardian].kind = plugWatcher[guardian].kind
         /\ plugWatcher'[guardian].copy = plugWatcher[guardian].copy
         /\ plugWatcher'[guardian].pc \in {"unborn", "ended"}
<1>1. guardian \in PlugWatchers /\ plugWatcher \in [PlugWatchers -> Plug!WatcherType]
  BY DEF Plug!TypeOK, Plug!StopGuardian
<1>2. CASE Plug!Alive(guardian)
  <2>1. plugWatcher' = [plugWatcher EXCEPT ![guardian].pc = "ended"]
    BY <1>2 DEF Plug!StopGuardian
  <2>. QED  BY <1>1, <2>1 DEF Plug!WatcherType, Plug!Alive
<1>3. CASE ~Plug!Alive(guardian)
  <2>1. plugWatcher' = plugWatcher
    BY <1>3 DEF Plug!StopGuardian
  <2>. QED  BY <1>1, <1>3, <2>1 DEF Plug!Alive
<1>. QED  BY <1>1, <1>2, <1>3

\* What a step of a call that starts or stops a guardian, other than the start of
\* the process itself, leaves to the watchers.
Calls ==
  \/ Plug!WriteStopped
  \/ \E w \in PlugWatchers :
       \/ \E force \in BOOLEAN : Plug!StartGuardian(w, force)
       \/ Plug!RegisterGuardian(w) \/ Plug!CutStart(w)

LEMMA CallsKeep ==
  Calls => UNCHANGED <<plugRequest, issued, plugWatcher, launches, plugCrowded, plugTorn>>
BY DEF Calls, Plug!WriteStopped, Plug!StartGuardian, Plug!RegisterGuardian, Plug!CutStart

-----------------------------------------------------------------------------
LEMMA NumberedKept == ASSUME PlugRequests \in Nat, Plug!TypeOK, Numbered, [Plug!Next]_(Plug!vars) PROVE Numbered'
<1>. USE DEF Numbered
<1>0. /\ plugWatcher \in [PlugWatchers -> Plug!WatcherType] /\ issued \in Nat /\ plugRequest \in Plug!RequestType
      /\ PlugRequests \in Nat
  BY DEF Plug!TypeOK
<1>1. ASSUME NEW force, Plug!RequestRestart(force) PROVE Numbered'
  <2>1. issued' = issued + 1 /\ plugRequest'.id = issued + 1 /\ plugWatcher' = plugWatcher
    BY <1>1 DEF Plug!RequestRestart
  <2>. QED  BY <1>0, <2>1
<1>2. ASSUME Plug!Cancel \/ Plug!DelayEnds PROVE Numbered'
  <2>1. /\ plugRequest'.id = plugRequest.id /\ issued' = issued /\ plugWatcher' = plugWatcher
        /\ plugRequest'.status \in {plugRequest.status, "canceled"}
    BY <1>0, <1>2 DEF Plug!Cancel, Plug!DelayEnds, Plug!RequestType
  <2>. QED  BY <2>1
<1>3. ASSUME Plug!StopGuardian PROVE Numbered'
  <2>1. UNCHANGED <<plugRequest, issued>>
    BY <1>3 DEF Plug!StopGuardian
  <2>. QED  BY <1>3, <2>1, PlugStopped
<1>4. ASSUME NEW w \in PlugWatchers, NEW kind, Plug!Spawn(w, kind), UNCHANGED <<plugRequest, issued>> PROVE Numbered'
  BY <1>4, PlugSpawned
<1>5. ASSUME NEW w \in PlugWatchers, Plug!Watch(w) PROVE Numbered'
  <2>1. CASE Plug!Poll(w)
    <3>1. UNCHANGED <<plugRequest, issued>>
      BY <2>1 DEF Plug!Poll
    <3>. QED  BY <1>5, <2>1, <3>1, Places
  <2>2. CASE Plug!Launch(w)
    <3>1. UNCHANGED <<plugRequest, issued>> /\ plugWatcher[w].pc = "launch"
      BY <2>2 DEF Plug!Launch
    <3>. QED  BY <1>5, <2>2, <3>1, Places
  <2>3. CASE Plug!Record(w)
    <3>1. /\ UNCHANGED issued /\ plugWatcher[w].pc = "record"
          /\ plugRequest'.id = plugWatcher[w].copy.id /\ plugRequest'.status = "launched"
      BY <1>0, <2>3 DEF Plug!Record, Plug!WatcherType, Plug!RequestType
    <3>2. plugWatcher[w].copy.id \in 1..issued
      BY <3>1
    <3>. QED  BY <1>0, <1>5, <2>3, <3>1, <3>2, Places
  <2>. QED  BY <1>5, <2>1, <2>2, <2>3 DEF Plug!Watch
<1>6. ASSUME UNCHANGED Plug!vars \/ Calls PROVE Numbered'
  <2>1. UNCHANGED <<plugRequest, issued, plugWatcher>>
    BY <1>6, CallsKeep DEF Plug!vars
  <2>. QED  BY <2>1
<1>7. ASSUME NEW w \in PlugWatchers, Plug!PopenGuardian(w) PROVE Numbered'
  BY <1>4, <1>7 DEF Plug!PopenGuardian
<1>8. ASSUME NEW w \in PlugWatchers, NEW kind \in {"terminal", "once"}, Plug!WatchRequests(w, kind) PROVE Numbered'
  BY <1>4, <1>8 DEF Plug!WatchRequests
<1>. QED  BY <1>1, <1>2, <1>3, <1>5, <1>6, <1>7, <1>8 DEF Plug!Next, Calls

\* What a guardian's life depends on.
LEMMA GuardsSame ==
  ASSUME NEW w, plugWatcher'[w].pc = plugWatcher[w].pc, plugWatcher'[w].kind = plugWatcher[w].kind
  PROVE  Guards(w)' <=> Guards(w)
BY DEF Guards, Plug!Alive

\* Nothing else than a call touches guardian.json, and no watcher but the one
\* that a call starts becomes a guardian.
LEMMA RegisteredStays ==
  ASSUME Registered, UNCHANGED <<guardian, plugStarter, plugStopper, slipped>>,
         \A w \in PlugWatchers : Guards(w)' => Guards(w)
  PROVE  Registered'
BY DEF Registered

\* An unforced start looks at the registered process, the only guardian there
\* can be; a start that nothing overlaps registers the guardian it made.
LEMMA RegisteredKept ==
  ASSUME 0 \notin PlugWatchers, Plug!TypeOK, Registered, [Plug!Next]_(Plug!vars)
  PROVE  Registered'
<1>0. /\ plugWatcher \in [PlugWatchers -> Plug!WatcherType] /\ guardian \in PlugWatchers \cup {0}
      /\ plugStarter \in [PlugWatchers -> {"idle", "popen", "write"}] /\ plugStopper \in PlugWatchers \cup {0}
  BY DEF Plug!TypeOK
<1>1. CASE \/ \E force \in BOOLEAN : Plug!RequestRestart(force)
           \/ Plug!Cancel \/ Plug!DelayEnds \/ UNCHANGED Plug!vars
  <2>1. UNCHANGED <<plugWatcher, guardian, plugStarter, plugStopper, slipped>>
    BY <1>1 DEF Plug!RequestRestart, Plug!Cancel, Plug!DelayEnds, Plug!vars, Plug!calls
  <2>. QED  BY <2>1, RegisteredStays, GuardsSame
<1>2. CASE Plug!StopGuardian
  <2>. SUFFICES ASSUME ~slipped' PROVE Registered'
    BY DEF Registered
  <2>1. ~slipped /\ ~Plug!Calling
    BY <1>2, Zenon DEF Plug!StopGuardian
  <2>2. UNCHANGED <<guardian, plugStarter>> /\ plugStopper' = guardian
    BY <1>2 DEF Plug!StopGuardian
  <2>3. \A w \in PlugWatchers : plugStarter[w] = "idle"
    BY <2>1 DEF Plug!Calling
  <2>4. \A w \in PlugWatchers : ~Guards(w)'
    <3>. SUFFICES ASSUME NEW w \in PlugWatchers, Guards(w)' PROVE FALSE
      OBVIOUS
    <3>1. w # guardian /\ plugWatcher'[w] = plugWatcher[w]
      BY <1>2, PlugStopped DEF Guards, Plug!Alive
    <3>2. Guards(w)
      BY <3>1, GuardsSame
    <3>. QED  BY <2>1, <2>3, <3>1, <3>2 DEF Registered
  <2>. QED  BY <2>2, <2>3, <2>4 DEF Registered
<1>3. ASSUME NEW u \in PlugWatchers, NEW force \in BOOLEAN, Plug!StartGuardian(u, force) PROVE Registered'
  <2>. SUFFICES ASSUME ~slipped' PROVE Registered'
    BY DEF Registered
  <2>1. ~slipped /\ ~force /\ ~Plug!Calling
    BY <1>3, Zenon DEF Plug!StartGuardian
  <2>2. /\ plugStarter' = [plugStarter EXCEPT ![u] = "popen"]
        /\ UNCHANGED <<guardian, plugWatcher, plugStopper>>
        /\ ~(guardian # 0 /\ Plug!Alive(guardian))
    BY <1>3, <2>1 DEF Plug!StartGuardian
  <2>3. plugStopper = 0 /\ \A w \in PlugWatchers : plugStarter[w] = "idle"
    BY <2>1 DEF Plug!Calling
  <2>4. \A w \in PlugWatchers : ~Guards(w)
    BY <2>1, <2>2, <2>3 DEF Registered, Guards
  <2>5. \A w \in PlugWatchers : ~Guards(w)'
    BY <2>2, <2>4, GuardsSame
  <2>6. \A w \in PlugWatchers : plugStarter'[w] # "idle" => w = u
    BY <1>0, <2>2, <2>3
  <2>. QED  BY <2>2, <2>3, <2>5, <2>6 DEF Registered
<1>4. ASSUME NEW u \in PlugWatchers, Plug!PopenGuardian(u) PROVE Registered'
  <2>. SUFFICES ASSUME ~slipped' PROVE Registered'
    BY DEF Registered
  <2>1. /\ ~slipped /\ plugStarter[u] = "popen" /\ plugStarter' = [plugStarter EXCEPT ![u] = "write"]
        /\ Plug!Spawn(u, "guardian") /\ UNCHANGED <<guardian, plugStopper>>
    BY <1>4 DEF Plug!PopenGuardian
  <2>2. \A w \in PlugWatchers : plugStarter[w] # "idle" => w = u
    BY <2>1 DEF Registered
  <2>3. plugStopper = 0 /\ \A w \in PlugWatchers : ~Guards(w)
    BY <2>1, <2>2 DEF Registered
  <2>4. \A w \in PlugWatchers : w # u => ~Guards(w)'
    BY <2>1, <2>3, PlugSpawned, GuardsSame
  <2>5. \A w \in PlugWatchers : plugStarter'[w] # "idle" => w = u
    BY <1>0, <2>1, <2>2
  <2>6. plugStarter'[u] = "write"
    BY <1>0, <2>1
  <2>. QED  BY <2>1, <2>3, <2>4, <2>5, <2>6 DEF Registered
<1>5. ASSUME NEW u \in PlugWatchers, Plug!RegisterGuardian(u) PROVE Registered'
  <2>. SUFFICES ASSUME ~slipped' PROVE Registered'
    BY DEF Registered
  <2>1. /\ ~slipped /\ plugStarter[u] = "write" /\ plugStarter' = [plugStarter EXCEPT ![u] = "idle"]
        /\ guardian' = u /\ UNCHANGED <<plugWatcher, plugStopper>>
    BY <1>5 DEF Plug!RegisterGuardian
  <2>2. plugStopper = 0 /\ \A w \in PlugWatchers : plugStarter[w] # "idle" \/ Guards(w) => w = u
    BY <2>1 DEF Registered
  <2>3. \A w \in PlugWatchers : plugStarter'[w] = "idle"
    BY <1>0, <2>1, <2>2
  <2>4. \A w \in PlugWatchers : Guards(w)' => w = u
    BY <2>1, <2>2, GuardsSame
  <2>. QED  BY <2>1, <2>2, <2>3, <2>4 DEF Registered
<1>6. CASE Plug!WriteStopped
  <2>1. plugStopper # 0 /\ plugStopper' = 0 /\ guardian' = plugStopper /\ UNCHANGED <<plugWatcher, plugStarter, slipped>>
    BY <1>6 DEF Plug!WriteStopped
  <2>2. \A w \in PlugWatchers : Guards(w)' <=> Guards(w)
    BY <2>1, GuardsSame
  <2>. QED  BY <2>1, <2>2 DEF Registered
<1>7. ASSUME NEW u \in PlugWatchers, Plug!CutStart(u) PROVE Registered'
  BY <1>7 DEF Plug!CutStart, Registered
<1>8. ASSUME NEW u \in PlugWatchers, NEW kind \in {"terminal", "once"}, Plug!WatchRequests(u, kind)
      PROVE  Registered'
  <2>1. /\ Plug!Spawn(u, kind) /\ kind # "guardian"
        /\ UNCHANGED <<guardian, plugStarter, plugStopper, slipped>>
    BY <1>8 DEF Plug!WatchRequests, Plug!calls
  <2>2. \A w \in PlugWatchers : Guards(w)' => Guards(w)
    <3>. SUFFICES ASSUME NEW w \in PlugWatchers, Guards(w)' PROVE Guards(w)
      OBVIOUS
    <3>1. w # u
      BY <2>1, PlugSpawned DEF Guards
    <3>. QED  BY <2>1, <3>1, PlugSpawned, GuardsSame
  <2>. QED  BY <2>1, <2>2, RegisteredStays
<1>9. ASSUME NEW u \in PlugWatchers, Plug!Watch(u) PROVE Registered'
  <2>1. UNCHANGED <<guardian, plugStarter, plugStopper, slipped>>
    BY <1>9 DEF Plug!Watch, Plug!Poll, Plug!Launch, Plug!Record, Plug!calls
  <2>2. \A w \in PlugWatchers : Guards(w)' => Guards(w)
    BY <1>9, Places DEF Guards, Plug!Alive
  <2>. QED  BY <2>1, <2>2, RegisteredStays
<1>. QED  BY <1>1, <1>2, <1>3, <1>4, <1>5, <1>6, <1>7, <1>8, <1>9 DEF Plug!Next

LEMMA PlugAloneKept == ASSUME Plug!TypeOK, PlugAlone, [Plug!Next]_(Plug!vars) PROVE PlugAlone' /\ (plugCrowded => plugCrowded')
<1>0. plugCrowded \in BOOLEAN
  BY DEF Plug!TypeOK
<1>1. CASE \/ \E force \in BOOLEAN : Plug!RequestRestart(force)
           \/ Plug!Cancel \/ Plug!DelayEnds \/ Calls \/ UNCHANGED Plug!vars
  <2>1. UNCHANGED <<plugWatcher, plugCrowded>>
    BY <1>1, CallsKeep DEF Plug!RequestRestart, Plug!Cancel, Plug!DelayEnds, Plug!vars
  <2>. QED  BY <2>1 DEF PlugAlone, Plug!Alive
<1>2. CASE Plug!StopGuardian
  <2>1. UNCHANGED plugCrowded
    BY <1>2 DEF Plug!StopGuardian
  <2>. QED  BY <1>2, <2>1, PlugStopped DEF PlugAlone, Plug!Alive
<1>3. ASSUME NEW u \in PlugWatchers, NEW kind, Plug!Spawn(u, kind) PROVE PlugAlone' /\ (plugCrowded => plugCrowded')
  BY <1>3, PlugSpawned DEF PlugAlone, Plug!Alive
<1>4. ASSUME NEW u \in PlugWatchers, Plug!Watch(u) PROVE PlugAlone' /\ (plugCrowded => plugCrowded')
  <2>1. UNCHANGED plugCrowded
    BY <1>4 DEF Plug!Watch, Plug!Poll, Plug!Launch, Plug!Record
  <2>2. \A v \in PlugWatchers : Plug!Alive(v)' => Plug!Alive(v)
    BY <1>4, Places DEF Plug!Alive
  <2>. QED  BY <2>1, <2>2 DEF PlugAlone
<1>5. ASSUME NEW w \in PlugWatchers, Plug!PopenGuardian(w) PROVE PlugAlone' /\ (plugCrowded => plugCrowded')
  BY <1>3, <1>5 DEF Plug!PopenGuardian
<1>6. ASSUME NEW w \in PlugWatchers, NEW kind \in {"terminal", "once"}, Plug!WatchRequests(w, kind)
      PROVE PlugAlone' /\ (plugCrowded => plugCrowded')
  BY <1>3, <1>6 DEF Plug!WatchRequests
<1>. QED  BY <1>1, <1>2, <1>4, <1>5, <1>6 DEF Plug!Next, Calls

-----------------------------------------------------------------------------
\* A launch is counted where its request was clean, and what is recorded does
\* not wait any more.
LEMMA FreshKept ==
  ASSUME PlugRequests \in Nat, Plug!TypeOK, Numbered, PlugAlone, Fresh, [Plug!Next]_(Plug!vars), ~plugCrowded'
  PROVE  Fresh'
<1>0. /\ plugWatcher \in [PlugWatchers -> Plug!WatcherType] /\ issued \in Nat /\ plugRequest \in Plug!RequestType
      /\ launches \in [Plug!Ids -> Nat] /\ ~plugCrowded
  BY PlugAloneKept DEF Plug!TypeOK
<1>1. ASSUME NEW force, Plug!RequestRestart(force) PROVE Fresh'
  <2>1. /\ issued' = issued + 1 /\ issued < PlugRequests /\ plugRequest'.id = issued + 1
        /\ UNCHANGED <<plugWatcher, launches, plugTorn, plugCrowded>>
    BY <1>1 DEF Plug!RequestRestart
  <2>2. issued + 1 \in Plug!Ids /\ launches[issued + 1] = 0
    BY <1>0, <2>1 DEF Fresh, Plug!Ids
  <2>. QED  BY <1>0, <2>1, <2>2 DEF Fresh, Clean, PlugRecording, Plug!LaunchedOnce, Plug!Ids
<1>2. ASSUME Plug!Cancel \/ Plug!DelayEnds PROVE Fresh'
  <2>1. /\ plugRequest'.id = plugRequest.id /\ plugRequest'.status \in {plugRequest.status, "canceled"}
        /\ UNCHANGED <<issued, plugWatcher, launches, plugTorn, plugCrowded>>
    BY <1>0, <1>2 DEF Plug!Cancel, Plug!DelayEnds, Plug!RequestType
  <2>. QED  BY <1>0, <2>1 DEF Fresh, Clean, PlugRecording, Plug!LaunchedOnce
<1>3. ASSUME Plug!StopGuardian PROVE Fresh'
  <2>1. /\ UNCHANGED <<plugRequest, issued, launches, plugCrowded>> /\ plugTorn \subseteq plugTorn'
        /\ plugWatcher[guardian].pc = "record" => plugWatcher[guardian].copy.id \in plugTorn'
    <3>1. UNCHANGED <<plugRequest, issued, launches, plugCrowded>>
      BY <1>3 DEF Plug!StopGuardian
    <3>2. CASE Plug!Alive(guardian)
      BY <1>3, <3>1, <3>2 DEF Plug!StopGuardian
    <3>3. CASE ~Plug!Alive(guardian)
      BY <1>3, <3>1, <3>3 DEF Plug!StopGuardian, Plug!Alive
    <3>. QED  BY <3>2, <3>3
  <2>2. plugRequest.status = "requested" => Clean(plugRequest.id)' \/ PlugRecording(plugRequest.id)'
    BY <1>0, <1>3, <2>1, PlugStopped DEF Fresh, Clean, PlugRecording
  <2>3. \A w \in PlugWatchers : plugWatcher'[w].pc = "launch" => Clean(plugWatcher[w].copy.id)'
    BY <1>0, <1>3, <2>1, PlugStopped DEF Fresh, Clean
  <2>. QED  BY <1>0, <2>1, <2>2, <2>3 DEF Fresh, Plug!LaunchedOnce
<1>4. ASSUME NEW u \in PlugWatchers, NEW kind, Plug!Spawn(u, kind),
             UNCHANGED <<plugRequest, issued, launches, plugTorn>>
      PROVE  Fresh'
  <2>1. \A v \in PlugWatchers : v # u => plugWatcher'[v] = plugWatcher[v]
    BY <1>4, PlugSpawned
  <2>2. plugWatcher[u].pc = "unborn" /\ plugWatcher'[u].pc = "poll"
    BY <1>4, PlugSpawned
  <2>3. plugRequest.status = "requested" => Clean(plugRequest.id)' \/ PlugRecording(plugRequest.id)'
    BY <1>0, <1>4, <2>1, <2>2 DEF Fresh, Clean, PlugRecording
  <2>. QED  BY <1>0, <1>4, <2>1, <2>2, <2>3 DEF Fresh, Clean, Plug!LaunchedOnce
<1>5. ASSUME NEW u \in PlugWatchers, Plug!Watch(u) PROVE Fresh'
  <2>1. \A v \in PlugWatchers : v # u => plugWatcher'[v] = plugWatcher[v] /\ ~Plug!Alive(v)
    BY <1>0, <1>5, Places DEF PlugAlone, Plug!Alive
  <2>2. CASE Plug!Poll(u)
    <3>1. UNCHANGED <<plugRequest, issued, launches, plugTorn>> /\ plugWatcher[u].pc = "poll"
      BY <2>2 DEF Plug!Poll
    <3>2. ~PlugRecording(plugRequest.id)
      BY <2>1, <3>1 DEF PlugRecording, Plug!Alive
    <3>3. plugRequest.status = "requested" => Clean(plugRequest.id)
      BY <1>0, <3>2 DEF Fresh
    <3>4. plugWatcher'[u].pc = "launch" => Clean(plugWatcher'[u].copy.id)
      BY <1>5, <2>2, <3>3, Places
    <3>. QED  BY <1>0, <2>1, <3>1, <3>3, <3>4 DEF Fresh, Clean, Plug!Alive, Plug!LaunchedOnce
  <2>3. CASE Plug!Launch(u)
    <3>. DEFINE r == plugWatcher[u].copy.id
    <3>1. /\ UNCHANGED <<plugRequest, issued, plugTorn>> /\ plugWatcher[u].pc = "launch"
          /\ launches' = [launches EXCEPT ![r] = @ + 1]
      BY <2>3 DEF Plug!Launch
    <3>2. r \in 1..issued /\ r \in Plug!Ids /\ Clean(r)
      BY <1>0, <3>1 DEF Numbered, Fresh, Plug!Ids, Plug!TypeOK
    <3>3. plugWatcher'[u].pc = "record" /\ plugWatcher'[u].copy.id = r
      BY <1>5, <2>3, Places
    <3>4. \A s \in Plug!Ids : launches'[s] = IF s = r THEN launches[s] + 1 ELSE launches[s]
      BY <1>0, <3>1, <3>2
    <3>5. \A s \in Plug!Ids : s > issued' => launches'[s] = 0
      BY <1>0, <3>1, <3>2, <3>4 DEF Fresh
    <3>6. plugRequest'.status = "requested" => Clean(plugRequest.id)' \/ PlugRecording(plugRequest.id)'
      <4>1. CASE plugRequest.id = r
        BY <3>1, <3>3, <4>1 DEF PlugRecording
      <4>2. CASE plugRequest.id # r
        <5>1. ~PlugRecording(plugRequest.id)
          BY <2>1, <3>1 DEF PlugRecording, Plug!Alive
        <5>2. plugRequest.status = "requested" => plugRequest.id \in Plug!Ids
          BY <1>0 DEF Numbered, Plug!Ids, Plug!TypeOK
        <5>. QED  BY <1>0, <3>1, <3>4, <4>2, <5>1, <5>2 DEF Fresh, Clean
      <4>. QED  BY <4>1, <4>2
    <3>7. \A w \in PlugWatchers : plugWatcher'[w].pc = "launch" => Clean(plugWatcher[w].copy.id)'
      BY <2>1, <3>3 DEF Plug!Alive
    <3>8. Plug!LaunchedOnce'
      BY <1>0, <3>1, <3>2, <3>4 DEF Fresh, Clean, Plug!LaunchedOnce
    <3>. QED  BY <3>5, <3>6, <3>7, <3>8 DEF Fresh
  <2>4. CASE Plug!Record(u)
    <3>1. UNCHANGED <<issued, launches, plugTorn>> /\ plugRequest'.status = "launched"
      BY <1>0, <2>4 DEF Plug!Record, Plug!WatcherType, Plug!RequestType
    <3>2. plugWatcher'[u].pc # "launch"
      BY <1>5, <2>4, Places
    <3>. QED  BY <1>0, <2>1, <3>1, <3>2 DEF Fresh, Clean, Plug!Alive, Plug!LaunchedOnce
  <2>. QED  BY <1>5, <2>2, <2>3, <2>4 DEF Plug!Watch
<1>6. ASSUME UNCHANGED Plug!vars \/ Calls PROVE Fresh'
  <2>1. UNCHANGED <<plugRequest, issued, plugWatcher, launches, plugCrowded, plugTorn>>
    BY <1>6, CallsKeep DEF Plug!vars
  <2>. QED  BY <2>1 DEF Fresh, Clean, PlugRecording, Plug!LaunchedOnce
<1>7. ASSUME NEW w \in PlugWatchers, Plug!PopenGuardian(w) PROVE Fresh'
  BY <1>4, <1>7 DEF Plug!PopenGuardian
<1>8. ASSUME NEW w \in PlugWatchers, NEW kind \in {"terminal", "once"}, Plug!WatchRequests(w, kind) PROVE Fresh'
  BY <1>4, <1>8 DEF Plug!WatchRequests
<1>. QED  BY <1>1, <1>2, <1>3, <1>5, <1>6, <1>7, <1>8 DEF Plug!Next, Calls

LEMMA PlugKept ==
  ASSUME 0 \notin PlugWatchers, PlugRequests \in Nat, PlugIInv, [Plug!Next]_(Plug!vars)
  PROVE  PlugIInv'
<1>1. Plug!TypeOK' /\ Numbered' /\ Registered' /\ PlugAlone'
  BY PlugTypesKept, NumberedKept, RegisteredKept, PlugAloneKept DEF PlugIInv
<1>2. Fresh'
  <2>1. CASE ~plugCrowded'
    BY <2>1, FreshKept DEF PlugIInv
  <2>2. CASE plugCrowded'
    BY <2>2 DEF Fresh
  <2>. QED  BY <2>1, <2>2
<1>. QED  BY <1>1, <1>2 DEF PlugIInv


\* What the invariant says of guardians and launches.
LEMMA PlugImplied == PlugIInv => Plug!OneGuardian /\ Plug!LaunchedOnce
<1>1. ASSUME Registered, ~slipped, NEW v \in PlugWatchers, NEW w \in PlugWatchers, Guards(v), Guards(w) PROVE v = w
  BY <1>1 DEF Registered
<1>2. Registered => Plug!OneGuardian
  BY <1>1 DEF Guards, Plug!OneGuardian
<1>. QED  BY <1>2 DEF PlugIInv, Fresh, Plug!LaunchedOnce

-----------------------------------------------------------------------------
(* Both together. *)

IInv == PaneIInv /\ PlugIInv

LEMMA Invariant == Spec => []IInv
<1>. USE RestartAssumption
<1>1. 0 \notin PaneWatchers /\ 0 \notin PlugWatchers
  OBVIOUS
<1>2. Init => IInv
  BY <1>1, PaneInitially, PlugInitially DEF Init, IInv
<1>3. ASSUME IInv, [Next]_vars PROVE IInv'
  <2>1. Pane!Next \/ UNCHANGED paneVars
    BY <1>3 DEF Next, vars
  <2>2. Plug!Next \/ UNCHANGED plugVars
    BY <1>3 DEF Next, vars
  <2>3. [Pane!Next]_(Pane!vars)
    BY <2>1 DEF paneVars, Pane!vars, Pane!calls
  <2>4. [Plug!Next]_(Plug!vars)
    BY <2>2 DEF plugVars, Plug!vars, Plug!calls
  <2>5. PaneIInv'
    BY <1>1, <1>3, <2>3, PaneKept DEF IInv
  <2>6. PlugIInv'
    BY <1>1, <1>3, <2>4, PlugKept DEF IInv
  <2>. QED  BY <2>5, <2>6 DEF IInv
<1>. QED  BY <1>2, <1>3, PTL DEF Spec

\* What the invariant says of both.
LEMMA Implied ==
  IInv => RespawnsOverNothing /\ ExitOnlyWhenReady /\ OneGuardian /\ LaunchedOnce
BY PaneImplied, PlugImplied
   DEF IInv, RespawnsOverNothing, ExitOnlyWhenReady, OneGuardian, LaunchedOnce

-----------------------------------------------------------------------------
(* The theorems, for any watchers, panes and requests.                      *)

\* The files, the panes and the watchers of both keep their types.
THEOREM TypesHold == Spec => [](Pane!TypeOK /\ Plug!TypeOK)
<1>1. IInv => Pane!TypeOK /\ Plug!TypeOK
  BY DEF IInv, PaneIInv, PlugIInv
<1>. QED  BY <1>1, Invariant, PTL

\* A respawn kills no live Codex, as long as there is one watcher at a time and
\* it could read the processes of the pane before it.
THEOREM AlwaysRespawnsOverNothing == Spec => []RespawnsOverNothing
BY Implied, Invariant, PTL

\* Only a Codex that has marked its turn is told to leave, unless watchers
\* overlapped or one was stopped between its respawn and the record of it.
THEOREM AlwaysExitOnlyWhenReady == Spec => []ExitOnlyWhenReady
BY Implied, Invariant, PTL

\* There is never more than one detached guardian, unless one was forced, or a
\* call that starts or stops one overlapped another or was killed on its way.
THEOREM AlwaysOneGuardian == Spec => []OneGuardian
BY Implied, Invariant, PTL

\* Watchers that do not overlap launch a request once, however requests are
\* made, replaced and canceled, unless one was stopped before it could record.
THEOREM AlwaysLaunchedOnce == Spec => []LaunchedOnce
BY Implied, Invariant, PTL
=============================================================================
