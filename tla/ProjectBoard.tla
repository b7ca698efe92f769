---------------------------- MODULE ProjectBoard ----------------------------
(***************************************************************************)
(* scripts/github_agent_os.py and `setup' of agent_os_orchestrator.py:     *)
(* commands that bring GitHub to what the repository's manifests say.      *)
(* labels, seed-issues, project and project-items each read a list first   *)
(* and then write what the list lacks, one gh call at a time; setup runs   *)
(* several of them until one does not return 0.  Nothing is locked: two    *)
(* runs, and people, change the same repository and the same board.        *)
(*                                                                         *)
(* Every gh call is one step and may fail instead.  GitHub is external: it *)
(* refuses a second label of a name, accepts a second issue or project of  *)
(* a title, returns the old item when an issue is added again, and clears  *)
(* the values whose option an update left out.                             *)
(***************************************************************************)
EXTENDS BoardValues, SequencesExt

CONSTANTS
  Runs,         \* invocations that may overlap
  Scenarios,    \* what runs may be told to do, how often (a bound), what there is before,
                \* the order in which GitHub lists the issues, and how many of them (--limit)
  LabelOrder,   \* the names of labels.json
  Titles,       \* the titles of seed_issues.json
  Manifest,     \* the fields of project.json: their options, {} for a text field
  MaxEdits      \* bound: changes people make

Commands == {"labels", "check", "seeds", "project", "items"}
Labels == ToSet(LabelOrder)

NoValues == [f \in Fields |-> Empty]

IsField(x) ==
  /\ x = [kind |-> x.kind, options |-> x.options] /\ x.kind \in {"absent", "text", "select"}
  /\ x.kind = "absent" => x.options = {}

IsItem(x) ==
  /\ x = [on |-> x.on, values |-> [f \in Fields |-> x.values[f]]] /\ x.on \in BOOLEAN
  /\ ~x.on => x.values = NoValues

IsBoard(b, issues) ==
  /\ b = [fields |-> [f \in Fields |-> b.fields[f]], items |-> [i \in issues |-> b.items[i]]]
  /\ \A f \in Fields : IsField(b.fields[f])
  /\ \A i \in issues : IsItem(b.items[i])

\* A manifest may offer more than the repository's does today.
ASSUME BoardAssumption ==
  /\ DOMAIN Manifest = Fields /\ MaxEdits \in Nat
  /\ \A f \in Fields : Options[f] \subseteq Manifest[f] /\ (Options[f] = {} => Manifest[f] = {})
  /\ LabelOrder \in Seq(Labels) /\ Titles \in Seq(ToSet(Titles)) /\ IsInjective(Titles)
  /\ \A s \in Scenarios :
       /\ s.programs \subseteq Seq(Commands) /\ <<>> \notin s.programs
       /\ s.starts \in Nat /\ s.limit \in Nat
       /\ s.listed \in Seq(DOMAIN s.texts) /\ IsInjective(s.listed) /\ ToSet(s.listed) = DOMAIN s.texts
       /\ s.label = [l \in Labels |-> s.label[l]]
       /\ s.boards = [k \in 1..Len(s.boards) |-> s.boards[k]] /\ Len(s.boards) \in Nat
       /\ \A k \in DOMAIN s.boards : IsBoard(s.boards[k], DOMAIN s.texts)

VARIABLES
  scenario,             \* which of Scenarios: fixed
  label,                \* the labels on GitHub: absent, drifted or right
  seeded,               \* seed title -> the open and the closed issues that have it
  text,                 \* issue -> the number of its present text
  boards,               \* the projects of the manifest's title: fields and items
  program, step,        \* a run's commands, and which of them it executes
  at, n,                \* its next gh call, and its place in that call's loop
  view,                 \* what it has read
  overtaken,            \* history: others have written since it began
  result,               \* how it ended
  starts, edits         \* bounds

github == <<label, seeded, text, boards>>
place == <<program, step, at, n, view, result>>
bounds == <<scenario, starts, edits>>
vars == <<github, place, overtaken, bounds>>

Issues == DOMAIN scenario.texts
IssueOrder == scenario.listed
TextOf(i) == scenario.texts[i][text[i]]
\* The open issues that GitHub lists: the first of them, up to the limit.
Listed == {IssueOrder[k] : k \in {m \in DOMAIN IssueOrder :
  /\ TextOf(IssueOrder[m]).open
  /\ Cardinality({j \in 1..m : TextOf(IssueOrder[j]).open}) <= scenario.limit}}
Unlisted == [open |-> FALSE]
Shown(i) == IF i \in Listed THEN TextOf(i) ELSE Unlisted
Copies(t) == seeded[t].open + seeded[t].closed

NoField == [kind |-> "absent", options |-> {}]
Wanted(f) == [kind |-> IF Manifest[f] = {} THEN "text" ELSE "select", options |-> Manifest[f]]
NoItem == [on |-> FALSE, values |-> NoValues]
NewBoard == [fields |-> [f \in Fields |-> NoField], items |-> [i \in Issues |-> NoItem]]
NoView == [labels |-> <<>>, titles |-> {}, board |-> 0, texts |-> <<>>, items |-> <<>>,
           fields |-> <<>>, options |-> {}, values |-> <<>>]

FirstCall(command) ==
  CASE command \in {"labels", "check"} -> "list labels" [] command = "seeds" -> "list seeds"
    [] command = "project" -> "list projects" [] command = "items" -> "find project"

Init ==
  /\ scenario \in Scenarios
  /\ label = scenario.label /\ boards = scenario.boards
  /\ seeded = [t \in ToSet(Titles) |-> [open |-> 0, closed |-> 0]]
  /\ text = [i \in Issues |-> 1]
  /\ program = [r \in Runs |-> <<"labels">>] /\ step = [r \in Runs |-> 1]
  /\ at = [r \in Runs |-> "idle"] /\ n = [r \in Runs |-> 1]
  /\ view = [r \in Runs |-> NoView]
  /\ overtaken = [r \in Runs |-> FALSE] /\ result = [r \in Runs |-> "none"]
  /\ starts = 0 /\ edits = 0

-----------------------------------------------------------------------------
(* A run *)

Running(r) == at[r] # "idle"
Command(r) == program[r][step[r]]

\* Whoever else runs may have read what is out of date now.
Overtakes(by) == overtaken' = [q \in Runs |-> overtaken[q] \/ (q \notin by /\ Running(q))]

\* The run goes on to a call with what it has read; to the next place of its
\* loop; or its command returns, and setup goes on if it returned 0.
Goes(r, call, seen) ==
  /\ at' = [at EXCEPT ![r] = call] /\ view' = [view EXCEPT ![r] = seen]
  /\ UNCHANGED <<program, step, n, result>>

Advances(r) == n' = [n EXCEPT ![r] = @ + 1] /\ UNCHANGED <<program, step, at, view, result>>

Returns(r, code) ==
  LET more == code = "ok" /\ step[r] < Len(program[r]) IN
  /\ step' = [step EXCEPT ![r] = IF more THEN @ + 1 ELSE @]
  /\ at' = [at EXCEPT ![r] = IF more THEN FirstCall(program[r][step[r] + 1]) ELSE "idle"]
  /\ result' = [result EXCEPT ![r] = IF more THEN @ ELSE code]
  /\ n' = [n EXCEPT ![r] = 1] /\ view' = [view EXCEPT ![r] = NoView]
  /\ UNCHANGED program

Reads == UNCHANGED <<github, overtaken, bounds>>

Start(r) ==
  /\ ~Running(r) /\ starts < scenario.starts
  /\ program' \in {[program EXCEPT ![r] = p] : p \in scenario.programs}
  /\ at' = [at EXCEPT ![r] = FirstCall(program'[r][1])]
  /\ step' = [step EXCEPT ![r] = 1] /\ n' = [n EXCEPT ![r] = 1]
  /\ view' = [view EXCEPT ![r] = NoView]
  /\ overtaken' = [overtaken EXCEPT ![r] = FALSE]
  /\ result' = [result EXCEPT ![r] = "none"]
  /\ starts' = starts + 1
  /\ UNCHANGED <<scenario, github, edits>>

\* gh fails: the first listings return its code, other calls raise.  Only that
\* the link was made is not looked at.
CallFails(r) == Running(r) /\ at[r] # "link" /\ Returns(r, "failed") /\ Reads

-----------------------------------------------------------------------------
(* labels *)

ListLabels(r) ==
  /\ at[r] = "list labels"
  /\ Goes(r, "label", [view[r] EXCEPT !.labels = label]) /\ Reads

\* Created if the list lacked it, edited if it differed there.  By now it may
\* exist already, or be gone: then gh fails.
SyncLabel(r) ==
  /\ at[r] = "label" /\ Command(r) = "labels" /\ n[r] <= Len(LabelOrder)
  /\ LET l == LabelOrder[n[r]]
         seen == view[r].labels[l]
         possible == (seen = "absent") = (label[l] = "absent")
     IN  \/ seen = "right" /\ Advances(r) /\ UNCHANGED <<label, overtaken>>
         \/ /\ seen # "right" /\ possible
            /\ label' = [label EXCEPT ![l] = "right"]
            /\ Overtakes({r}) /\ Advances(r)
         \/ seen # "right" /\ ~possible /\ Returns(r, "failed") /\ UNCHANGED <<label, overtaken>>
  /\ UNCHANGED <<seeded, text, boards, bounds>>

LabelsEnd(r) ==
  /\ at[r] = "label" /\ (Command(r) = "check" \/ n[r] > Len(LabelOrder))
  /\ Returns(r, IF Command(r) = "check" /\ \E l \in Labels : view[r].labels[l] # "right"
                THEN "drift" ELSE "ok")
  /\ Reads

-----------------------------------------------------------------------------
(* seed-issues *)

\* Mutation: only open issues are listed.
ListOpenSeeds(r) ==
  /\ at[r] = "list seeds"
  /\ Goes(r, "seed", [view[r] EXCEPT !.titles = {t \in ToSet(Titles) : seeded[t].open > 0}])
  /\ Reads

\* Issues in every state: a seed issue that was closed is not seeded again.
ListSeeds(r) ==
  /\ at[r] = "list seeds"
  /\ Goes(r, "seed", [view[r] EXCEPT !.titles = {t \in ToSet(Titles) : Copies(t) > 0}])
  /\ Reads

CreateSeed(r) ==
  /\ at[r] = "seed" /\ n[r] <= Len(Titles)
  /\ IF Titles[n[r]] \in view[r].titles THEN UNCHANGED <<seeded, overtaken>>
     ELSE seeded' = [seeded EXCEPT ![Titles[n[r]]].open = @ + 1] /\ Overtakes({r})
  /\ Advances(r)
  /\ UNCHANGED <<label, text, boards, bounds>>

SeedsEnd(r) == at[r] = "seed" /\ n[r] > Len(Titles) /\ Returns(r, "ok") /\ Reads

-----------------------------------------------------------------------------
(* project *)

ListProjects(r) ==
  /\ at[r] = "list projects"
  /\ \/ boards = <<>> /\ Goes(r, "create project", view[r])
     \/ \E b \in DOMAIN boards : Goes(r, "link", [view[r] EXCEPT !.board = b])
  /\ Reads

CreateProject(r) ==
  /\ at[r] = "create project"
  /\ boards' = Append(boards, NewBoard)
  /\ Overtakes({r})
  /\ Goes(r, "link", [view[r] EXCEPT !.board = Len(boards) + 1])
  /\ UNCHANGED <<label, seeded, text, bounds>>

Link(r) == at[r] = "link" /\ Goes(r, "list fields", view[r]) /\ Reads

ListFields(r) ==
  /\ at[r] \in {"list fields", "list item fields"}
  /\ Goes(r, IF at[r] = "list fields" THEN "field" ELSE "item",
          [view[r] EXCEPT !.fields = boards[view[r].board].fields])
  /\ Reads

\* A field the list lacked is created, which fails if it exists by now.  The
\* options of a select field are read again; a field that should be a select
\* field and is not ends the command.
SyncField(r) ==
  /\ at[r] = "field" /\ n[r] <= Len(FieldOrder)
  /\ LET f == FieldOrder[n[r]]
         b == view[r].board
         seen == view[r].fields[f]
         missing == Manifest[f] \ boards[b].fields[f].options
     IN  \/ /\ seen.kind = "absent" /\ boards[b].fields[f].kind = "absent"
            /\ boards' = [boards EXCEPT ![b].fields[f] = Wanted(f)]
            /\ Overtakes({r}) /\ Advances(r)
         \/ /\ seen.kind = "absent" /\ boards[b].fields[f].kind # "absent"
            /\ Returns(r, "failed") /\ UNCHANGED <<boards, overtaken>>
         \/ /\ seen.kind = "text" /\ Wanted(f).kind = "select"
            /\ Returns(r, "refused") /\ UNCHANGED <<boards, overtaken>>
         \/ /\ seen.kind # "absent" /\ Wanted(f).kind = "text"
            /\ Advances(r) /\ UNCHANGED <<boards, overtaken>>
         \/ /\ seen.kind = "select" /\ Wanted(f).kind = "select" /\ missing = {}
            /\ Advances(r) /\ UNCHANGED <<boards, overtaken>>
         \/ /\ seen.kind = "select" /\ Wanted(f).kind = "select" /\ missing # {}
            /\ Goes(r, "options", [view[r] EXCEPT !.options = boards[b].fields[f].options])
            /\ UNCHANGED <<boards, overtaken>>
  /\ UNCHANGED <<label, seeded, text, bounds>>

\* The update replaces the field's options; items lose the values left out.
SetOptions(b, f, options) ==
  LET kept(item) == [item EXCEPT !.values[f] = IF @ \in options THEN @ ELSE Empty] IN
  boards' = [boards EXCEPT ![b] =
    [fields |-> [boards[b].fields EXCEPT ![f].options = options],
     items |-> [i \in Issues |-> kept(boards[b].items[i])]]]

\* Mutation: the manifest's options take the place of the field's.
ReplaceOptions(r) ==
  /\ at[r] = "options"
  /\ SetOptions(view[r].board, FieldOrder[n[r]], Manifest[FieldOrder[n[r]]])
  /\ Overtakes({r})
  /\ n' = [n EXCEPT ![r] = @ + 1] /\ at' = [at EXCEPT ![r] = "field"]
  /\ UNCHANGED <<program, step, view, result, label, seeded, text, bounds>>

\* The options read a moment ago and the missing ones.
UpdateOptions(r) ==
  /\ at[r] = "options"
  /\ SetOptions(view[r].board, FieldOrder[n[r]], view[r].options \cup Manifest[FieldOrder[n[r]]])
  /\ Overtakes({r})
  /\ n' = [n EXCEPT ![r] = @ + 1] /\ at' = [at EXCEPT ![r] = "field"]
  /\ UNCHANGED <<program, step, view, result, label, seeded, text, bounds>>

FieldsEnd(r) == at[r] = "field" /\ n[r] > Len(FieldOrder) /\ Returns(r, "ok") /\ Reads

-----------------------------------------------------------------------------
(* project-items *)

FindProject(r) ==
  /\ at[r] = "find project"
  /\ \/ boards = <<>> /\ Returns(r, "refused")
     \/ \E b \in DOMAIN boards : Goes(r, "list issues", [view[r] EXCEPT !.board = b])
  /\ Reads

ListIssues(r) ==
  /\ at[r] = "list issues"
  /\ Goes(r, "list items", [view[r] EXCEPT !.texts = [i \in Issues |-> Shown(i)]])
  /\ Reads

ListItems(r) ==
  /\ at[r] = "list items"
  /\ Goes(r, "list item fields", [view[r] EXCEPT !.items = boards[view[r].board].items])
  /\ Reads

Included(t) == t.open /\ Admissible(t)

\* Mutation: the values of an item that was just added are left for next time.
AddOnly(r) ==
  /\ at[r] = "item" /\ n[r] <= Len(IssueOrder)
  /\ LET i == IssueOrder[n[r]] IN
     \/ ~Included(view[r].texts[i]) /\ Advances(r) /\ UNCHANGED <<boards, overtaken>>
     \/ /\ Included(view[r].texts[i]) /\ view[r].items[i].on
        /\ Goes(r, "value", [view[r] EXCEPT !.values = view[r].items[i].values])
        /\ UNCHANGED <<boards, overtaken>>
     \/ /\ Included(view[r].texts[i]) /\ ~view[r].items[i].on
        /\ boards' = [boards EXCEPT ![view[r].board].items[i].on = TRUE]
        /\ Overtakes({r}) /\ Advances(r)
  /\ UNCHANGED <<label, seeded, text, bounds>>

\* A listed issue with one of the admitting labels: its item as listed, or a
\* new one.  If it was added by another run meanwhile, gh returns that item,
\* and its values count as empty.
SyncItem(r) ==
  /\ at[r] = "item" /\ n[r] <= Len(IssueOrder)
  /\ LET i == IssueOrder[n[r]] IN
     \/ ~Included(view[r].texts[i]) /\ Advances(r) /\ UNCHANGED <<boards, overtaken>>
     \/ /\ Included(view[r].texts[i]) /\ view[r].items[i].on
        /\ Goes(r, "value", [view[r] EXCEPT !.values = view[r].items[i].values])
        /\ UNCHANGED <<boards, overtaken>>
     \/ /\ Included(view[r].texts[i]) /\ ~view[r].items[i].on
        /\ boards' = [boards EXCEPT ![view[r].board].items[i].on = TRUE]
        /\ Overtakes({r})
        /\ Goes(r, "value", [view[r] EXCEPT !.values = NoValues])
  /\ UNCHANGED <<label, seeded, text, bounds>>

\* The places in the field order where the item differs from the text.
Differing(r) ==
  LET t == view[r].texts[IssueOrder[n[r]]] IN
  {k \in DOMAIN FieldOrder :
     LET d == DesiredValue(t, FieldOrder[k]) IN
     d # Leave /\ (view[r].fields[FieldOrder[k]].kind = "absent" \/ d # view[r].values[FieldOrder[k]])}

\* The first of them is set.  A field or an option the list lacked ends the
\* command; an option that is gone by now fails the call.
SetValue(r) ==
  /\ at[r] = "value" /\ Differing(r) # {}
  /\ LET i == IssueOrder[n[r]]
         b == view[r].board
         f == FieldOrder[Min(Differing(r))]
         d == DesiredValue(view[r].texts[i], f)
         known == view[r].fields[f].kind = "text" \/ d \in view[r].fields[f].options
         there == boards[b].fields[f].kind = "text" \/ d \in boards[b].fields[f].options
     IN  \/ ~known /\ Returns(r, "refused") /\ UNCHANGED <<boards, overtaken>>
         \/ known /\ ~there /\ Returns(r, "failed") /\ UNCHANGED <<boards, overtaken>>
         \/ /\ known /\ there
            /\ boards' = [boards EXCEPT ![b].items[i].values[f] = d]
            /\ Overtakes({r})
            /\ Goes(r, "value", [view[r] EXCEPT !.values[f] = d])
  /\ UNCHANGED <<label, seeded, text, bounds>>

ItemEnds(r) ==
  /\ at[r] = "value" /\ Differing(r) = {}
  /\ n' = [n EXCEPT ![r] = @ + 1] /\ at' = [at EXCEPT ![r] = "item"]
  /\ UNCHANGED <<program, step, view, result>> /\ Reads

ItemsEnd(r) == at[r] = "item" /\ n[r] > Len(IssueOrder) /\ Returns(r, "ok") /\ Reads

-----------------------------------------------------------------------------
(* People, in scenarios that have them: they change labels, close seed     *)
(* issues, give the items an option of their own and write on issues.      *)

Person ==
  /\ edits < MaxEdits /\ edits' = edits + 1
  /\ \/ /\ scenario.people = "labels"
        /\ \E l \in Labels, x \in {"absent", "drifted"} : label[l] # x /\ label' = [label EXCEPT ![l] = x]
        /\ UNCHANGED <<seeded, text, boards>>
     \/ /\ scenario.people = "seeds"
        /\ \E t \in ToSet(Titles) :
             seeded[t].open > 0 /\ seeded' = [seeded EXCEPT ![t] = [open |-> @.open - 1, closed |-> @.closed + 1]]
        /\ UNCHANGED <<label, text, boards>>
     \/ /\ scenario.people = "options"
        /\ \E b \in DOMAIN boards, f \in Fields :
             /\ boards[b].fields[f].kind = "select" /\ "own" \notin boards[b].fields[f].options
             /\ boards' = [boards EXCEPT ![b] =
                  [fields |-> [boards[b].fields EXCEPT ![f].options = @ \cup {"own"}],
                   items |-> [i \in Issues |->
                     [on |-> TRUE, values |-> [boards[b].items[i].values EXCEPT ![f] = "own"]]]]]
        /\ UNCHANGED <<label, seeded, text>>
     \/ /\ scenario.people = "texts"
        /\ \E i \in Issues : text[i] < Len(scenario.texts[i]) /\ text' = [text EXCEPT ![i] = @ + 1]
        /\ UNCHANGED <<label, seeded, boards>>
  /\ Overtakes({})
  /\ UNCHANGED <<place, scenario, starts>>

RunStep(r) ==
  \/ Start(r) \/ CallFails(r)
  \/ ListLabels(r) \/ SyncLabel(r) \/ LabelsEnd(r)
  \/ ListSeeds(r) \/ CreateSeed(r) \/ SeedsEnd(r)
  \/ ListProjects(r) \/ CreateProject(r) \/ Link(r) \/ ListFields(r)
  \/ SyncField(r) \/ UpdateOptions(r) \/ FieldsEnd(r)
  \/ FindProject(r) \/ ListIssues(r) \/ ListItems(r)
  \/ SyncItem(r) \/ SetValue(r) \/ ItemEnds(r) \/ ItemsEnd(r)

Next == Person \/ \E r \in Runs : RunStep(r)

Spec == Init /\ [][Next]_vars

-----------------------------------------------------------------------------
(* Properties *)

\* A command that reaches its end while nobody else wrote has brought about
\* what it is for, also on top of what failed or overlapping runs left: every
\* label right, every seed issue there, the board with every field and option,
\* and for every issue that GitHub lists, and that has an admitting label, in
\* every value that could be derived what the issue's text says.
FinishedIsSynced ==
  \A r \in Runs : ~overtaken[r] =>
    /\ (at[r] = "label" /\ Command(r) = "labels" /\ n[r] > Len(LabelOrder)) =>
         \A l \in Labels : label[l] = "right"
    /\ (at[r] = "seed" /\ n[r] > Len(Titles)) => \A t \in ToSet(Titles) : Copies(t) > 0
    /\ (at[r] = "field" /\ n[r] > Len(FieldOrder)) =>
         \A f \in Fields : LET field == boards[view[r].board].fields[f] IN
           field.kind # "absent" /\ Manifest[f] \subseteq field.options
    /\ (at[r] = "item" /\ n[r] > Len(IssueOrder)) =>
         \A i \in Listed : Admissible(TextOf(i)) =>
           LET item == boards[view[r].board].items[i] IN
           item.on /\ \A f \in Fields : DesiredValue(TextOf(i), f) \in {Leave, item.values[f]}

\* There is a second board, which project-items may take instead, or a field
\* that is to hold text is a select field, which project lets pass.
Muddled ==
  \/ Len(boards) > 1
  \/ \E b \in DOMAIN boards, f \in Fields : Manifest[f] = {} /\ boards[b].fields[f].kind = "select"

\* What project has prepared, or found in order, is enough for project-items:
\* otherwise setup stops there only if somebody changed something in between.
SetupCompletes ==
  \A r \in Runs :
    (result[r] = "refused" /\ Command(r) = "items" /\ \E k \in 1..step[r]-1 : program[r][k] = "project")
    => overtaken[r] \/ Muddled

\* A second issue or project of one title comes only from a run that was
\* overtaken after it had read the list; a rerun makes none.
DuplicatesNeedOverlap ==
  [][/\ \A t \in ToSet(Titles) : (Copies(t) > 0 /\ Copies(t)' > Copies(t)) =>
          \E r \in Runs : at[r] = "seed" /\ n'[r] # n[r] /\ overtaken[r]
     /\ (boards # <<>> /\ Len(boards') > Len(boards)) =>
          \E r \in Runs : at[r] = "create project" /\ at'[r] # at[r] /\ overtaken[r]]_vars

\* An option, whoever made it, is lost only to a run that was overtaken after
\* it had read the field's options.
OptionsKept ==
  [][\A b \in DOMAIN boards, f \in Fields :
       ~(boards[b].fields[f].options \subseteq boards'[b].fields[f].options) =>
         \E r \in Runs : at[r] = "options" /\ at'[r] # at[r] /\ overtaken[r]]_vars
=============================================================================
