--------------------------- MODULE MCProjectBoard ---------------------------
(* Scenarios for ProjectBoard: one per command that is run while another   *)
(* run or a person is at it, and setup over boards of three ages.          *)
EXTENDS ProjectBoard

CONSTANTS r1, r2
Symmetry == Permutations(Runs)

TheLabels == <<"type:ci", "role:qa">>
TheTitles == <<"first", "second">>

Text(labels, events, depends) ==
  [open |-> TRUE, labels |-> labels, events |-> events, depends |-> depends]
Closed(t) == [t EXCEPT !.open = FALSE]
Says(status, role, branch) == <<[status |-> status, role |-> role], [branch |-> branch]>>
Status(s) == <<[status |-> s]>>

NoLabels == [l \in Labels |-> "absent"]
SomeLabels == [l \in Labels |-> IF l = "role:qa" THEN "drifted" ELSE "right"]

\* A board made from an older manifest: a field and some options are missing.
OldBoard(issues) ==
  [fields |-> [f \in Fields |->
     IF f = "Readiness" THEN NoField
     ELSE [Wanted(f) EXCEPT !.options = @ \ {"Merged", "CI Red", "qa"}]],
   items |-> [i \in issues |-> NoItem]]
FullBoard(issues) ==
  [fields |-> [f \in Fields |-> Wanted(f)], items |-> [i \in issues |-> NoItem]]
\* Track is a text field and Branch a select field, against the manifest.
OddBoard(issues) == [FullBoard(issues) EXCEPT !.fields["Track"] = [kind |-> "text", options |-> {}]]
OddBranch(issues) == [FullBoard(issues) EXCEPT !.fields["Branch"] = [kind |-> "select", options |-> {"main"}]]

Scenario(programs, times, people, boards0, texts) ==
  [programs |-> programs, starts |-> times, limit |-> 100, people |-> people, boards |-> boards0, texts |-> texts,
   listed |-> SetToSortSeq(DOMAIN texts, >), label |-> NoLabels]

NoTexts == [i \in {} |-> <<>>]
Ready == Text({"ready-for-agent", "type:research", "area:runner"}, <<>>, {})
Claimed == Text({"status:claimed", "role:worker", "gate:dbt-oracle"},
                Says("claimed", "dxt_zig_slice_worker", "agent/issue-1"), {2})
Unclear == Text({"status:review", "role:qa", "role:worker", "pattern:network", "area:docs"},
                Says("ci-red", "none", "/local/path"), {})

\* One issue each, over every field's values.
Texts ==
  {Text({"status:ready"} \cup s, <<>>, {}) : s \in
     {{"role:pm", "area:semantic"}, {"role:supervisor", "area:cross-db"}, {"role:triager", "area:duckdb"},
      {"role:mapper", "area:artifacts"}, {"role:researcher", "area:release"},
      {"role:architect", "type:safety"}, {"role:parity", "type:compat"}, {"role:auditor", "type:runtime"},
      {"role:reflection", "pattern:reflection"}, {"area:selector", "pattern:hierarchical"},
      {"area:docs", "pattern:supervisor"}, {"gate:zig-test"}, {"gate:focused-pytest"},
      {"gate:jaffle-run"}, {"risk:runtime-boundary"}, {"type:ci", "needs-slice-plan"},
      {"needs-reference-map"}, {"status:blocked"}, {"status:ci"}, {"needs-slice-plan", "status:review"}}}
  \cup {Text({"status:ready"}, Status(s), {}) : s \in
     {"blocked", "unblocked", "in_worktree", "validated", "ci", "ci-red", "review", "merged", "unheard of"}}

TheScenarios ==
  { [Scenario({<<"labels">>, <<"check">>}, 3, "labels", <<>>, NoTexts) EXCEPT !.label = SomeLabels],
    Scenario({<<"labels">>, <<"labels", "seeds">>}, 3, "seeds", <<>>, NoTexts),
    Scenario({<<"project">>}, 2, "options", <<>>, NoTexts),
    Scenario({<<"project">>}, 3, "options", <<OldBoard({1})>>, [i \in {1} |-> <<Ready>>]),
    Scenario({<<"project">>}, 3, "none", <<OddBoard({})>>, NoTexts),
    Scenario({<<"items">>}, 2, "texts", <<FullBoard({1})>>, [i \in {1} |-> <<Ready, Claimed>>]),
    Scenario({<<"items">>}, 2, "texts", <<FullBoard({1, 2})>>,
             [i \in {1, 2} |-> IF i = 1 THEN <<Claimed, Unclear>> ELSE <<Unclear, Closed(Unclear)>>]),
    [Scenario({<<"items">>}, 2, "texts", <<FullBoard({1, 2, 3})>>,
              [i \in {1, 2, 3} |-> IF i = 3 THEN <<Claimed, Closed(Claimed)>> ELSE <<Ready>>])
       EXCEPT !.limit = 2],
    Scenario({<<"items">>}, 2, "none", <<OldBoard({1})>>, [i \in {1} |-> <<Unclear>>]),
    Scenario({<<"project", "items">>}, 2, "none", <<>>, [i \in {1} |-> <<Ready>>]),
    Scenario({<<"project", "items">>}, 1, "none", <<OddBranch({1})>>, [i \in {1} |-> <<Claimed>>]),
    Scenario({<<"project", "items">>}, 1, "none", <<FullBoard({1}), OldBoard({1})>>, [i \in {1} |-> <<Unclear>>]),
    Scenario({<<"items">>}, 1, "none", <<>>, [i \in {1} |-> <<Ready>>]) }
  \cup {Scenario({<<"project", "items">>}, 1, "none", b, [i \in {1} |-> <<t>>]) :
          b \in {<<>>, <<OldBoard({1})>>}, t \in Texts}
=============================================================================
