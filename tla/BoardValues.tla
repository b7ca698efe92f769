---------------------------- MODULE BoardValues ----------------------------
(***************************************************************************)
(* What scripts/github_agent_os.py writes into the fields of an issue's    *)
(* project item.  A text is a record: the issue's labels, the attributes   *)
(* of the agent events in its body and comments, in order, and the issues  *)
(* it says it depends on.  Most fields are priority lists: the first row   *)
(* with a label the issue has decides.  No event has a label's name.       *)
(***************************************************************************)
EXTENDS Naturals, Sequences, FiniteSetsExt, TLC

Leave == "leave"        \* None: the field keeps what it has
Empty == ""

Decide(rows, labels, default) ==
  LET hits == {n \in DOMAIN rows : rows[n][1] \cap labels # {}}
  IN  IF hits = {} THEN default ELSE rows[Min(hits)][2]

\* The value of an attribute in the last event that has it.
Latest(text, key) ==
  LET having == {n \in DOMAIN text.events : key \in DOMAIN text.events[n]}
  IN  IF having = {} THEN "none" ELSE text.events[Max(having)][key]

StatusOfEvent ==
  << <<{"blocked"}, "Blocked">>, <<{"unblocked", "ready"}, "Ready">>,
     <<{"claimed"}, "Claimed">>, <<{"in_worktree", "in-worktree"}, "In Worktree">>,
     <<{"validated"}, "Local Validation">>, <<{"ci"}, "CI Running">>,
     <<{"ci-red"}, "CI Red">>, <<{"review"}, "Needs Review">>, <<{"merged"}, "Merged">> >>

StatusOfLabel ==
  << <<{"status:blocked"}, "Blocked">>, <<{"status:review"}, "Needs Review">>,
     <<{"status:ci"}, "CI Running">>, <<{"status:claimed"}, "Claimed">>,
     <<{"needs-reference-map"}, "Needs Reference Map">>,
     <<{"needs-slice-plan"}, "Needs Slice Plan">>,
     <<{"ready-for-agent", "status:ready"}, "Ready">> >>

\* An event the table knows decides before any label.
StatusValue(labels, event) ==
  Decide(StatusOfEvent, {event}, Decide(StatusOfLabel, labels, "Intake"))

ReadinessOf ==
  << <<{"status:blocked", "blocked"}, "blocked">>, <<{"status:review", "review"}, "review">>,
     <<{"status:claimed", "claimed"}, "claimed">>,
     <<{"in_worktree", "in-worktree"}, "in worktree">>, <<{"merged"}, "merged">>,
     <<{"needs-reference-map"}, "needs reference map">>,
     <<{"needs-slice-plan"}, "needs slice plan">>,
     <<{"ready-for-agent", "status:ready", "ready", "unblocked"}, "ready">> >>

\* Labels and events decide together, row by row.
ReadinessValue(labels, event) == Decide(ReadinessOf, labels \cup {event}, "unknown")

RoleOfLabel ==
  << <<{"role:pm"}, "product manager">>, <<{"role:supervisor"}, "supervisor">>,
     <<{"role:triager"}, "triager">>, <<{"role:mapper"}, "mapper">>,
     <<{"role:researcher"}, "researcher">>, <<{"role:architect"}, "architect">>,
     <<{"role:worker"}, "worker">>, <<{"role:qa"}, "qa">>,
     <<{"role:parity", "role:convergence"}, "artifact reviewer">>,
     <<{"role:auditor"}, "auditor">>, <<{"role:reflection"}, "reflection">> >>

RoleOfAgent ==
  << <<{"dxt_product_manager"}, "product manager">>, <<{"dxt_supervisor_integrator"}, "supervisor">>,
     <<{"dxt_issue_triager"}, "triager">>, <<{"dxt_code_mapper"}, "mapper">>,
     <<{"dxt_dbt_reference_researcher"}, "researcher">>,
     <<{"dxt_zig_runtime_architect"}, "architect">>, <<{"dxt_zig_slice_worker"}, "worker">>,
     <<{"dxt_qa_fixture_engineer"}, "qa">>,
     <<{"dxt_artifact_parity_reviewer", "dxt_convergence_reviewer"}, "artifact reviewer">>,
     <<{"dxt_runtime_boundary_auditor"}, "auditor">>, <<{"dxt_reflection_reviewer"}, "reflection">>,
     <<{"dxt_docs_release_curator"}, "docs release">> >>

RoleOfArea ==
  << <<{"area:compiler-jinja", "area:selector", "area:runner"}, "worker">>,
     <<{"area:release", "area:docs"}, "docs release">> >>

Roles == {RoleOfLabel[n][2] : n \in DOMAIN RoleOfLabel}

\* Labels of several roles leave the field alone, with a warning.
RoleValue(labels, event) ==
  LET named == {RoleOfLabel[n][2] : n \in {m \in DOMAIN RoleOfLabel : RoleOfLabel[m][1] \cap labels # {}}}
      ofLabels == IF Cardinality(named) > 1 THEN Leave
                  ELSE IF named # {} THEN CHOOSE r \in named : TRUE
                  ELSE Decide(RoleOfArea, labels, Leave)
  IN  Decide(RoleOfAgent, {event}, IF event \in Roles THEN event ELSE ofLabels)

TrackOf ==
  << <<{"area:semantic"}, "semantic layer">>,
     <<{"area:cross-db", "area:adapter-abi"}, "cross-db">>,
     <<{"area:duckdb", "area:runner"}, "DuckDB execution">>,
     <<{"area:artifacts"}, "artifacts">>, <<{"area:release"}, "docs release">>,
     <<{"type:safety", "risk:runtime-boundary"}, "safety">>,
     <<{"type:compat"}, "dbt compatibility">>, <<{"type:runtime"}, "Zig runtime">> >>
TrackValue(labels) == Decide(TrackOf, labels, Leave)

PatternOf ==
  << <<{"pattern:hierarchical"}, "hierarchical">>, <<{"pattern:network"}, "network">>,
     <<{"pattern:reflection"}, "reflection">>, <<{"pattern:supervisor"}, "supervisor">> >>
PatternValue(labels) == Decide(PatternOf, labels, Leave)

\* Mutation: a value nobody made an option of.
ValidationValueUnlisted(labels) ==
  Decide(<< <<{"gate:zig-test"}, "native Zig">>,
            <<{"gate:jaffle-parse", "gate:jaffle-build", "gate:jaffle-run"}, "jaffle gate">> >>, labels, Leave)

ValidationOf ==
  << <<{"gate:zig-test"}, "native Zig">>, <<{"gate:focused-pytest"}, "focused pytest">>,
     <<{"gate:dbt-oracle"}, "dbt oracle">>,
     <<{"gate:jaffle-parse", "gate:jaffle-build", "gate:jaffle-run", "gate:jaffle-docs"}, "Jaffle gate">>,
     <<{"type:safety"}, "safety">>, <<{"risk:runtime-boundary"}, "runtime boundary">>,
     <<{"type:ci"}, "CI only">> >>
ValidationValue(labels) == Decide(ValidationOf, labels, Leave)

GroundingOf ==
  << <<{"needs-reference-map"}, "missing">>, <<{"type:research", "type:compat"}, "linked">> >>
SourceGroundingValue(labels) == Decide(GroundingOf, labels, "not applicable")

PlanUpdateOf == << <<{"needs-slice-plan", "type:research"}, "required">> >>
PlanUpdateValue(labels) == Decide(PlanUpdateOf, labels, "not needed")

\* A branch named by a local path is not published.
LocalPaths == {"/local/path"}
BranchValue(text) ==
  LET branch == Latest(text, "branch") IN
  IF branch = "none" \/ branch \in LocalPaths THEN Leave ELSE branch

\* The tokens of a set of issue numbers, in order: one text per set.
DependencyValue(text) == IF text.depends = {} THEN Empty ELSE ToString(text.depends)

FieldOrder ==
  << "Agent Status", "Agent Role", "Track", "Pattern", "Validation", "Source Grounding",
     "PLAN Update", "Readiness", "Branch", "Dependencies" >>
Fields == {FieldOrder[n] : n \in DOMAIN FieldOrder}

\* What each select field offers, in .github/agent-team/project.json; the other
\* fields hold text.
Options ==
  [f \in Fields |->
     CASE f = "Agent Status" ->
            {"Intake", "Needs Reference Map", "Needs Slice Plan", "Ready", "Claimed", "In Worktree",
             "Local Validation", "PR Open", "CI Running", "CI Red", "Needs Review",
             "Ready To Merge", "Merged", "Deferred", "Blocked"}
       [] f = "Agent Role" ->
            {"product manager", "supervisor", "triager", "mapper", "researcher", "architect",
             "worker", "qa", "artifact reviewer", "auditor", "reflection", "docs release"}
       [] f = "Track" ->
            {"dbt compatibility", "Zig runtime", "artifacts", "DuckDB execution",
             "semantic layer", "cross-db", "docs release", "safety"}
       [] f = "Pattern" -> {"supervisor", "hierarchical", "network", "reflection"}
       [] f = "Validation" ->
            {"native Zig", "focused pytest", "dbt oracle", "Jaffle gate", "safety",
             "runtime boundary", "CI only", "not applicable"}
       [] f = "PLAN Update" -> {"not needed", "required", "done"}
       [] f = "Source Grounding" -> {"missing", "linked", "not applicable"}
       [] f = "Readiness" ->
            {"unknown", "blocked", "needs reference map", "needs slice plan", "ready",
             "claimed", "in worktree", "review", "merged"}
       [] OTHER -> {}]

DesiredValue(text, field) ==
  LET labels == text.labels
      status == Latest(text, "status")
  IN  CASE field = "Agent Status"     -> StatusValue(labels, status)
        [] field = "Agent Role"       -> RoleValue(labels, Latest(text, "role"))
        [] field = "Track"            -> TrackValue(labels)
        [] field = "Pattern"          -> PatternValue(labels)
        [] field = "Validation"       -> ValidationValue(labels)
        [] field = "Source Grounding" -> SourceGroundingValue(labels)
        [] field = "PLAN Update"      -> PlanUpdateValue(labels)
        [] field = "Readiness"        -> ReadinessValue(labels, status)
        [] field = "Branch"           -> BranchValue(text)
        [] field = "Dependencies"     -> DependencyValue(text)

\* The issues that get an item at all.
Admissible(text) ==
  text.labels \cap {"ready-for-agent", "needs-reference-map", "needs-slice-plan", "status:ready",
                    "status:claimed", "status:blocked", "status:review", "status:ci"} # {}
=============================================================================
