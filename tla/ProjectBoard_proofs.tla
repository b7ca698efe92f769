------------------------ MODULE ProjectBoard_proofs ------------------------
(***************************************************************************)
(* Proofs about the commands that synchronize GitHub, for any manifests,   *)
(* issues, runs and people: what a run has read stays true enough as long  *)
(* as nobody else writes, so that a run that was not overtaken ends with   *)
(* everything in place; and what duplicates or loses something is a run    *)
(* that was overtaken.                                                     *)
(***************************************************************************)
EXTENDS ProjectBoard, FiniteSetTheorems, SequenceTheorems, TLAPS

-----------------------------------------------------------------------------
(* The values of the fields                                                 *)

\* A set of numbers has a least one: the first of the non-empty intervals
\* from 0 in the order of inclusion ends with it.
LEMMA Least ==
  ASSUME NEW T \in SUBSET Nat, T # {}
  PROVE  \E k \in T : \A m \in T : k <= m
<1>. DEFINE Initial == {0..k : k \in T}
<1>1. Initial \subseteq FiniteSubsetsOf(Nat) /\ Initial # {}
  <2>1. \A k \in T : 0..k \in SUBSET Nat /\ IsFiniteSet(0..k)
    BY FS_Interval
  <2>. QED  BY <2>1 DEF FiniteSubsetsOf
<1>2. PICK I \in Initial : \A J \in Initial : <<J, I>> \notin StrictSubsetOrdering(Nat)
  <2>. DEFINE R == StrictSubsetOrdering(Nat)  F == FiniteSubsetsOf(Nat)
  <2>1. IsWellFoundedOn(R, F)
    BY FS_StrictSubsetOrderingWellFounded
  <2>. HIDE DEF R, F, Initial
  <2>. QED  BY <1>1, <2>1, WFMin DEF F, R
<1>3. PICK k \in T : I = 0..k
  BY <1>2
<1>4. ASSUME NEW m \in T, m < k PROVE FALSE
  <2>1. 0..m \in SUBSET Nat /\ 0..k \in SUBSET Nat /\ 0..m \subseteq 0..k
    BY <1>4
  <2>2. k \in 0..k /\ k \notin 0..m
    BY <1>4
  <2>3. <<0..m, 0..k>> \in StrictSubsetOrdering(Nat)
    BY <2>1, <2>2 DEF StrictSubsetOrdering
  <2>. QED  BY <1>2, <1>3, <2>3
<1>. QED  BY <1>4

\* The first row that applies, or the default.
LEMMA DecideInRange ==
  ASSUME NEW rows, DOMAIN rows \subseteq Nat, NEW labels, NEW default, NEW S,
         default \in S, \A k \in DOMAIN rows : rows[k][2] \in S
  PROVE  Decide(rows, labels, default) \in S
<1>. DEFINE hits == {k \in DOMAIN rows : rows[k][1] \cap labels # {}}
<1>1. CASE hits = {}
  BY <1>1 DEF Decide
<1>2. CASE hits # {}
  <2>1. hits \in SUBSET Nat
    OBVIOUS
  <2>2. \E k \in hits : \A l \in hits : k <= l
    <3>. HIDE DEF hits
    <3>. QED  BY <1>2, <2>1, Least
  <2>3. Min(hits) \in hits
    BY <2>2 DEF Min
  <2>4. Decide(rows, labels, default) = rows[Min(hits)][2]
    BY <1>2 DEF Decide
  <2>. QED  BY <2>3, <2>4
<1>. QED  BY <1>1, <1>2

\* The fields, in the order in which they are set.
LEMMA FieldList ==
  /\ Len(FieldOrder) = 10 /\ DOMAIN FieldOrder = 1..10
  /\ \A k \in 1..10 : FieldOrder[k] \in Fields
  /\ \A f \in Fields : \E k \in 1..10 : FieldOrder[k] = f
<1>1. Len(FieldOrder) = 10 /\ DOMAIN FieldOrder = 1..10
  BY DEF FieldOrder
<1>. QED  BY <1>1 DEF Fields

LEMMA FieldNames ==
  /\ FieldOrder[1] = "Agent Status" /\ FieldOrder[2] = "Agent Role" /\ FieldOrder[3] = "Track"
  /\ FieldOrder[4] = "Pattern" /\ FieldOrder[5] = "Validation" /\ FieldOrder[6] = "Source Grounding"
  /\ FieldOrder[7] = "PLAN Update" /\ FieldOrder[8] = "Readiness" /\ FieldOrder[9] = "Branch"
  /\ FieldOrder[10] = "Dependencies"
  /\ {"Agent Status", "Agent Role", "Track", "Pattern", "Validation", "Source Grounding",
      "PLAN Update", "Readiness", "Branch", "Dependencies"} \subseteq Fields
<1>1. /\ FieldOrder[1] = "Agent Status" /\ FieldOrder[2] = "Agent Role" /\ FieldOrder[3] = "Track"
      /\ FieldOrder[4] = "Pattern" /\ FieldOrder[5] = "Validation"
      /\ FieldOrder[6] = "Source Grounding" /\ FieldOrder[7] = "PLAN Update"
      /\ FieldOrder[8] = "Readiness" /\ FieldOrder[9] = "Branch" /\ FieldOrder[10] = "Dependencies"
  BY DEF FieldOrder
<1>2. 1 \in 1..10 /\ 2 \in 1..10 /\ 3 \in 1..10 /\ 4 \in 1..10 /\ 5 \in 1..10
      /\ 6 \in 1..10 /\ 7 \in 1..10 /\ 8 \in 1..10 /\ 9 \in 1..10 /\ 10 \in 1..10
  OBVIOUS
<1>3. /\ FieldOrder[1] \in Fields /\ FieldOrder[2] \in Fields /\ FieldOrder[3] \in Fields
      /\ FieldOrder[4] \in Fields /\ FieldOrder[5] \in Fields /\ FieldOrder[6] \in Fields
      /\ FieldOrder[7] \in Fields /\ FieldOrder[8] \in Fields /\ FieldOrder[9] \in Fields
      /\ FieldOrder[10] \in Fields
  BY <1>2, FieldList
<1>. QED  BY <1>1, <1>3, Zenon

\* Every value in a table is an option of the table's field.
Offers(T, f) == \A k \in DOMAIN T : k \in Nat /\ T[k][2] \in Options[f]

LEMMA TablesOffered ==
  /\ Offers(StatusOfEvent, "Agent Status")
  /\ Offers(StatusOfLabel, "Agent Status")
  /\ Offers(ReadinessOf, "Readiness")
  /\ Offers(RoleOfLabel, "Agent Role")
  /\ Offers(RoleOfAgent, "Agent Role")
  /\ Offers(RoleOfArea, "Agent Role")
  /\ Offers(TrackOf, "Track")
  /\ Offers(PatternOf, "Pattern")
  /\ Offers(ValidationOf, "Validation")
  /\ Offers(GroundingOf, "Source Grounding")
  /\ Offers(PlanUpdateOf, "PLAN Update")
<1>1. Options["Agent Status"] =
      {"Intake", "Needs Reference Map", "Needs Slice Plan", "Ready", "Claimed", "In Worktree",
      "Local Validation", "PR Open", "CI Running", "CI Red", "Needs Review", "Ready To Merge",
      "Merged", "Deferred", "Blocked"}
  BY FieldNames DEF Options
<1>2. Options["Agent Role"] =
      {"product manager", "supervisor", "triager", "mapper", "researcher", "architect",
      "worker", "qa", "artifact reviewer", "auditor", "reflection", "docs release"}
  BY FieldNames DEF Options
<1>3. Options["Track"] =
      {"dbt compatibility", "Zig runtime", "artifacts", "DuckDB execution", "semantic layer",
      "cross-db", "docs release", "safety"}
  BY FieldNames DEF Options
<1>4. Options["Pattern"] =
      {"supervisor", "hierarchical", "network", "reflection"}
  BY FieldNames DEF Options
<1>5. Options["Validation"] =
      {"native Zig", "focused pytest", "dbt oracle", "Jaffle gate", "safety",
      "runtime boundary", "CI only", "not applicable"}
  BY FieldNames DEF Options
<1>6. Options["PLAN Update"] =
      {"not needed", "required", "done"}
  BY FieldNames DEF Options
<1>7. Options["Source Grounding"] =
      {"missing", "linked", "not applicable"}
  BY FieldNames DEF Options
<1>8. Options["Readiness"] =
      {"unknown", "blocked", "needs reference map", "needs slice plan", "ready", "claimed",
      "in worktree", "review", "merged"}
  BY FieldNames DEF Options
<1>. HIDE DEF Options
<1>9. Offers(StatusOfEvent, "Agent Status")
  <2>1. DOMAIN StatusOfEvent = 1..9
    BY DEF StatusOfEvent
  <2>2. /\ StatusOfEvent[1][2] \in Options["Agent Status"] /\ StatusOfEvent[2][2] \in Options["Agent Status"]
        /\ StatusOfEvent[3][2] \in Options["Agent Status"] /\ StatusOfEvent[4][2] \in Options["Agent Status"]
        /\ StatusOfEvent[5][2] \in Options["Agent Status"] /\ StatusOfEvent[6][2] \in Options["Agent Status"]
        /\ StatusOfEvent[7][2] \in Options["Agent Status"] /\ StatusOfEvent[8][2] \in Options["Agent Status"]
        /\ StatusOfEvent[9][2] \in Options["Agent Status"]
    BY <1>1 DEF StatusOfEvent
  <2>3. \A k \in 1..9 : k \in Nat /\ (\/ k = 1 \/ k = 2 \/ k = 3 \/ k = 4 \/ k = 5
                                      \/ k = 6 \/ k = 7 \/ k = 8 \/ k = 9)
    OBVIOUS
  <2>. QED  BY <2>1, <2>2, <2>3, Zenon DEF Offers
<1>10. Offers(StatusOfLabel, "Agent Status")
  <2>1. DOMAIN StatusOfLabel = 1..7
    BY DEF StatusOfLabel
  <2>2. /\ StatusOfLabel[1][2] \in Options["Agent Status"] /\ StatusOfLabel[2][2] \in Options["Agent Status"]
        /\ StatusOfLabel[3][2] \in Options["Agent Status"] /\ StatusOfLabel[4][2] \in Options["Agent Status"]
        /\ StatusOfLabel[5][2] \in Options["Agent Status"] /\ StatusOfLabel[6][2] \in Options["Agent Status"]
        /\ StatusOfLabel[7][2] \in Options["Agent Status"]
    BY <1>1 DEF StatusOfLabel
  <2>3. \A k \in 1..7 : k \in Nat /\ (k = 1 \/ k = 2 \/ k = 3 \/ k = 4 \/ k = 5 \/ k = 6 \/ k = 7)
    OBVIOUS
  <2>. QED  BY <2>1, <2>2, <2>3, Zenon DEF Offers
<1>11. Offers(ReadinessOf, "Readiness")
  <2>1. DOMAIN ReadinessOf = 1..8
    BY DEF ReadinessOf
  <2>2. /\ ReadinessOf[1][2] \in Options["Readiness"] /\ ReadinessOf[2][2] \in Options["Readiness"]
        /\ ReadinessOf[3][2] \in Options["Readiness"] /\ ReadinessOf[4][2] \in Options["Readiness"]
        /\ ReadinessOf[5][2] \in Options["Readiness"] /\ ReadinessOf[6][2] \in Options["Readiness"]
        /\ ReadinessOf[7][2] \in Options["Readiness"] /\ ReadinessOf[8][2] \in Options["Readiness"]
    BY <1>8 DEF ReadinessOf
  <2>3. \A k \in 1..8 : k \in Nat /\ (k = 1 \/ k = 2 \/ k = 3 \/ k = 4 \/ k = 5 \/ k = 6 \/ k = 7 \/ k = 8)
    OBVIOUS
  <2>. QED  BY <2>1, <2>2, <2>3, Zenon DEF Offers
<1>12. Offers(RoleOfLabel, "Agent Role")
  <2>1. DOMAIN RoleOfLabel = 1..11
    BY DEF RoleOfLabel
  <2>2. /\ RoleOfLabel[1][2] \in Options["Agent Role"] /\ RoleOfLabel[2][2] \in Options["Agent Role"]
        /\ RoleOfLabel[3][2] \in Options["Agent Role"] /\ RoleOfLabel[4][2] \in Options["Agent Role"]
        /\ RoleOfLabel[5][2] \in Options["Agent Role"] /\ RoleOfLabel[6][2] \in Options["Agent Role"]
        /\ RoleOfLabel[7][2] \in Options["Agent Role"] /\ RoleOfLabel[8][2] \in Options["Agent Role"]
        /\ RoleOfLabel[9][2] \in Options["Agent Role"] /\ RoleOfLabel[10][2] \in Options["Agent Role"]
        /\ RoleOfLabel[11][2] \in Options["Agent Role"]
    BY <1>2 DEF RoleOfLabel
  <2>3. \A k \in 1..11 : k \in Nat /\ (\/ k = 1 \/ k = 2 \/ k = 3 \/ k = 4 \/ k = 5 \/ k = 6
                                       \/ k = 7 \/ k = 8 \/ k = 9 \/ k = 10 \/ k = 11)
    OBVIOUS
  <2>. QED  BY <2>1, <2>2, <2>3, Zenon DEF Offers
<1>13. Offers(RoleOfAgent, "Agent Role")
  <2>1. DOMAIN RoleOfAgent = 1..12
    BY DEF RoleOfAgent
  <2>2. /\ RoleOfAgent[1][2] \in Options["Agent Role"] /\ RoleOfAgent[2][2] \in Options["Agent Role"]
        /\ RoleOfAgent[3][2] \in Options["Agent Role"] /\ RoleOfAgent[4][2] \in Options["Agent Role"]
        /\ RoleOfAgent[5][2] \in Options["Agent Role"] /\ RoleOfAgent[6][2] \in Options["Agent Role"]
        /\ RoleOfAgent[7][2] \in Options["Agent Role"] /\ RoleOfAgent[8][2] \in Options["Agent Role"]
        /\ RoleOfAgent[9][2] \in Options["Agent Role"] /\ RoleOfAgent[10][2] \in Options["Agent Role"]
        /\ RoleOfAgent[11][2] \in Options["Agent Role"] /\ RoleOfAgent[12][2] \in Options["Agent Role"]
    BY <1>2 DEF RoleOfAgent
  <2>3. \A k \in 1..12 : k \in Nat /\ (\/ k = 1 \/ k = 2 \/ k = 3 \/ k = 4 \/ k = 5 \/ k = 6
                                       \/ k = 7 \/ k = 8 \/ k = 9 \/ k = 10 \/ k = 11 \/ k = 12)
    OBVIOUS
  <2>. QED  BY <2>1, <2>2, <2>3, Zenon DEF Offers
<1>14. Offers(RoleOfArea, "Agent Role")
  <2>1. DOMAIN RoleOfArea = 1..2
    BY DEF RoleOfArea
  <2>2. /\ RoleOfArea[1][2] \in Options["Agent Role"] /\ RoleOfArea[2][2] \in Options["Agent Role"]
    BY <1>2 DEF RoleOfArea
  <2>3. \A k \in 1..2 : k \in Nat /\ (k = 1 \/ k = 2)
    OBVIOUS
  <2>. QED  BY <2>1, <2>2, <2>3, Zenon DEF Offers
<1>15. Offers(TrackOf, "Track")
  <2>1. DOMAIN TrackOf = 1..8
    BY DEF TrackOf
  <2>2. /\ TrackOf[1][2] \in Options["Track"] /\ TrackOf[2][2] \in Options["Track"]
        /\ TrackOf[3][2] \in Options["Track"] /\ TrackOf[4][2] \in Options["Track"]
        /\ TrackOf[5][2] \in Options["Track"] /\ TrackOf[6][2] \in Options["Track"]
        /\ TrackOf[7][2] \in Options["Track"] /\ TrackOf[8][2] \in Options["Track"]
    BY <1>3 DEF TrackOf
  <2>3. \A k \in 1..8 : k \in Nat /\ (k = 1 \/ k = 2 \/ k = 3 \/ k = 4 \/ k = 5 \/ k = 6 \/ k = 7 \/ k = 8)
    OBVIOUS
  <2>. QED  BY <2>1, <2>2, <2>3, Zenon DEF Offers
<1>16. Offers(PatternOf, "Pattern")
  <2>1. DOMAIN PatternOf = 1..4
    BY DEF PatternOf
  <2>2. /\ PatternOf[1][2] \in Options["Pattern"] /\ PatternOf[2][2] \in Options["Pattern"]
        /\ PatternOf[3][2] \in Options["Pattern"] /\ PatternOf[4][2] \in Options["Pattern"]
    BY <1>4 DEF PatternOf
  <2>3. \A k \in 1..4 : k \in Nat /\ (k = 1 \/ k = 2 \/ k = 3 \/ k = 4)
    OBVIOUS
  <2>. QED  BY <2>1, <2>2, <2>3, Zenon DEF Offers
<1>17. Offers(ValidationOf, "Validation")
  <2>1. DOMAIN ValidationOf = 1..7
    BY DEF ValidationOf
  <2>2. /\ ValidationOf[1][2] \in Options["Validation"] /\ ValidationOf[2][2] \in Options["Validation"]
        /\ ValidationOf[3][2] \in Options["Validation"] /\ ValidationOf[4][2] \in Options["Validation"]
        /\ ValidationOf[5][2] \in Options["Validation"] /\ ValidationOf[6][2] \in Options["Validation"]
        /\ ValidationOf[7][2] \in Options["Validation"]
    BY <1>5 DEF ValidationOf
  <2>3. \A k \in 1..7 : k \in Nat /\ (k = 1 \/ k = 2 \/ k = 3 \/ k = 4 \/ k = 5 \/ k = 6 \/ k = 7)
    OBVIOUS
  <2>. QED  BY <2>1, <2>2, <2>3, Zenon DEF Offers
<1>18. Offers(GroundingOf, "Source Grounding")
  <2>1. DOMAIN GroundingOf = 1..2
    BY DEF GroundingOf
  <2>2. /\ GroundingOf[1][2] \in Options["Source Grounding"] /\ GroundingOf[2][2] \in Options["Source Grounding"]
    BY <1>7 DEF GroundingOf
  <2>3. \A k \in 1..2 : k \in Nat /\ (k = 1 \/ k = 2)
    OBVIOUS
  <2>. QED  BY <2>1, <2>2, <2>3, Zenon DEF Offers
<1>19. Offers(PlanUpdateOf, "PLAN Update")
  <2>1. DOMAIN PlanUpdateOf = 1..1
    BY DEF PlanUpdateOf
  <2>2. /\ PlanUpdateOf[1][2] \in Options["PLAN Update"]
    BY <1>6 DEF PlanUpdateOf
  <2>3. \A k \in 1..1 : k \in Nat /\ (k = 1)
    OBVIOUS
  <2>. QED  BY <2>1, <2>2, <2>3, Zenon DEF Offers
<1>. QED  BY <1>9, <1>10, <1>11, <1>12, <1>13, <1>14, <1>15, <1>16, <1>17, <1>18, <1>19

LEMMA DecideOffered ==
  ASSUME NEW T, NEW f, Offers(T, f), NEW labels, NEW default \in Options[f] \cup {Leave}
  PROVE  Decide(T, labels, default) \in Options[f] \cup {Leave}
<1>. DEFINE S == Options[f] \cup {Leave}
<1>1. DOMAIN T \subseteq Nat /\ \A k \in DOMAIN T : T[k][2] \in S
  BY DEF Offers
<1>2. default \in S
  OBVIOUS
<1>3. Decide(T, labels, default) \in S
  <2>. HIDE DEF S
  <2>. QED  BY <1>1, <1>2, DecideInRange
<1>. QED  BY <1>3

LEMMA RoleOffered ==
  ASSUME NEW labels, NEW event PROVE RoleValue(labels, event) \in Options["Agent Role"] \cup {Leave}
<1>. DEFINE named == {RoleOfLabel[k][2] : k \in {m \in DOMAIN RoleOfLabel : RoleOfLabel[m][1] \cap labels # {}}}
            ofLabels == IF Cardinality(named) > 1 THEN Leave
                        ELSE IF named # {} THEN CHOOSE r \in named : TRUE
                        ELSE Decide(RoleOfArea, labels, Leave)
            ofEvent == IF event \in Roles THEN event ELSE ofLabels
<1>1. named \subseteq Options["Agent Role"] /\ Roles \subseteq Options["Agent Role"]
  BY TablesOffered DEF Offers, Roles
<1>2. Decide(RoleOfArea, labels, Leave) \in Options["Agent Role"] \cup {Leave}
  BY TablesOffered, DecideOffered
<1>3. ofLabels \in Options["Agent Role"] \cup {Leave}
  <2>. HIDE DEF named
  <2>. QED  BY <1>1, <1>2
<1>4. ofEvent \in Options["Agent Role"] \cup {Leave}
  <2>. HIDE DEF ofLabels
  <2>. QED  BY <1>1, <1>3
<1>5. Decide(RoleOfAgent, {event}, ofEvent) \in Options["Agent Role"] \cup {Leave}
  <2>. HIDE DEF ofEvent
  <2>. QED  BY <1>4, TablesOffered, DecideOffered
<1>. QED  BY <1>5 DEF RoleValue

LEMMA DesiredOffered ==
  ASSUME NEW t, NEW f \in Fields, Options[f] # {}
  PROVE  DesiredValue(t, f) \in Options[f] \cup {Leave}
<1>. DEFINE status == Latest(t, "status")
<1>1. /\ "Intake" \in Options["Agent Status"] /\ "unknown" \in Options["Readiness"]
      /\ "not applicable" \in Options["Source Grounding"] /\ "not needed" \in Options["PLAN Update"]
      /\ Options["Branch"] = {} /\ Options["Dependencies"] = {}
  BY FieldNames DEF Options
<1>2. f \in {"Agent Status", "Agent Role", "Track", "Pattern", "Validation", "Source Grounding",
             "PLAN Update", "Readiness"}
  <2>1. PICK k \in 1..10 : f = FieldOrder[k]
    BY FieldList
  <2>2. f \in {"Agent Status", "Agent Role", "Track", "Pattern", "Validation", "Source Grounding",
               "PLAN Update", "Readiness", "Branch", "Dependencies"}
    <3>1. k = 1 \/ k = 2 \/ k = 3 \/ k = 4 \/ k = 5 \/ k = 6 \/ k = 7 \/ k = 8 \/ k = 9 \/ k = 10
      OBVIOUS
    <3>. QED  BY <2>1, <3>1, FieldNames
  <2>. QED  BY <1>1, <2>2
<1>3. CASE f = "Agent Status"
  <2>1. Decide(StatusOfLabel, t.labels, "Intake") \in Options[f] \cup {Leave}
    BY <1>1, <1>3, TablesOffered, DecideOffered
  <2>2. StatusValue(t.labels, status) \in Options[f] \cup {Leave}
    BY <1>3, <2>1, TablesOffered, DecideOffered DEF StatusValue
  <2>. QED  BY <1>3, <2>2 DEF DesiredValue
<1>4. CASE f = "Agent Role"
  <2>1. RoleValue(t.labels, Latest(t, "role")) \in Options[f] \cup {Leave}
    BY <1>4, RoleOffered
  <2>. QED  BY <1>4, <2>1 DEF DesiredValue
<1>5. CASE f = "Track"
  <2>1. TrackValue(t.labels) \in Options[f] \cup {Leave}
    BY <1>5, TablesOffered, DecideOffered DEF TrackValue
  <2>. QED  BY <1>5, <2>1 DEF DesiredValue
<1>6. CASE f = "Pattern"
  <2>1. PatternValue(t.labels) \in Options[f] \cup {Leave}
    BY <1>6, TablesOffered, DecideOffered DEF PatternValue
  <2>. QED  BY <1>6, <2>1 DEF DesiredValue
<1>7. CASE f = "Validation"
  <2>1. ValidationValue(t.labels) \in Options[f] \cup {Leave}
    BY <1>7, TablesOffered, DecideOffered DEF ValidationValue
  <2>. QED  BY <1>7, <2>1 DEF DesiredValue
<1>8. CASE f = "Source Grounding"
  <2>1. SourceGroundingValue(t.labels) \in Options[f] \cup {Leave}
    BY <1>1, <1>8, TablesOffered, DecideOffered DEF SourceGroundingValue
  <2>. QED  BY <1>8, <2>1 DEF DesiredValue
<1>9. CASE f = "PLAN Update"
  <2>1. PlanUpdateValue(t.labels) \in Options[f] \cup {Leave}
    BY <1>1, <1>9, TablesOffered, DecideOffered DEF PlanUpdateValue
  <2>. QED  BY <1>9, <2>1 DEF DesiredValue
<1>10. CASE f = "Readiness"
  <2>1. ReadinessValue(t.labels, status) \in Options[f] \cup {Leave}
    BY <1>1, <1>10, TablesOffered, DecideOffered DEF ReadinessValue
  <2>. QED  BY <1>10, <2>1 DEF DesiredValue
<1>. QED  BY <1>2, <1>3, <1>4, <1>5, <1>6, <1>7, <1>8, <1>9, <1>10

\* The lists of the manifests, and of the issues.
LEMMA TitleList ==
  /\ DOMAIN Titles = 1..Len(Titles) /\ Len(Titles) \in Nat
  /\ \A k \in 1..Len(Titles) : Titles[k] \in ToSet(Titles)
  /\ \A t \in ToSet(Titles) : \E k \in 1..Len(Titles) : Titles[k] = t
  /\ \A j, k \in 1..Len(Titles) : Titles[j] = Titles[k] => j = k
<1>1. Titles \in Seq(ToSet(Titles)) /\ IsInjective(Titles)
  BY BoardAssumption
<1>2. DOMAIN Titles = 1..Len(Titles) /\ Len(Titles) \in Nat
  BY <1>1, LenProperties
<1>. QED  BY <1>1, <1>2 DEF ToSet, IsInjective

LEMMA LabelList ==
  /\ DOMAIN LabelOrder = 1..Len(LabelOrder) /\ Len(LabelOrder) \in Nat
  /\ \A k \in 1..Len(LabelOrder) : LabelOrder[k] \in Labels
  /\ \A l \in Labels : \E k \in 1..Len(LabelOrder) : LabelOrder[k] = l
<1>1. LabelOrder \in Seq(Labels)
  BY BoardAssumption
<1>2. DOMAIN LabelOrder = 1..Len(LabelOrder) /\ Len(LabelOrder) \in Nat
  BY <1>1, LenProperties
<1>. QED  BY <1>2 DEF Labels, ToSet

LEMMA IssueList ==
  ASSUME scenario \in Scenarios
  PROVE  /\ DOMAIN IssueOrder = 1..Len(IssueOrder) /\ Len(IssueOrder) \in Nat
         /\ \A k \in 1..Len(IssueOrder) : IssueOrder[k] \in Issues
         /\ \A i \in Issues : \E k \in 1..Len(IssueOrder) : IssueOrder[k] = i
         /\ \A j, k \in 1..Len(IssueOrder) : IssueOrder[j] = IssueOrder[k] => j = k
<1>1. IssueOrder \in Seq(Issues) /\ IsInjective(IssueOrder) /\ ToSet(IssueOrder) = Issues
  BY BoardAssumption DEF IssueOrder, Issues
<1>2. DOMAIN IssueOrder = 1..Len(IssueOrder) /\ Len(IssueOrder) \in Nat
  BY <1>1, LenProperties
<1>. QED  BY <1>1, <1>2 DEF ToSet, IsInjective

\* What GitHub lists depends on the issues only.
LEMMA SameListing ==
  ASSUME scenario' = scenario, text' = text
  PROVE  IssueOrder' = IssueOrder /\ Issues' = Issues /\ \A j : Shown(j)' = Shown(j)
<1>1. IssueOrder' = IssueOrder /\ Issues' = Issues /\ \A j : TextOf(j)' = TextOf(j)
  BY DEF IssueOrder, Issues, TextOf
<1>2. Listed' = Listed
  BY <1>1, Zenon DEF Listed
<1>. QED  BY <1>1, <1>2 DEF Shown

-----------------------------------------------------------------------------
(* The invariant                                                            *)

StagesOf(command) ==
  CASE command \in {"labels", "check"} -> {"list labels", "label"}
    [] command = "seeds" -> {"list seeds", "seed"}
    [] command = "project" ->
         {"list projects", "create project", "link", "list fields", "field", "options"}
    [] command = "items" ->
         {"find project", "list issues", "list items", "list item fields", "item", "value"}

Loops == {"label", "seed", "field", "options", "item", "value"}
OnBoard == {"link", "list fields", "field", "options",
            "list issues", "list items", "list item fields", "item", "value"}

IsView(v) ==
  v = [labels |-> v.labels, titles |-> v.titles, board |-> v.board, texts |-> v.texts,
       items |-> v.items, fields |-> v.fields, options |-> v.options, values |-> v.values]

BoardsOK ==
  /\ Len(boards) \in Nat /\ boards = [b \in 1..Len(boards) |-> boards[b]]
  /\ \A b \in 1..Len(boards) : IsBoard(boards[b], Issues)

SeedsOK ==
  /\ seeded = [t \in ToSet(Titles) |-> seeded[t]]
  /\ \A t \in ToSet(Titles) :
       /\ seeded[t] = [open |-> seeded[t].open, closed |-> seeded[t].closed]
       /\ seeded[t].open \in Nat /\ seeded[t].closed \in Nat

GithubOK ==
  /\ scenario \in Scenarios
  /\ label = [l \in Labels |-> label[l]]
  /\ text = [i \in Issues |-> text[i]]
  /\ SeedsOK /\ BoardsOK

\* A run is where its command has such a call, and has not ended.
PlaceOK(r) ==
  /\ program[r] \in Seq(Commands) /\ step[r] \in 1..Len(program[r]) /\ n[r] \in Nat \ {0}
  /\ overtaken[r] \in BOOLEAN /\ IsView(view[r])
  /\ Running(r) => at[r] \in StagesOf(Command(r)) /\ result[r] = "none"
  /\ at[r] \notin Loops => n[r] = 1

PlacesOK ==
  /\ program = [r \in Runs |-> program[r]] /\ step = [r \in Runs |-> step[r]]
  /\ at = [r \in Runs |-> at[r]] /\ n = [r \in Runs |-> n[r]]
  /\ view = [r \in Runs |-> view[r]] /\ result = [r \in Runs |-> result[r]]
  /\ overtaken = [r \in Runs |-> overtaken[r]]
  /\ \A r \in Runs : PlaceOK(r)

Shape == GithubOK /\ PlacesOK

Chosen(r) == boards[view[r].board]
FieldAt(r) == FieldOrder[n[r]]
IssueAt(r) == IssueOrder[n[r]]

\* What a run has read and nobody can take back: the board it has chosen, the
\* kinds of its fields, its items, and the seed issues.
Lasting(r) ==
  /\ at[r] \in OnBoard => view[r].board \in 1..Len(boards)
  /\ at[r] \in {"field", "options", "item", "value"} =>
       \A f \in Fields : view[r].fields[f].kind # "absent" =>
         Chosen(r).fields[f].kind = view[r].fields[f].kind
  /\ at[r] = "options" => n[r] \in 1..10 /\ Chosen(r).fields[FieldAt(r)].kind = "select"
  /\ at[r] \in {"list item fields", "item", "value"} =>
       \A i \in Issues : view[r].items[i].on => Chosen(r).items[i].on
  /\ at[r] = "value" => n[r] \in 1..Len(IssueOrder) /\ Chosen(r).items[IssueAt(r)].on
  /\ at[r] = "seed" =>
       /\ \A t \in view[r].titles : t \in ToSet(Titles) /\ Copies(t) > 0
       /\ \A k \in 1..Len(Titles) : k < n[r] => Copies(Titles[k]) > 0

Prepared(f, field) ==
  /\ field.kind # "absent" /\ Manifest[f] \subseteq field.options
  /\ Manifest[f] # {} => field.kind = "select"

Synced(t, item) ==
  Included(t) => item.on /\ \A f \in Fields : DesiredValue(t, f) \in {Leave, item.values[f]}

\* What holds as long as nobody else has written.
LabelsFresh(r) ==
  (at[r] = "label" /\ Command(r) = "labels") =>
    /\ \A l \in Labels : view[r].labels[l] = "right" => label[l] = "right"
    /\ \A k \in 1..Len(LabelOrder) : k < n[r] => label[LabelOrder[k]] = "right"

SeedsFresh(r) ==
  at[r] = "seed" => \A t \in ToSet(Titles) : Copies(t) > 0 =>
    t \in view[r].titles \/ \E k \in 1..Len(Titles) : k < n[r] /\ Titles[k] = t

FieldsFresh(r) ==
  /\ at[r] = "create project" => boards = <<>>
  /\ at[r] \in {"field", "options"} =>
       \A k \in 1..10 : k < n[r] => Prepared(FieldOrder[k], Chosen(r).fields[FieldOrder[k]])
  /\ at[r] = "options" => view[r].options = Chosen(r).fields[FieldAt(r)].options

ItemsFresh(r) ==
  /\ at[r] \in {"list items", "list item fields", "item", "value"} =>
       \A i \in Issues : view[r].texts[i] = Shown(i)
  /\ at[r] \in {"list item fields", "item", "value"} =>
       \A k \in 1..Len(IssueOrder) : (IF at[r] = "value" THEN k > n[r] ELSE k >= n[r]) =>
         view[r].items[IssueOrder[k]] = Chosen(r).items[IssueOrder[k]]
  /\ at[r] \in {"item", "value"} =>
       /\ \A f \in Fields : view[r].fields[f] = Chosen(r).fields[f]
       /\ \A k \in 1..Len(IssueOrder) : k < n[r] =>
            Synced(Shown(IssueOrder[k]), Chosen(r).items[IssueOrder[k]])
  /\ at[r] = "value" => view[r].values = Chosen(r).items[IssueAt(r)].values

\* What an earlier project of the run has left.
BoardPrepared ==
  Len(boards) = 1 /\ \A f \in Fields : Prepared(f, boards[1].fields[f])
ProjectDone(r) == \E k \in 1..step[r]-1 : program[r][k] = "project"

Fresh(r) ==
  (Running(r) /\ ~overtaken[r]) =>
    /\ LabelsFresh(r) /\ SeedsFresh(r) /\ FieldsFresh(r) /\ ItemsFresh(r)
    /\ ProjectDone(r) => Muddled \/ BoardPrepared

Completes(r) ==
  (result[r] = "refused" /\ Command(r) = "items" /\ ProjectDone(r)) => overtaken[r] \/ Muddled

Held(r) == Lasting(r) /\ Fresh(r) /\ Completes(r)

IInv == Shape /\ \A r \in Runs : Held(r)

-----------------------------------------------------------------------------
(* What is written on the boards                                            *)

\* Kinds of fields, items and seed issues stay once they are there.
Grows ==
  /\ Len(boards) <= Len(boards)'
  /\ \A b \in 1..Len(boards) :
       /\ \A f \in Fields : boards[b].fields[f].kind # "absent" =>
            boards'[b].fields[f].kind = boards[b].fields[f].kind
       /\ \A i \in Issues : boards[b].items[i].on => boards'[b].items[i].on
  /\ \A t \in ToSet(Titles) : Copies(t) > 0 => Copies(t)' > 0

\* One board is changed.
LEMMA OneBoard ==
  ASSUME BoardsOK, NEW b \in 1..Len(boards), NEW B, IsBoard(B, Issues), scenario' = scenario,
         boards' = [boards EXCEPT ![b] = B]
  PROVE  /\ BoardsOK' /\ Len(boards)' = Len(boards) /\ boards'[b] = B
         /\ \A c \in 1..Len(boards) : c # b => boards'[c] = boards[c]
<1>1. DOMAIN boards = 1..Len(boards) /\ DOMAIN boards' = 1..Len(boards)
  BY DEF BoardsOK
<1>3. boards' = [c \in 1..Len(boards) |-> IF c = b THEN B ELSE boards[c]]
  BY <1>1 DEF BoardsOK
<1>5. Len(boards)' = Len(boards)
  <2>. DEFINE S == {boards[c] : c \in 1..Len(boards)} \cup {B}
  <2>1. boards' \in [1..Len(boards) -> S]
    BY <1>3
  <2>. HIDE DEF S
  <2>2. boards' \in Seq(S)
    <3>1. Len(boards) \in Nat
      BY DEF BoardsOK
    <3>2. Seq(S) = UNION {[1..m -> S] : m \in Nat}
      BY SeqDef
    <3>. QED  BY <2>1, <3>1, <3>2, Zenon
  <2>. QED  BY <1>1, <2>2 DEF BoardsOK
<1>6. Issues' = Issues
  BY DEF Issues
<1>. QED  BY <1>3, <1>5, <1>6 DEF BoardsOK

LEMMA BoardParts ==
  ASSUME NEW B, NEW S, IsBoard(B, S)
  PROVE  /\ B = [fields |-> B.fields, items |-> B.items]
         /\ B.fields = [g \in Fields |-> B.fields[g]]
         /\ B.items = [j \in S |-> B.items[j]]
<1>. DEFINE F == [g \in Fields |-> B.fields[g]]  I == [j \in S |-> B.items[j]]
<1>1. B = [fields |-> F, items |-> I]
  BY DEF IsBoard
<1>. HIDE DEF F, I
<1>2. B.fields = F /\ B.items = I
  BY <1>1
<1>. QED  BY <1>1, <1>2 DEF F, I

LEMMA WriteField ==
  ASSUME BoardsOK, NEW b \in 1..Len(boards), NEW f \in Fields, NEW x, IsField(x), scenario' = scenario,
         boards' = [boards EXCEPT ![b].fields[f] = x]
  PROVE  /\ BoardsOK' /\ Len(boards)' = Len(boards)
         /\ \A c \in 1..Len(boards) : c # b => boards'[c] = boards[c]
         /\ boards'[b].items = boards[b].items
         /\ boards'[b].fields = [boards[b].fields EXCEPT ![f] = x]
<1>. DEFINE B == [boards[b] EXCEPT !.fields[f] = x]
<1>1. IsBoard(boards[b], Issues)
  BY DEF BoardsOK
<1>2. /\ B = [fields |-> [g \in Fields |-> IF g = f THEN x ELSE boards[b].fields[g]],
              items |-> boards[b].items]
      /\ B.fields = [boards[b].fields EXCEPT ![f] = x] /\ B.items = boards[b].items
  <2>1. boards[b] = [fields |-> boards[b].fields, items |-> boards[b].items]
    BY <1>1, BoardParts
  <2>2. [boards[b].fields EXCEPT ![f] = x] = [g \in Fields |-> IF g = f THEN x ELSE boards[b].fields[g]]
    BY <1>1, BoardParts
  <2>3. B = [fields |-> [boards[b].fields EXCEPT ![f] = x], items |-> boards[b].items]
    BY <2>1
  <2>. QED  BY <2>2, <2>3
<1>3. IsBoard(B, Issues)
  BY <1>1, <1>2 DEF IsBoard
<1>4. boards' = [boards EXCEPT ![b] = B]
  OBVIOUS
<1>. HIDE DEF B
<1>5. /\ BoardsOK' /\ Len(boards)' = Len(boards) /\ boards'[b] = B
      /\ \A c \in 1..Len(boards) : c # b => boards'[c] = boards[c]
  BY <1>3, <1>4, OneBoard
<1>. QED  BY <1>2, <1>5

LEMMA WriteItem ==
  ASSUME BoardsOK, NEW b \in 1..Len(boards), NEW i \in Issues, NEW x, IsItem(x), scenario' = scenario,
         boards' = [boards EXCEPT ![b].items[i] = x]
  PROVE  /\ BoardsOK' /\ Len(boards)' = Len(boards)
         /\ \A c \in 1..Len(boards) : c # b => boards'[c] = boards[c]
         /\ boards'[b].fields = boards[b].fields
         /\ boards'[b].items[i] = x
         /\ \A j \in Issues : j # i => boards'[b].items[j] = boards[b].items[j]
<1>. DEFINE B == [boards[b] EXCEPT !.items[i] = x]
<1>1. IsBoard(boards[b], Issues)
  BY DEF BoardsOK
<1>2. B = [fields |-> boards[b].fields,
           items |-> [j \in Issues |-> IF j = i THEN x ELSE boards[b].items[j]]]
  <2>1. boards[b] = [fields |-> boards[b].fields, items |-> boards[b].items]
    BY <1>1, BoardParts
  <2>2. [boards[b].items EXCEPT ![i] = x] = [j \in Issues |-> IF j = i THEN x ELSE boards[b].items[j]]
    BY <1>1, BoardParts
  <2>3. B = [fields |-> boards[b].fields, items |-> [boards[b].items EXCEPT ![i] = x]]
    BY <2>1
  <2>. QED  BY <2>2, <2>3
<1>3. IsBoard(B, Issues)
  BY <1>1, <1>2 DEF IsBoard
<1>4. boards' = [boards EXCEPT ![b] = B]
  OBVIOUS
<1>. HIDE DEF B
<1>5. /\ BoardsOK' /\ Len(boards)' = Len(boards) /\ boards'[b] = B
      /\ \A c \in 1..Len(boards) : c # b => boards'[c] = boards[c]
  BY <1>3, <1>4, OneBoard
<1>. QED  BY <1>2, <1>5

\* Records of items and fields.
LEMMA ItemRecord ==
  /\ \A o, v : [on |-> o, values |-> v].on = o /\ [on |-> o, values |-> v].values = v
  /\ \A y, o : y = [on |-> y.on, values |-> y.values] => [y EXCEPT !.on = o] = [on |-> o, values |-> y.values]
  /\ \A y, v : y = [on |-> y.on, values |-> y.values] => [y EXCEPT !.values = v] = [on |-> y.on, values |-> v]
OBVIOUS

LEMMA FieldRecord ==
  \A y, o : y = [kind |-> y.kind, options |-> y.options] =>
    [y EXCEPT !.options = o] = [kind |-> y.kind, options |-> o]
OBVIOUS

LEMMA ItemParts ==
  ASSUME NEW x
  PROVE  IsItem(x) <=> /\ x = [on |-> x.on, values |-> x.values] /\ x.on \in BOOLEAN
                       /\ x.values = [f \in Fields |-> x.values[f]]
                       /\ ~x.on => x.values = NoValues
<1>1. ASSUME IsItem(x) PROVE x = [on |-> x.on, values |-> x.values] /\ x.values = [f \in Fields |-> x.values[f]]
  <2>. DEFINE V == [f \in Fields |-> x.values[f]]
  <2>1. x = [on |-> x.on, values |-> V]
    BY <1>1 DEF IsItem
  <2>. HIDE DEF V
  <2>2. x.values = V
    BY <2>1
  <2>. QED  BY <2>1, <2>2 DEF V
<1>. QED  BY <1>1 DEF IsItem

\* A board is created.
LEMMA AddBoard ==
  ASSUME BoardsOK, NEW B, IsBoard(B, Issues), scenario' = scenario, boards' = Append(boards, B)
  PROVE  /\ BoardsOK' /\ Len(boards)' = Len(boards) + 1
         /\ \A c \in 1..Len(boards) : boards'[c] = boards[c]
<1>1. boards \in Seq({boards[c] : c \in 1..Len(boards)} \cup {B})
  <2>. DEFINE S == {boards[c] : c \in 1..Len(boards)} \cup {B}
  <2>1. boards \in [1..Len(boards) -> S]
    BY DEF BoardsOK
  <2>. HIDE DEF S
  <2>2. Len(boards) \in Nat /\ Seq(S) = UNION {[1..m -> S] : m \in Nat}
    BY SeqDef DEF BoardsOK
  <2>. QED  BY <2>1, <2>2, Zenon DEF S
<1>2. /\ DOMAIN boards' = 1..Len(boards)+1 /\ Len(boards') = Len(boards) + 1
      /\ boards' = [c \in 1..Len(boards') |-> boards'[c]]
      /\ boards'[Len(boards)+1] = B
      /\ \A c \in 1..Len(boards) : boards'[c] = boards[c]
  <2>. DEFINE S == {boards[c] : c \in 1..Len(boards)} \cup {B}
  <2>1. boards \in Seq(S) /\ B \in S
    BY <1>1
  <2>. HIDE DEF S
  <2>2. boards' \in Seq(S) /\ Len(boards') = Len(boards) + 1 /\ boards'[Len(boards)+1] = B
    BY <2>1, AppendProperties
  <2>3. \A c \in 1..Len(boards) : boards'[c] = boards[c]
    BY <2>1, AppendProperties
  <2>4. boards' \in [1..Len(boards') -> S]
    BY <2>2, LenProperties
  <2>. QED  BY <2>2, <2>3, <2>4
<1>3. \A c \in 1..Len(boards') : IsBoard(boards'[c], Issues)
  <2>1. \A c \in 1..Len(boards') : c \in 1..Len(boards) \/ c = Len(boards) + 1
    BY <1>2 DEF BoardsOK
  <2>. QED  BY <1>2, <2>1 DEF BoardsOK
<1>4. Issues' = Issues
  BY DEF Issues
<1>. QED  BY <1>2, <1>3, <1>4 DEF BoardsOK

LEMMA NewBoardOK == IsBoard(NewBoard, Issues)
<1>1. IsField(NoField) /\ IsItem(NoItem)
  BY DEF IsField, IsItem, NoField, NoItem, NoValues
<1>2. /\ NewBoard.fields = [f \in Fields |-> NoField] /\ NewBoard.items = [i \in Issues |-> NoItem]
      /\ NewBoard = [fields |-> NewBoard.fields, items |-> NewBoard.items]
  BY DEF NewBoard
<1>. QED  BY <1>1, <1>2 DEF IsBoard

\* Parts of what is on a board.
LEMMA PartsOK ==
  ASSUME BoardsOK, NEW b \in 1..Len(boards)
  PROVE  /\ IsBoard(boards[b], Issues)
         /\ \A f \in Fields : IsField(boards[b].fields[f])
         /\ \A i \in Issues : IsItem(boards[b].items[i])
BY DEF BoardsOK, IsBoard

\* An item is put on the board, or one of its values is set.
LEMMA WriteOn ==
  ASSUME BoardsOK, NEW b \in 1..Len(boards), NEW i \in Issues, scenario' = scenario,
         boards' = [boards EXCEPT ![b].items[i].on = TRUE]
  PROVE  /\ BoardsOK' /\ Len(boards)' = Len(boards)
         /\ \A c \in 1..Len(boards) : c # b => boards'[c] = boards[c]
         /\ boards'[b].fields = boards[b].fields
         /\ boards'[b].items[i].on /\ boards'[b].items[i].values = boards[b].items[i].values
         /\ \A j \in Issues : j # i => boards'[b].items[j] = boards[b].items[j]
<1>. DEFINE x == [boards[b].items[i] EXCEPT !.on = TRUE]
<1>1. IsItem(boards[b].items[i])
  BY PartsOK
<1>2. IsItem(x) /\ x.on /\ x.values = boards[b].items[i].values
  <2>1. boards[b].items[i] = [on |-> boards[b].items[i].on, values |-> boards[b].items[i].values]
    BY <1>1, ItemParts
  <2>2. x = [on |-> TRUE, values |-> boards[b].items[i].values]
    BY <2>1, ItemRecord, Zenon
  <2>. HIDE DEF x
  <2>3. x.on = TRUE /\ x.values = boards[b].items[i].values
    BY <2>2, ItemRecord, Zenon
  <2>. QED  BY <1>1, <2>2, <2>3, ItemParts
<1>3. boards' = [boards EXCEPT ![b].items[i] = x]
  OBVIOUS
<1>. HIDE DEF x
<1>4. /\ BoardsOK' /\ Len(boards)' = Len(boards)
      /\ \A c \in 1..Len(boards) : c # b => boards'[c] = boards[c]
      /\ boards'[b].fields = boards[b].fields
      /\ boards'[b].items[i] = x
      /\ \A j \in Issues : j # i => boards'[b].items[j] = boards[b].items[j]
  <2>1. BoardsOK /\ b \in 1..Len(boards) /\ i \in Issues /\ IsItem(x) /\ scenario' = scenario
    BY <1>2
  <2>. QED  BY ONLY <1>3, <2>1, WriteItem
<1>. QED  BY <1>2, <1>4

LEMMA WriteValue ==
  ASSUME BoardsOK, NEW b \in 1..Len(boards), NEW i \in Issues, NEW f \in Fields, NEW d,
         scenario' = scenario, boards[b].items[i].on,
         boards' = [boards EXCEPT ![b].items[i].values[f] = d]
  PROVE  /\ BoardsOK' /\ Len(boards)' = Len(boards)
         /\ \A c \in 1..Len(boards) : c # b => boards'[c] = boards[c]
         /\ boards'[b].fields = boards[b].fields
         /\ boards'[b].items[i].on
         /\ boards'[b].items[i].values = [boards[b].items[i].values EXCEPT ![f] = d]
         /\ \A j \in Issues : j # i => boards'[b].items[j] = boards[b].items[j]
<1>. DEFINE x == [boards[b].items[i] EXCEPT !.values[f] = d]
<1>1. IsItem(boards[b].items[i])
  BY PartsOK
<1>2. IsItem(x) /\ x.on /\ x.values = [boards[b].items[i].values EXCEPT ![f] = d]
  <2>1. boards[b].items[i] = [on |-> boards[b].items[i].on, values |-> boards[b].items[i].values]
    BY <1>1, ItemParts
  <2>2. x = [on |-> boards[b].items[i].on, values |-> [boards[b].items[i].values EXCEPT ![f] = d]]
    <3>1. x = [boards[b].items[i] EXCEPT !.values = [boards[b].items[i].values EXCEPT ![f] = d]]
      OBVIOUS
    <3>2. ASSUME NEW v PROVE [boards[b].items[i] EXCEPT !.values = v] = [on |-> boards[b].items[i].on, values |-> v]
      BY ONLY <2>1
    <3>. QED  BY <3>1, <3>2, Zenon
  <2>. HIDE DEF x
  <2>3. x.on = boards[b].items[i].on /\ x.values = [boards[b].items[i].values EXCEPT ![f] = d]
    BY <2>2, ItemRecord
  <2>. QED  BY <1>1, <2>2, <2>3, ItemParts
<1>3. boards' = [boards EXCEPT ![b].items[i] = x]
  OBVIOUS
<1>. HIDE DEF x
<1>4. /\ BoardsOK' /\ Len(boards)' = Len(boards)
      /\ \A c \in 1..Len(boards) : c # b => boards'[c] = boards[c]
      /\ boards'[b].fields = boards[b].fields
      /\ boards'[b].items[i] = x
      /\ \A j \in Issues : j # i => boards'[b].items[j] = boards[b].items[j]
  <2>1. BoardsOK /\ b \in 1..Len(boards) /\ i \in Issues /\ IsItem(x) /\ scenario' = scenario
    BY <1>2
  <2>. QED  BY ONLY <1>3, <2>1, WriteItem
<1>. QED  BY <1>2, <1>4

\* A field gets other options, and values are lost or not.
LEMMA WriteOptions ==
  ASSUME BoardsOK, NEW b \in 1..Len(boards), NEW f \in Fields, NEW options, scenario' = scenario,
         boards[b].fields[f].kind # "absent", SetOptions(b, f, options)
  PROVE  /\ BoardsOK' /\ Len(boards)' = Len(boards)
         /\ \A c \in 1..Len(boards) : c # b => boards'[c] = boards[c]
         /\ boards'[b].fields[f] = [kind |-> boards[b].fields[f].kind, options |-> options]
         /\ \A g \in Fields : g # f => boards'[b].fields[g] = boards[b].fields[g]
         /\ \A i \in Issues : boards'[b].items[i].on = boards[b].items[i].on
<1>. DEFINE F == [boards[b].fields EXCEPT ![f].options = options]
            kept(item) == [item EXCEPT !.values[f] = IF @ \in options THEN @ ELSE Empty]
            y(i) == kept(boards[b].items[i])
            B == [fields |-> F, items |-> [i \in Issues |-> y(i)]]
<1>1. boards' = [boards EXCEPT ![b] = B]
  BY DEF SetOptions
<1>2. \A i \in Issues : IsItem(y(i)) /\ y(i).on = boards[b].items[i].on
  <2>1. TAKE i \in Issues
  <2>2. IsItem(boards[b].items[i])
    BY PartsOK
  <2>. QED  BY <2>2 DEF IsItem, NoValues
<1>3. F = [g \in Fields |-> IF g = f THEN [kind |-> boards[b].fields[f].kind, options |-> options]
                             ELSE boards[b].fields[g]]
  <2>1. boards[b].fields = [g \in Fields |-> boards[b].fields[g]]
    BY PartsOK, BoardParts
  <2>2. [boards[b].fields[f] EXCEPT !.options = options]
          = [kind |-> boards[b].fields[f].kind, options |-> options]
    BY PartsOK, FieldRecord DEF IsField
  <2>. QED  BY <2>1, <2>2
<1>4. \A g \in Fields : IsField(F[g])
  <2>1. IsField([kind |-> boards[b].fields[f].kind, options |-> options])
    BY PartsOK DEF IsField
  <2>. HIDE DEF F
  <2>. QED  BY <1>3, <2>1, PartsOK
<1>5. IsBoard(B, Issues)
  <2>1. F = [g \in Fields |-> F[g]]
    BY <1>3
  <2>. HIDE DEF F, y
  <2>. QED  BY <1>2, <1>4, <2>1 DEF IsBoard
<1>. HIDE DEF F, y
<1>6. B.fields = F /\ B.items = [i \in Issues |-> y(i)]
  OBVIOUS
<1>. HIDE DEF B
<1>7. /\ BoardsOK' /\ Len(boards)' = Len(boards) /\ boards'[b] = B
      /\ \A c \in 1..Len(boards) : c # b => boards'[c] = boards[c]
  BY <1>1, <1>5, OneBoard
<1>. QED  BY <1>2, <1>3, <1>6, <1>7

-----------------------------------------------------------------------------
(* Runs that do not take the step                                           *)

Same(q) ==
  /\ program'[q] = program[q] /\ step'[q] = step[q] /\ at'[q] = at[q]
  /\ n'[q] = n[q] /\ view'[q] = view[q] /\ result'[q] = result[q]

LEMMA MuddledStays ==
  ASSUME BoardsOK, Len(boards)' \in Nat, DOMAIN boards' = 1..Len(boards'), Grows, Muddled
  PROVE  Muddled'
<1>1. CASE Len(boards) > 1
  BY <1>1 DEF Muddled, Grows, BoardsOK
<1>2. ASSUME NEW b \in DOMAIN boards, NEW f \in Fields, Manifest[f] = {},
             boards[b].fields[f].kind = "select"
      PROVE  Muddled'
  <2>1. b \in 1..Len(boards) /\ b \in DOMAIN boards'
    BY <1>2 DEF BoardsOK, Grows
  <2>2. boards'[b].fields[f].kind = "select"
    BY <1>2, <2>1 DEF Grows
  <2>. QED  BY <1>2, <2>1, <2>2 DEF Muddled
<1>. QED  BY <1>1, <1>2 DEF Muddled

LEMMA LastingFrame ==
  ASSUME Shape, Shape', Grows, scenario' = scenario, NEW q \in Runs, Same(q), Lasting(q)
  PROVE  Lasting(q)'
<1>. USE DEF Same
<1>0. Issues' = Issues /\ IssueOrder' = IssueOrder
  BY DEF Issues, IssueOrder
<1>1. at[q] \in OnBoard => view[q].board \in 1..Len(boards) /\ (view[q].board \in 1..Len(boards))'
  <2>1. Len(boards) \in Nat /\ Len(boards)' \in Nat
    BY DEF Shape, GithubOK, BoardsOK
  <2>2. Len(boards) <= Len(boards)'
    BY DEF Grows
  <2>3. view'[q].board = view[q].board
    OBVIOUS
  <2>4. at[q] \in OnBoard => view[q].board \in 1..Len(boards)
    BY DEF Lasting
  <2>5. ASSUME NEW c \in 1..Len(boards) PROVE c \in 1..Len(boards)'
    BY <2>1, <2>2
  <2>. QED  BY <2>3, <2>4, <2>5
<1>2. at[q] \in {"field", "options", "item", "value"} =>
        \A f \in Fields : view[q].fields[f].kind # "absent" =>
          boards'[view[q].board].fields[f].kind = view[q].fields[f].kind
  <2>. SUFFICES ASSUME at[q] \in {"field", "options", "item", "value"}, NEW f \in Fields,
                       view[q].fields[f].kind # "absent"
                PROVE  boards'[view[q].board].fields[f].kind = view[q].fields[f].kind
    OBVIOUS
  <2>1. view[q].board \in 1..Len(boards) /\ boards[view[q].board].fields[f].kind = view[q].fields[f].kind
    BY <1>1 DEF OnBoard, Lasting, Chosen
  <2>. QED  BY <2>1 DEF Grows
<1>3. at[q] = "options" => n[q] \in 1..10 /\ boards'[view[q].board].fields[FieldAt(q)].kind = "select"
  <2>. SUFFICES ASSUME at[q] = "options"
                PROVE  n[q] \in 1..10 /\ boards'[view[q].board].fields[FieldAt(q)].kind = "select"
    OBVIOUS
  <2>1. view[q].board \in 1..Len(boards) /\ n[q] \in 1..10
        /\ boards[view[q].board].fields[FieldAt(q)].kind = "select"
    BY <1>1 DEF OnBoard, Lasting, Chosen
  <2>2. FieldAt(q) \in Fields
    BY <2>1, FieldList DEF FieldAt
  <2>. QED  BY <2>1, <2>2 DEF Grows
<1>4. at[q] \in {"list item fields", "item", "value"} =>
        \A i \in Issues : view[q].items[i].on => boards'[view[q].board].items[i].on
  <2>. SUFFICES ASSUME at[q] \in {"list item fields", "item", "value"}, NEW i \in Issues,
                       view[q].items[i].on
                PROVE  boards'[view[q].board].items[i].on
    OBVIOUS
  <2>1. view[q].board \in 1..Len(boards) /\ boards[view[q].board].items[i].on
    BY <1>1 DEF OnBoard, Lasting, Chosen
  <2>. QED  BY <2>1 DEF Grows
<1>5. at[q] = "value" => n[q] \in 1..Len(IssueOrder) /\ boards'[view[q].board].items[IssueAt(q)].on
  <2>. SUFFICES ASSUME at[q] = "value"
                PROVE  n[q] \in 1..Len(IssueOrder) /\ boards'[view[q].board].items[IssueAt(q)].on
    OBVIOUS
  <2>1. view[q].board \in 1..Len(boards) /\ n[q] \in 1..Len(IssueOrder)
        /\ boards[view[q].board].items[IssueAt(q)].on
    BY <1>1 DEF OnBoard, Lasting, Chosen
  <2>2. IssueAt(q) \in Issues
    BY <2>1, IssueList DEF IssueAt, Shape, GithubOK
  <2>. QED  BY <2>1, <2>2 DEF Grows
<1>6. at[q] = "seed" =>
        /\ \A t \in view[q].titles : t \in ToSet(Titles) /\ Copies(t)' > 0
        /\ \A k \in 1..Len(Titles) : k < n[q] => Copies(Titles[k])' > 0
  <2>. SUFFICES ASSUME at[q] = "seed"
                PROVE  /\ \A t \in view[q].titles : t \in ToSet(Titles) /\ Copies(t)' > 0
                       /\ \A k \in 1..Len(Titles) : k < n[q] => Copies(Titles[k])' > 0
    OBVIOUS
  <2>1. \A k \in 1..Len(Titles) : Titles[k] \in ToSet(Titles)
    BY TitleList
  <2>. QED  BY <2>1 DEF Grows, Lasting
<1>. QED  BY <1>0, <1>1, <1>2, <1>3, <1>4, <1>5, <1>6 DEF Lasting, Chosen, FieldAt, IssueAt, Copies

LEMMA FreshFrame ==
  ASSUME Shape, Shape', Grows, scenario' = scenario, NEW q \in Runs, Same(q), Fresh(q),
         UNCHANGED github \/ overtaken'[q] \/ ~Running(q), overtaken[q] => overtaken'[q]
  PROVE  Fresh(q)'
<1>. SUFFICES ASSUME Running(q), ~overtaken'[q]
              PROVE  /\ LabelsFresh(q)' /\ SeedsFresh(q)' /\ FieldsFresh(q)' /\ ItemsFresh(q)'
                     /\ ProjectDone(q)' => (Muddled \/ BoardPrepared)'
  BY DEF Fresh, Running, Same
<1>1. UNCHANGED <<label, seeded, text, boards, scenario>>
  BY DEF github
<1>2. /\ LabelsFresh(q) /\ SeedsFresh(q) /\ FieldsFresh(q) /\ ItemsFresh(q)
      /\ ProjectDone(q) => (Muddled \/ BoardPrepared)
  BY DEF Fresh
<1>3. LabelsFresh(q)'
  BY <1>1, <1>2 DEF LabelsFresh, Same, Command
<1>4. SeedsFresh(q)'
  BY <1>1, <1>2 DEF SeedsFresh, Same, Copies
<1>5. FieldsFresh(q)'
  BY <1>1, <1>2 DEF FieldsFresh, Same, Chosen, FieldAt
<1>6. ItemsFresh(q)'
  BY <1>1, <1>2, SameListing DEF ItemsFresh, Same, Chosen, IssueAt
<1>7. ProjectDone(q)' => (Muddled \/ BoardPrepared)'
  BY <1>1, <1>2 DEF ProjectDone, Same, Muddled, BoardPrepared
<1>. QED  BY <1>3, <1>4, <1>5, <1>6, <1>7

LEMMA Frame ==
  ASSUME Shape, Shape', Grows, scenario' = scenario, NEW q \in Runs, Same(q), Held(q),
         UNCHANGED github \/ overtaken'[q] \/ ~Running(q), overtaken[q] => overtaken'[q]
  PROVE  Held(q)'
<1>1. Lasting(q)' /\ Fresh(q)'
  BY LastingFrame, FreshFrame DEF Held
<1>2. Muddled => Muddled'
  BY MuddledStays DEF Shape, GithubOK, BoardsOK
<1>3. Completes(q)'
  BY <1>2 DEF Held, Completes, Same, Command, ProjectDone
<1>. QED  BY <1>1, <1>3 DEF Held

-----------------------------------------------------------------------------
(* Where the run that takes the step gets to                                *)

MovesOnly(r) ==
  /\ program' = [q \in Runs |-> program'[q]] /\ step' = [q \in Runs |-> step'[q]]
  /\ at' = [q \in Runs |-> at'[q]] /\ n' = [q \in Runs |-> n'[q]]
  /\ view' = [q \in Runs |-> view'[q]] /\ result' = [q \in Runs |-> result'[q]]
  /\ \A q \in Runs \ {r} : Same(q)

\* Nobody is told less of having been overtaken.
Warned(r) ==
  /\ overtaken' = [q \in Runs |-> overtaken'[q]]
  /\ \A q \in Runs : overtaken'[q] \in BOOLEAN
  /\ \A q \in Runs \ {r} : overtaken[q] => overtaken'[q]
  /\ UNCHANGED github \/ \A q \in Runs \ {r} : Running(q) => overtaken'[q]

LEMMA ReadsWarned == ASSUME PlacesOK, UNCHANGED <<github, overtaken>>, NEW r \in Runs PROVE Warned(r)
BY DEF PlacesOK, PlaceOK, Warned

LEMMA OvertakesWarned ==
  ASSUME PlacesOK, NEW r \in Runs, Overtakes({r})
  PROVE  Warned(r) /\ overtaken'[r] = overtaken[r]
<1>1. overtaken' = [q \in Runs |-> overtaken[q] \/ (q \notin {r} /\ Running(q))]
  BY DEF Overtakes
<1>2. \A q \in Runs : overtaken[q] \in BOOLEAN
  BY DEF PlacesOK, PlaceOK
<1>3. \A q \in Runs : overtaken'[q] = (overtaken[q] \/ (q \notin {r} /\ Running(q)))
  BY <1>1, Zenon
<1>4. overtaken' = [q \in Runs |-> overtaken'[q]]
  BY <1>1, <1>3, Zenon
<1>5. \A q \in Runs : overtaken'[q] \in BOOLEAN
  BY <1>3
<1>6. overtaken'[r] = overtaken[r]
  BY <1>2, <1>3
<1>7. \A q \in Runs \ {r} : (overtaken[q] => overtaken'[q]) /\ (Running(q) => overtaken'[q])
  BY <1>3
<1>. QED  BY <1>4, <1>5, <1>6, <1>7 DEF Warned

LEMMA MovesShape ==
  ASSUME PlacesOK, NEW r \in Runs, MovesOnly(r), Warned(r), PlaceOK(r)'
  PROVE  PlacesOK'
<1>1. \A q \in Runs : PlaceOK(q)'
  <2>1. ASSUME NEW q \in Runs, q # r PROVE PlaceOK(q)'
    <3>1. Same(q) /\ overtaken'[q] \in BOOLEAN /\ PlaceOK(q)
      BY <2>1 DEF MovesOnly, Warned, PlacesOK
    <3>. QED  BY <3>1 DEF Same, PlaceOK, Running, Command
  <2>. QED  BY <2>1
<1>2. overtaken' = [q \in Runs |-> overtaken'[q]]
  BY DEF Warned
<1>. QED  BY <1>1, <1>2 DEF MovesOnly, PlacesOK

LEMMA GoesPlace ==
  ASSUME PlacesOK, NEW r \in Runs, NEW call, NEW seen, Goes(r, call, seen)
  PROVE  /\ MovesOnly(r) /\ at'[r] = call /\ view'[r] = seen /\ program'[r] = program[r]
         /\ step'[r] = step[r] /\ n'[r] = n[r] /\ result'[r] = result[r]
BY DEF Goes, PlacesOK, MovesOnly, Same

LEMMA AdvancesPlace ==
  ASSUME PlacesOK, NEW r \in Runs, Advances(r)
  PROVE  /\ MovesOnly(r) /\ at'[r] = at[r] /\ view'[r] = view[r] /\ program'[r] = program[r]
         /\ step'[r] = step[r] /\ n'[r] = n[r] + 1 /\ result'[r] = result[r]
BY DEF Advances, PlacesOK, MovesOnly, Same

\* A loop goes on after a call of its own.
Resumes(r, call) ==
  /\ n' = [n EXCEPT ![r] = @ + 1] /\ at' = [at EXCEPT ![r] = call]
  /\ UNCHANGED <<program, step, view, result>>

LEMMA ResumesPlace ==
  ASSUME PlacesOK, NEW r \in Runs, NEW call, Resumes(r, call)
  PROVE  /\ MovesOnly(r) /\ at'[r] = call /\ view'[r] = view[r] /\ program'[r] = program[r]
         /\ step'[r] = step[r] /\ n'[r] = n[r] + 1 /\ result'[r] = result[r]
BY DEF Resumes, PlacesOK, MovesOnly, Same

LEMMA ReturnsPlace ==
  ASSUME PlacesOK, NEW r \in Runs, NEW code, Returns(r, code)
  PROVE  /\ MovesOnly(r) /\ program'[r] = program[r] /\ n'[r] = 1 /\ view'[r] = NoView
         /\ \/ /\ code = "ok" /\ step[r] < Len(program[r]) /\ step'[r] = step[r] + 1
               /\ at'[r] = FirstCall(program[r][step[r] + 1]) /\ result'[r] = result[r]
            \/ step'[r] = step[r] /\ at'[r] = "idle" /\ result'[r] = code
<1>. DEFINE more == code = "ok" /\ step[r] < Len(program[r])
<1>1. /\ step' = [step EXCEPT ![r] = IF more THEN step[r] + 1 ELSE step[r]]
      /\ at' = [at EXCEPT ![r] = IF more THEN FirstCall(program[r][step[r] + 1]) ELSE "idle"]
      /\ result' = [result EXCEPT ![r] = IF more THEN result[r] ELSE code]
      /\ n' = [n EXCEPT ![r] = 1] /\ view' = [view EXCEPT ![r] = NoView] /\ program' = program
  BY DEF Returns
<1>2. /\ step'[r] = IF more THEN step[r] + 1 ELSE step[r]
      /\ at'[r] = IF more THEN FirstCall(program[r][step[r] + 1]) ELSE "idle"
      /\ result'[r] = IF more THEN result[r] ELSE code
      /\ n'[r] = 1 /\ view'[r] = NoView /\ program'[r] = program[r]
  BY <1>1 DEF PlacesOK
<1>3. MovesOnly(r)
  BY <1>1 DEF PlacesOK, MovesOnly, Same
<1>. QED  BY <1>2, <1>3

LEMMA FirstCallPlaced ==
  ASSUME NEW command \in Commands
  PROVE  /\ FirstCall(command) \in StagesOf(command) /\ FirstCall(command) \notin Loops
         /\ FirstCall(command) \in {"list labels", "list seeds", "list projects", "find project"}
         /\ "idle" \notin StagesOf(command)
BY DEF Commands, FirstCall, StagesOf, Loops

LEMMA NoViewIsView == IsView(NoView)
BY DEF IsView, NoView

\* Which command makes which calls.
ProjectCalls == {"list projects", "create project", "link", "list fields", "field", "options"}
ItemsCalls == {"find project", "list issues", "list items", "list item fields", "item", "value"}

LEMMA CallsOf ==
  /\ StagesOf("labels") = {"list labels", "label"} /\ StagesOf("check") = {"list labels", "label"}
  /\ StagesOf("seeds") = {"list seeds", "seed"}
  /\ StagesOf("project") = ProjectCalls /\ StagesOf("items") = ItemsCalls
BY DEF StagesOf, ProjectCalls, ItemsCalls

LEMMA CommandAt ==
  ASSUME NEW r \in Runs, PlaceOK(r), Running(r)
  PROVE  /\ Command(r) \in Commands /\ result[r] = "none" /\ at[r] \in StagesOf(Command(r))
         /\ at[r] \in {"list labels", "label"} => Command(r) \in {"labels", "check"}
         /\ at[r] \in {"list seeds", "seed"} => Command(r) = "seeds"
         /\ at[r] \in ProjectCalls => Command(r) = "project"
         /\ at[r] \in ItemsCalls => Command(r) = "items"
<1>1. Command(r) \in Commands /\ at[r] \in StagesOf(Command(r)) /\ result[r] = "none"
  <2>1. program[r] \in Seq(Commands) /\ step[r] \in 1..Len(program[r])
    BY DEF PlaceOK
  <2>2. program[r][step[r]] \in Commands
    BY <2>1, ElementOfSeq
  <2>. QED  BY <2>2 DEF PlaceOK, Command
<1>. QED  BY <1>1, CallsOf DEF Commands, ProjectCalls, ItemsCalls

\* The run goes on in its command.
Moved(r) ==
  /\ MovesOnly(r) /\ Warned(r) /\ overtaken'[r] = overtaken[r]
  /\ program'[r] = program[r] /\ step'[r] = step[r] /\ result'[r] = result[r]
  /\ at'[r] \in StagesOf(Command(r)) /\ IsView(view'[r])
  /\ n'[r] \in {n[r], n[r] + 1}
  /\ at'[r] \notin Loops => n'[r] = 1

FreshCore(r) == LabelsFresh(r) /\ SeedsFresh(r) /\ FieldsFresh(r) /\ ItemsFresh(r)

LEMMA StepInv ==
  ASSUME IInv, NEW r \in Runs, GithubOK', Grows, scenario' = scenario, MovesOnly(r), Warned(r),
         PlaceOK(r)', Held(r)'
  PROVE  IInv'
<1>1. Shape'
  BY MovesShape DEF IInv, Shape
<1>2. ASSUME NEW q \in Runs, q # r PROVE Held(q)'
  <2>1. Same(q) /\ (overtaken[q] => overtaken'[q])
    BY <1>2 DEF MovesOnly, Warned
  <2>2. UNCHANGED github \/ overtaken'[q] \/ ~Running(q)
    BY <1>2 DEF Warned
  <2>. QED  BY <1>1, <2>1, <2>2, Frame DEF IInv
<1>. QED  BY <1>1, <1>2 DEF IInv

LEMMA MovedInv ==
  ASSUME IInv, NEW r \in Runs, Running(r), GithubOK', Grows, scenario' = scenario, Moved(r),
         Lasting(r)',
         ~overtaken[r] => FreshCore(r)' /\ (BoardPrepared => BoardPrepared')
  PROVE  IInv'
<1>1. PlaceOK(r)
  BY DEF IInv, Shape, PlacesOK
<1>2. Running(r)' /\ Command(r)' = Command(r) /\ result'[r] = "none"
  <2>1. Command(r) \in Commands /\ result[r] = "none" /\ at'[r] \in StagesOf(Command(r))
    BY <1>1, CommandAt DEF Moved
  <2>2. at'[r] # "idle"
    BY <2>1, FirstCallPlaced
  <2>. QED  BY <2>1, <2>2 DEF Moved, Running, Command
<1>3. PlaceOK(r)'
  BY <1>1, <1>2 DEF PlaceOK, Moved, Warned
<1>4. Fresh(r)'
  <2>. SUFFICES ASSUME ~overtaken[r]
                PROVE  FreshCore(r)' /\ (ProjectDone(r)' => (Muddled \/ BoardPrepared)')
    BY DEF Fresh, FreshCore, Moved
  <2>1. ProjectDone(r)' => ProjectDone(r)
    BY DEF ProjectDone, Moved
  <2>2. ProjectDone(r) => Muddled \/ BoardPrepared
    BY DEF IInv, Held, Fresh
  <2>3. Muddled => Muddled'
    BY MuddledStays DEF IInv, Shape, GithubOK, BoardsOK
  <2>. QED  BY <2>1, <2>2, <2>3
<1>5. Completes(r)'
  BY <1>2 DEF Completes
<1>. QED  BY <1>3, <1>4, <1>5, StepInv DEF Held, Moved

LEMMA NothingWritten ==
  ASSUME GithubOK, UNCHANGED <<github, scenario>>
  PROVE  GithubOK' /\ Grows /\ (BoardPrepared => BoardPrepared')
<1>1. UNCHANGED <<label, seeded, text, boards, scenario>>
  BY DEF github
<1>2. GithubOK'
  BY <1>1 DEF GithubOK, SeedsOK, BoardsOK, Issues
<1>3. Grows
  BY <1>1 DEF Grows, Copies, GithubOK, BoardsOK
<1>. QED  BY <1>1, <1>2, <1>3 DEF BoardPrepared

LEMMA ReturnedInv ==
  ASSUME IInv, NEW r \in Runs, Running(r), NEW code, Returns(r, code), UNCHANGED <<github, overtaken, scenario>>,
         (code = "refused" /\ Command(r) = "items" /\ ProjectDone(r)) => overtaken[r] \/ Muddled,
         (code = "ok" /\ Command(r) = "project" /\ ~overtaken[r]) => Muddled \/ BoardPrepared
  PROVE  IInv'
<1>1. PlaceOK(r) /\ PlacesOK /\ Held(r) /\ GithubOK
  BY DEF IInv, Shape, PlacesOK
<1>2. GithubOK' /\ Grows
  BY <1>1, NothingWritten
<1>3. Warned(r)
  BY <1>1, ReadsWarned
<1>4. /\ MovesOnly(r) /\ program'[r] = program[r] /\ n'[r] = 1 /\ view'[r] = NoView
      /\ \/ /\ code = "ok" /\ step[r] < Len(program[r]) /\ step'[r] = step[r] + 1
            /\ at'[r] = FirstCall(program[r][step[r] + 1]) /\ result'[r] = result[r]
         \/ step'[r] = step[r] /\ at'[r] = "idle" /\ result'[r] = code
  BY <1>1, ReturnsPlace
<1>5. program[r] \in Seq(Commands) /\ step[r] \in 1..Len(program[r]) /\ Len(program[r]) \in Nat
  BY <1>1, LenProperties DEF PlaceOK
<1>6. CASE step'[r] = step[r] /\ at'[r] = "idle" /\ result'[r] = code
  <2>1. PlaceOK(r)'
    BY <1>1, <1>4, <1>6, NoViewIsView DEF PlaceOK, Running
  <2>2. Lasting(r)' /\ Fresh(r)'
    BY <1>6 DEF Lasting, Fresh, Running, OnBoard
  <2>3. Completes(r)'
    <3>1. Muddled => Muddled'
      BY DEF Muddled, github
    <3>. QED  BY <1>4, <1>6, <3>1 DEF Completes, Command, ProjectDone
  <2>. QED  BY <1>2, <1>3, <1>4, <2>1, <2>2, <2>3, StepInv DEF Held
<1>7. CASE /\ code = "ok" /\ step[r] < Len(program[r]) /\ step'[r] = step[r] + 1
           /\ at'[r] = FirstCall(program[r][step[r] + 1]) /\ result'[r] = result[r]
  <2>1. program[r][step[r] + 1] \in Commands /\ step'[r] \in 1..Len(program[r])
    BY <1>5, <1>7, ElementOfSeq
  <2>2. /\ at'[r] \in StagesOf(program[r][step[r] + 1]) /\ at'[r] \notin Loops
        /\ at'[r] \in {"list labels", "list seeds", "list projects", "find project"}
    BY <1>7, <2>1, FirstCallPlaced
  <2>3. Command(r)' = program[r][step[r] + 1] /\ result'[r] = "none"
    BY <1>1, <1>4, <1>7, CommandAt DEF Command
  <2>4. PlaceOK(r)'
    <3>1. program'[r] \in Seq(Commands) /\ step'[r] \in 1..Len(program'[r]) /\ n'[r] \in Nat \ {0} /\ n'[r] = 1
      BY <1>4, <1>5, <2>1
    <3>2. overtaken'[r] \in BOOLEAN /\ IsView(view'[r])
      BY <1>3, <1>4, NoViewIsView DEF Warned
    <3>3. at'[r] \in StagesOf(Command(r)') /\ result'[r] = "none"
      BY <2>2, <2>3
    <3>. QED  BY <3>1, <3>2, <3>3 DEF PlaceOK
  <2>5. Lasting(r)'
    BY <2>2 DEF Lasting, OnBoard
  <2>6. ASSUME ~overtaken[r] PROVE FreshCore(r)' /\ (ProjectDone(r)' => (Muddled \/ BoardPrepared)')
    <3>1. FreshCore(r)'
      BY <2>2 DEF FreshCore, LabelsFresh, SeedsFresh, FieldsFresh, ItemsFresh
    <3>2. ProjectDone(r)' => ProjectDone(r) \/ Command(r) = "project"
      BY <1>4, <1>5, <1>7 DEF ProjectDone, Command
    <3>3. ProjectDone(r) => Muddled \/ BoardPrepared
      BY <1>1, <2>6 DEF Held, Fresh
    <3>4. Muddled \/ BoardPrepared => (Muddled \/ BoardPrepared)'
      BY DEF Muddled, BoardPrepared, github
    <3>. QED  BY <1>7, <2>6, <3>1, <3>2, <3>3, <3>4
  <2>7. Fresh(r)'
    BY <2>6 DEF Fresh, FreshCore
  <2>8. Completes(r)'
    BY <2>3 DEF Completes
  <2>. QED  BY <1>2, <1>3, <1>4, <2>4, <2>5, <2>7, <2>8, StepInv DEF Held
<1>. QED  BY <1>4, <1>6, <1>7

\* What is read goes into one part of the view.
LEMMA ViewWrites ==
  ASSUME NEW v, IsView(v), NEW x
  PROVE  /\ \A w : w = [v EXCEPT !.labels = x] =>
              /\ IsView(w) /\ w.labels = x /\ w.titles = v.titles /\ w.board = v.board /\ w.texts = v.texts
              /\ w.items = v.items /\ w.fields = v.fields /\ w.options = v.options /\ w.values = v.values
         /\ \A w : w = [v EXCEPT !.titles = x] =>
              /\ IsView(w) /\ w.titles = x /\ w.labels = v.labels /\ w.board = v.board /\ w.texts = v.texts
              /\ w.items = v.items /\ w.fields = v.fields /\ w.options = v.options /\ w.values = v.values
         /\ \A w : w = [v EXCEPT !.board = x] =>
              /\ IsView(w) /\ w.board = x /\ w.labels = v.labels /\ w.titles = v.titles /\ w.texts = v.texts
              /\ w.items = v.items /\ w.fields = v.fields /\ w.options = v.options /\ w.values = v.values
         /\ \A w : w = [v EXCEPT !.texts = x] =>
              /\ IsView(w) /\ w.texts = x /\ w.labels = v.labels /\ w.titles = v.titles /\ w.board = v.board
              /\ w.items = v.items /\ w.fields = v.fields /\ w.options = v.options /\ w.values = v.values
         /\ \A w : w = [v EXCEPT !.items = x] =>
              /\ IsView(w) /\ w.items = x /\ w.labels = v.labels /\ w.titles = v.titles /\ w.board = v.board
              /\ w.texts = v.texts /\ w.fields = v.fields /\ w.options = v.options /\ w.values = v.values
         /\ \A w : w = [v EXCEPT !.fields = x] =>
              /\ IsView(w) /\ w.fields = x /\ w.labels = v.labels /\ w.titles = v.titles /\ w.board = v.board
              /\ w.texts = v.texts /\ w.items = v.items /\ w.options = v.options /\ w.values = v.values
         /\ \A w : w = [v EXCEPT !.options = x] =>
              /\ IsView(w) /\ w.options = x /\ w.labels = v.labels /\ w.titles = v.titles /\ w.board = v.board
              /\ w.texts = v.texts /\ w.items = v.items /\ w.fields = v.fields /\ w.values = v.values
         /\ \A w : w = [v EXCEPT !.values = x] =>
              /\ IsView(w) /\ w.values = x /\ w.labels = v.labels /\ w.titles = v.titles /\ w.board = v.board
              /\ w.texts = v.texts /\ w.items = v.items /\ w.fields = v.fields /\ w.options = v.options
<1>1. \A w : w = [v EXCEPT !.labels = x] =>
         /\ IsView(w) /\ w.labels = x /\ w.titles = v.titles /\ w.board = v.board /\ w.texts = v.texts
         /\ w.items = v.items /\ w.fields = v.fields /\ w.options = v.options /\ w.values = v.values
  BY DEF IsView
<1>2. \A w : w = [v EXCEPT !.titles = x] =>
         /\ IsView(w) /\ w.titles = x /\ w.labels = v.labels /\ w.board = v.board /\ w.texts = v.texts
         /\ w.items = v.items /\ w.fields = v.fields /\ w.options = v.options /\ w.values = v.values
  BY DEF IsView
<1>3. \A w : w = [v EXCEPT !.board = x] =>
         /\ IsView(w) /\ w.board = x /\ w.labels = v.labels /\ w.titles = v.titles /\ w.texts = v.texts
         /\ w.items = v.items /\ w.fields = v.fields /\ w.options = v.options /\ w.values = v.values
  BY DEF IsView
<1>4. \A w : w = [v EXCEPT !.texts = x] =>
         /\ IsView(w) /\ w.texts = x /\ w.labels = v.labels /\ w.titles = v.titles /\ w.board = v.board
         /\ w.items = v.items /\ w.fields = v.fields /\ w.options = v.options /\ w.values = v.values
  BY DEF IsView
<1>5. \A w : w = [v EXCEPT !.items = x] =>
         /\ IsView(w) /\ w.items = x /\ w.labels = v.labels /\ w.titles = v.titles /\ w.board = v.board
         /\ w.texts = v.texts /\ w.fields = v.fields /\ w.options = v.options /\ w.values = v.values
  BY DEF IsView
<1>6. \A w : w = [v EXCEPT !.fields = x] =>
         /\ IsView(w) /\ w.fields = x /\ w.labels = v.labels /\ w.titles = v.titles /\ w.board = v.board
         /\ w.texts = v.texts /\ w.items = v.items /\ w.options = v.options /\ w.values = v.values
  BY DEF IsView
<1>7. \A w : w = [v EXCEPT !.options = x] =>
         /\ IsView(w) /\ w.options = x /\ w.labels = v.labels /\ w.titles = v.titles /\ w.board = v.board
         /\ w.texts = v.texts /\ w.items = v.items /\ w.fields = v.fields /\ w.values = v.values
  BY DEF IsView
<1>8. \A w : w = [v EXCEPT !.values = x] =>
         /\ IsView(w) /\ w.values = x /\ w.labels = v.labels /\ w.titles = v.titles /\ w.board = v.board
         /\ w.texts = v.texts /\ w.items = v.items /\ w.fields = v.fields /\ w.options = v.options
  BY DEF IsView
<1>. QED  BY <1>1, <1>2, <1>3, <1>4, <1>5, <1>6, <1>7, <1>8

-----------------------------------------------------------------------------
(* The calls, one by one                                                    *)

\* Calls that only read, and the run goes on.
LEMMA ReadOn ==
  ASSUME IInv, NEW r \in Runs, Running(r), NEW call, NEW seen, Goes(r, call, seen), Reads,
         call \in StagesOf(Command(r)), IsView(seen), call \notin Loops => n[r] = 1,
         Lasting(r)', ~overtaken[r] => FreshCore(r)'
  PROVE  IInv'
<1>1. PlacesOK /\ GithubOK
  BY DEF IInv, Shape
<1>2. UNCHANGED <<github, overtaken, scenario>>
  BY DEF Reads, bounds
<1>3. Moved(r)
  BY <1>1, <1>2, GoesPlace, ReadsWarned DEF Moved
<1>. QED  BY <1>1, <1>2, <1>3, NothingWritten, MovedInv

LEMMA RunFacts ==
  ASSUME IInv, NEW r \in Runs
  PROVE  /\ PlacesOK /\ GithubOK /\ BoardsOK /\ SeedsOK /\ PlaceOK(r) /\ Lasting(r) /\ Held(r)
         /\ IsView(view[r]) /\ n[r] \in Nat \ {0} /\ scenario \in Scenarios
         /\ at[r] \notin Loops => n[r] = 1
         /\ Running(r) /\ ~overtaken[r] =>
              LabelsFresh(r) /\ SeedsFresh(r) /\ FieldsFresh(r) /\ ItemsFresh(r)
BY DEF IInv, Shape, PlacesOK, GithubOK, PlaceOK, Held, Fresh

LEMMA ListLabelsInv == ASSUME IInv, NEW r \in Runs, ListLabels(r) PROVE IInv'
<1>. DEFINE seen == [view[r] EXCEPT !.labels = label]
<1>1. at[r] = "list labels" /\ Running(r) /\ Goes(r, "label", seen) /\ Reads
  BY DEF ListLabels, Running
<1>2. PlacesOK /\ PlaceOK(r) /\ IsView(view[r]) /\ n[r] = 1
  BY <1>1, RunFacts DEF Loops
<1>3. IsView(seen) /\ seen.labels = label
  BY <1>2, ViewWrites
<1>. HIDE DEF seen
<1>4. "label" \in StagesOf(Command(r))
  BY <1>1, <1>2, CommandAt, CallsOf
<1>5. at'[r] = "label" /\ view'[r] = seen /\ n'[r] = 1
  BY <1>1, <1>2, GoesPlace
<1>6. Lasting(r)'
  BY <1>5 DEF Lasting, OnBoard
<1>7. FreshCore(r)'
  <2>1. LabelsFresh(r)'
    <3>1. label' = label /\ view'[r].labels = label
      BY <1>1, <1>3, <1>5 DEF Reads, github
    <3>2. \A k \in 1..Len(LabelOrder) : ~(k < n'[r])
      BY <1>5, LabelList
    <3>. QED  BY <3>1, <3>2 DEF LabelsFresh
  <2>. QED  BY <1>5, <2>1 DEF FreshCore, SeedsFresh, FieldsFresh, ItemsFresh
<1>. QED  BY <1>1, <1>2, <1>3, <1>4, <1>6, <1>7, ReadOn DEF Loops

LEMMA ListSeedsInv == ASSUME IInv, NEW r \in Runs, ListSeeds(r) PROVE IInv'
<1>. DEFINE present == {t \in ToSet(Titles) : Copies(t) > 0}
            seen == [view[r] EXCEPT !.titles = present]
<1>1. at[r] = "list seeds" /\ Running(r) /\ Goes(r, "seed", seen) /\ Reads
  BY DEF ListSeeds, Running
<1>2. PlacesOK /\ PlaceOK(r) /\ IsView(view[r]) /\ n[r] = 1
  BY <1>1, RunFacts DEF Loops
<1>3. IsView(seen) /\ seen.titles = present
  <2>. HIDE DEF present
  <2>. QED  BY <1>2, ViewWrites
<1>. HIDE DEF seen
<1>4. "seed" \in StagesOf(Command(r))
  BY <1>1, <1>2, CommandAt, CallsOf
<1>5. at'[r] = "seed" /\ view'[r] = seen /\ n'[r] = 1 /\ seeded' = seeded
  <2>1. seeded' = seeded
    BY <1>1 DEF Reads, github
  <2>. QED  BY <1>1, <1>2, <2>1, GoesPlace
<1>6. Lasting(r)'
  BY <1>3, <1>5 DEF Lasting, OnBoard, Copies
<1>7. FreshCore(r)'
  <2>1. SeedsFresh(r)'
    BY <1>3, <1>5 DEF SeedsFresh, Copies
  <2>. QED  BY <1>5, <2>1 DEF FreshCore, LabelsFresh, FieldsFresh, ItemsFresh
<1>. QED  BY <1>1, <1>2, <1>3, <1>4, <1>6, <1>7, ReadOn DEF Loops

LEMMA ListProjectsInv == ASSUME IInv, NEW r \in Runs, ListProjects(r) PROVE IInv'
<1>1. at[r] = "list projects" /\ Running(r) /\ Reads
  BY DEF ListProjects, Running
<1>2. PlacesOK /\ PlaceOK(r) /\ IsView(view[r]) /\ n[r] = 1 /\ BoardsOK
  BY <1>1, RunFacts DEF Loops
<1>3. {"create project", "link"} \subseteq StagesOf(Command(r))
  BY <1>1, <1>2, CommandAt, CallsOf DEF ProjectCalls
<1>4. CASE boards = <<>> /\ Goes(r, "create project", view[r])
  <2>1. at'[r] = "create project" /\ boards' = boards
    BY <1>1, <1>2, <1>4, GoesPlace DEF Reads, github
  <2>2. Lasting(r)' /\ FreshCore(r)'
    BY <1>4, <2>1 DEF Lasting, OnBoard, FreshCore, LabelsFresh, SeedsFresh, FieldsFresh, ItemsFresh
  <2>. QED  BY <1>1, <1>2, <1>3, <1>4, <2>2, ReadOn
<1>5. ASSUME NEW b \in DOMAIN boards, Goes(r, "link", [view[r] EXCEPT !.board = b]) PROVE IInv'
  <2>. DEFINE seen == [view[r] EXCEPT !.board = b]
  <2>1. Goes(r, "link", seen)
    BY <1>5
  <2>2. IsView(seen) /\ seen.board = b /\ b \in 1..Len(boards)
    <3>1. b \in 1..Len(boards)
      BY <1>2, <1>5 DEF BoardsOK
    <3>2. IsView(seen) /\ seen.board = b
      BY <1>2, ViewWrites
    <3>. QED  BY <3>1, <3>2
  <2>. HIDE DEF seen
  <2>3. at'[r] = "link" /\ view'[r] = seen /\ boards' = boards
    BY <1>1, <1>2, <2>1, GoesPlace DEF Reads, github
  <2>4. Lasting(r)' /\ FreshCore(r)'
    BY <2>2, <2>3 DEF Lasting, FreshCore, LabelsFresh, SeedsFresh, FieldsFresh, ItemsFresh
  <2>. QED  BY <1>1, <1>2, <1>3, <2>1, <2>2, <2>4, ReadOn
<1>. QED  BY <1>4, <1>5 DEF ListProjects

LEMMA LinkInv == ASSUME IInv, NEW r \in Runs, Link(r) PROVE IInv'
<1>1. at[r] = "link" /\ Running(r) /\ Goes(r, "list fields", view[r]) /\ Reads
  BY DEF Link, Running
<1>2. PlacesOK /\ PlaceOK(r) /\ IsView(view[r]) /\ n[r] = 1 /\ view[r].board \in 1..Len(boards)
  BY <1>1, RunFacts DEF Loops, Lasting, OnBoard
<1>3. "list fields" \in StagesOf(Command(r))
  BY <1>1, <1>2, CommandAt, CallsOf DEF ProjectCalls
<1>4. at'[r] = "list fields" /\ view'[r] = view[r] /\ boards' = boards
  <2>1. boards' = boards
    BY <1>1 DEF Reads, github
  <2>2. r \in Runs /\ PlacesOK /\ Goes(r, "list fields", view[r])
    BY <1>1, <1>2
  <2>. QED  BY ONLY <2>1, <2>2, GoesPlace
<1>5. Lasting(r)' /\ FreshCore(r)'
  BY <1>2, <1>4 DEF Lasting, FreshCore, LabelsFresh, SeedsFresh, FieldsFresh, ItemsFresh
<1>. QED  BY <1>1, <1>2, <1>3, <1>5, ReadOn

LEMMA FindProjectInv == ASSUME IInv, NEW r \in Runs, FindProject(r) PROVE IInv'
<1>1. at[r] = "find project" /\ Running(r) /\ Reads
  BY DEF FindProject, Running
<1>2. PlacesOK /\ PlaceOK(r) /\ IsView(view[r]) /\ n[r] = 1 /\ BoardsOK /\ Held(r)
  BY <1>1, RunFacts DEF Loops
<1>3. "list issues" \in StagesOf(Command(r)) /\ Command(r) = "items"
  BY <1>1, <1>2, CommandAt, CallsOf DEF ItemsCalls
<1>4. CASE boards = <<>> /\ Returns(r, "refused")
  <2>1. ProjectDone(r) => overtaken[r] \/ Muddled
    <3>1. ~BoardPrepared
      BY <1>4 DEF BoardPrepared
    <3>. QED  BY <1>1, <1>2, <3>1 DEF Held, Fresh
  <2>. QED  BY <1>1, <1>4, <2>1, ReturnedInv DEF Reads, bounds
<1>5. ASSUME NEW b \in DOMAIN boards, Goes(r, "list issues", [view[r] EXCEPT !.board = b]) PROVE IInv'
  <2>. DEFINE seen == [view[r] EXCEPT !.board = b]
  <2>1. Goes(r, "list issues", seen)
    BY <1>5
  <2>2. IsView(seen) /\ seen.board = b /\ b \in 1..Len(boards)
    <3>1. b \in 1..Len(boards)
      BY <1>2, <1>5 DEF BoardsOK
    <3>2. IsView(seen) /\ seen.board = b
      BY <1>2, ViewWrites
    <3>. QED  BY <3>1, <3>2
  <2>. HIDE DEF seen
  <2>3. at'[r] = "list issues" /\ view'[r] = seen /\ boards' = boards
    BY <1>1, <1>2, <2>1, GoesPlace DEF Reads, github
  <2>4. Lasting(r)' /\ FreshCore(r)'
    BY <2>2, <2>3 DEF Lasting, FreshCore, LabelsFresh, SeedsFresh, FieldsFresh, ItemsFresh
  <2>. QED  BY <1>1, <1>2, <1>3, <2>1, <2>2, <2>4, ReadOn
<1>. QED  BY <1>4, <1>5 DEF FindProject

LEMMA ListIssuesInv == ASSUME IInv, NEW r \in Runs, ListIssues(r) PROVE IInv'
<1>. DEFINE texts == [i \in Issues |-> Shown(i)]  seen == [view[r] EXCEPT !.texts = texts]
<1>1. at[r] = "list issues" /\ Running(r) /\ Goes(r, "list items", seen) /\ Reads
  BY DEF ListIssues, Running
<1>2. PlacesOK /\ PlaceOK(r) /\ IsView(view[r]) /\ n[r] = 1 /\ view[r].board \in 1..Len(boards)
  BY <1>1, RunFacts DEF Loops, Lasting, OnBoard
<1>3. IsView(seen) /\ seen.texts = texts /\ seen.board = view[r].board
  <2>. HIDE DEF texts
  <2>. QED  BY <1>2, ViewWrites
<1>. HIDE DEF seen
<1>4. "list items" \in StagesOf(Command(r))
  BY <1>1, <1>2, CommandAt, CallsOf DEF ItemsCalls
<1>5. /\ at'[r] = "list items" /\ view'[r] = seen /\ boards' = boards
      /\ text' = text /\ scenario' = scenario
  BY <1>1, <1>2, GoesPlace DEF Reads, github, bounds
<1>6. Lasting(r)'
  BY <1>2, <1>3, <1>5 DEF Lasting
<1>7. FreshCore(r)'
  <2>1. ItemsFresh(r)'
    BY <1>3, <1>5, SameListing DEF ItemsFresh
  <2>. QED  BY <1>5, <2>1 DEF FreshCore, LabelsFresh, SeedsFresh, FieldsFresh
<1>. QED  BY <1>1, <1>2, <1>3, <1>4, <1>6, <1>7, ReadOn

LEMMA ListItemsInv == ASSUME IInv, NEW r \in Runs, ListItems(r) PROVE IInv'
<1>. DEFINE seen == [view[r] EXCEPT !.items = boards[view[r].board].items]
<1>1. at[r] = "list items" /\ Running(r) /\ Goes(r, "list item fields", seen) /\ Reads
  BY DEF ListItems, Running
<1>2. /\ PlacesOK /\ PlaceOK(r) /\ IsView(view[r]) /\ n[r] = 1 /\ view[r].board \in 1..Len(boards)
      /\ ~overtaken[r] => ItemsFresh(r)
  BY <1>1, RunFacts DEF Loops, Lasting, OnBoard
<1>3. IsView(seen) /\ seen.items = boards[view[r].board].items /\ seen.board = view[r].board
      /\ seen.texts = view[r].texts
  <2>. DEFINE items == boards[view[r].board].items
  <2>1. seen = [view[r] EXCEPT !.items = items]
    OBVIOUS
  <2>. HIDE DEF items, seen
  <2>2. IsView(seen) /\ seen.items = items /\ seen.board = view[r].board /\ seen.texts = view[r].texts
    BY <1>2, <2>1 DEF IsView
  <2>. QED  BY <2>2 DEF items
<1>. HIDE DEF seen
<1>4. "list item fields" \in StagesOf(Command(r))
  BY <1>1, <1>2, CommandAt, CallsOf DEF ItemsCalls
<1>5. /\ at'[r] = "list item fields" /\ view'[r] = seen /\ boards' = boards
      /\ text' = text /\ scenario' = scenario
  BY <1>1, <1>2, GoesPlace DEF Reads, github, bounds
<1>6. Lasting(r)'
  BY <1>2, <1>3, <1>5 DEF Lasting, Chosen, Issues
<1>7. ASSUME ~overtaken[r] PROVE FreshCore(r)'
  <2>1. ItemsFresh(r)'
    BY <1>1, <1>2, <1>3, <1>5, <1>7, SameListing DEF ItemsFresh, Chosen
  <2>. QED  BY <1>5, <2>1 DEF FreshCore, LabelsFresh, SeedsFresh, FieldsFresh
<1>. QED  BY <1>1, <1>2, <1>3, <1>4, <1>6, <1>7, ReadOn

LEMMA ListFieldsInv == ASSUME IInv, NEW r \in Runs, ListFields(r) PROVE IInv'
<1>. DEFINE fields == boards[view[r].board].fields
            seen == [view[r] EXCEPT !.fields = fields]
            call == IF at[r] = "list fields" THEN "field" ELSE "item"
<1>1. at[r] \in {"list fields", "list item fields"} /\ Running(r) /\ Goes(r, call, seen) /\ Reads
  BY DEF ListFields, Running
<1>2. /\ PlacesOK /\ PlaceOK(r) /\ IsView(view[r]) /\ n[r] = 1 /\ view[r].board \in 1..Len(boards)
      /\ ~overtaken[r] => ItemsFresh(r)
      /\ Lasting(r) /\ scenario \in Scenarios
  BY <1>1, RunFacts DEF Loops, Lasting, OnBoard
<1>3. /\ IsView(seen) /\ seen.fields = fields /\ seen.board = view[r].board
      /\ seen.texts = view[r].texts /\ seen.items = view[r].items
  <2>. HIDE DEF fields
  <2>. QED  BY <1>2 DEF IsView
<1>. HIDE DEF seen
<1>4. call \in StagesOf(Command(r))
  BY <1>1, <1>2, CommandAt, CallsOf DEF ItemsCalls, ProjectCalls
<1>5. /\ at'[r] = call /\ view'[r] = seen /\ boards' = boards /\ n'[r] = 1
      /\ text' = text /\ scenario' = scenario
  <2>1. UNCHANGED <<boards, text, scenario>>
    BY <1>1 DEF Reads, github, bounds
  <2>. HIDE DEF call
  <2>. QED  BY <1>1, <1>2, <2>1, GoesPlace
<1>0. \A m \in Nat : \A k \in 1..m : ~(k < n'[r])
  <2>1. n'[r] = 1
    BY <1>5
  <2>. QED  BY <2>1
<1>6. Lasting(r)'
  <2>1. at[r] = "list item fields" => \A i \in Issues : view[r].items[i].on => boards[view[r].board].items[i].on
    BY <1>2 DEF Lasting, Chosen
  <2>. QED  BY <1>1, <1>2, <1>3, <1>5, <2>1 DEF Lasting, Chosen, Issues
<1>7. ASSUME ~overtaken[r] PROVE FreshCore(r)'
  <2>1. CASE at[r] = "list fields"
    <3>1. \A k \in 1..10 : ~(k < n'[r])
      BY <1>0
    <3>2. at'[r] = "field"
      BY <1>5, <2>1
    <3>. HIDE DEF call
    <3>. QED  BY <3>1, <3>2 DEF FreshCore, LabelsFresh, SeedsFresh, ItemsFresh, FieldsFresh
  <2>2. CASE at[r] = "list item fields"
    <3>0. Len(IssueOrder) \in Nat
      BY <1>2, IssueList
    <3>1. at'[r] = "item" /\ \A k \in 1..Len(IssueOrder) : ~(k < n'[r])
      BY <1>0, <1>5, <2>2, <3>0
    <3>. HIDE DEF call
    <3>2. ItemsFresh(r)'
      BY <1>2, <1>3, <1>5, <1>7, <2>2, <3>1, SameListing DEF ItemsFresh, Chosen
    <3>. QED  BY <3>1, <3>2 DEF FreshCore, LabelsFresh, SeedsFresh, FieldsFresh
  <2>. QED  BY <1>1, <2>1, <2>2
<1>. QED  BY <1>1, <1>2, <1>3, <1>4, <1>6, <1>7, ReadOn

LEMMA CallFailsInv == ASSUME IInv, NEW r \in Runs, CallFails(r) PROVE IInv'
<1>1. Running(r) /\ Returns(r, "failed") /\ Reads
  BY DEF CallFails
<1>. QED  BY <1>1, ReturnedInv DEF Reads, bounds

LEMMA LabelsEndInv == ASSUME IInv, NEW r \in Runs, LabelsEnd(r) PROVE IInv'
<1>. DEFINE code == IF Command(r) = "check" /\ \E l \in Labels : view[r].labels[l] # "right"
                    THEN "drift" ELSE "ok"
<1>1. at[r] = "label" /\ Running(r) /\ Returns(r, code) /\ Reads /\ code # "refused"
  BY DEF LabelsEnd, Running
<1>2. Command(r) # "project"
  BY <1>1, CommandAt, RunFacts
<1>. HIDE DEF code
<1>. QED  BY <1>1, <1>2, ReturnedInv DEF Reads, bounds

LEMMA SeedsEndInv == ASSUME IInv, NEW r \in Runs, SeedsEnd(r) PROVE IInv'
<1>1. at[r] = "seed" /\ Running(r) /\ Returns(r, "ok") /\ Reads
  BY DEF SeedsEnd, Running
<1>2. Command(r) # "project"
  BY <1>1, CommandAt, RunFacts
<1>. QED  BY <1>1, <1>2, ReturnedInv DEF Reads, bounds

LEMMA ItemsEndInv == ASSUME IInv, NEW r \in Runs, ItemsEnd(r) PROVE IInv'
<1>1. at[r] = "item" /\ Running(r) /\ Returns(r, "ok") /\ Reads
  BY DEF ItemsEnd, Running
<1>2. Command(r) # "project"
  BY <1>1, CommandAt, RunFacts DEF ItemsCalls
<1>. QED  BY <1>1, <1>2, ReturnedInv DEF Reads, bounds

LEMMA FieldsEndInv == ASSUME IInv, NEW r \in Runs, FieldsEnd(r) PROVE IInv'
<1>1. at[r] = "field" /\ n[r] > 10 /\ Running(r) /\ Returns(r, "ok") /\ Reads
  BY FieldList DEF FieldsEnd, Running
<1>2. view[r].board \in 1..Len(boards) /\ n[r] \in Nat /\ BoardsOK /\ (~overtaken[r] => FieldsFresh(r))
  BY <1>1, RunFacts DEF Lasting, OnBoard
<1>3. ASSUME ~overtaken[r] PROVE Muddled \/ BoardPrepared
  <2>1. \A k \in 1..10 : Prepared(FieldOrder[k], boards[view[r].board].fields[FieldOrder[k]])
    <3>1. \A k \in 1..10 : k < n[r]
      BY <1>1, <1>2
    <3>. QED  BY <1>1, <1>2, <1>3, <3>1 DEF FieldsFresh, Chosen
  <2>2. \A f \in Fields : Prepared(f, boards[view[r].board].fields[f])
    BY <2>1, FieldList
  <2>3. Len(boards) > 1 \/ (Len(boards) = 1 /\ view[r].board = 1)
    BY <1>2 DEF BoardsOK
  <2>. QED  BY <2>2, <2>3 DEF Muddled, BoardPrepared
<1>. QED  BY <1>1, <1>3, ReturnedInv DEF Reads, bounds

LEMMA AdvancesMoved ==
  ASSUME IInv, NEW r \in Runs, Running(r), at[r] \in Loops, Advances(r),
         UNCHANGED <<github, overtaken>> \/ Overtakes({r})
  PROVE  Moved(r) /\ at'[r] = at[r] /\ view'[r] = view[r] /\ n'[r] = n[r] + 1
<1>1. PlacesOK /\ PlaceOK(r) /\ IsView(view[r])
  BY RunFacts
<1>2. Warned(r) /\ overtaken'[r] = overtaken[r]
  BY <1>1, ReadsWarned, OvertakesWarned
<1>3. at[r] \in StagesOf(Command(r))
  BY <1>1, CommandAt
<1>. QED  BY <1>1, <1>2, <1>3, AdvancesPlace DEF Moved

LEMMA GoesMoved ==
  ASSUME IInv, NEW r \in Runs, NEW call, NEW seen, Goes(r, call, seen),
         call \in StagesOf(Command(r)), IsView(seen), call \notin Loops => n[r] = 1,
         UNCHANGED <<github, overtaken>> \/ Overtakes({r})
  PROVE  Moved(r) /\ at'[r] = call /\ view'[r] = seen /\ n'[r] = n[r]
<1>1. PlacesOK
  BY RunFacts
<1>2. Warned(r) /\ overtaken'[r] = overtaken[r]
  BY <1>1, ReadsWarned, OvertakesWarned
<1>. QED  BY <1>1, <1>2, GoesPlace DEF Moved

LEMMA ResumesMoved ==
  ASSUME IInv, NEW r \in Runs, NEW call, Resumes(r, call),
         call \in StagesOf(Command(r)), call \in Loops,
         UNCHANGED <<github, overtaken>> \/ Overtakes({r})
  PROVE  Moved(r) /\ at'[r] = call /\ view'[r] = view[r] /\ n'[r] = n[r] + 1
<1>1. PlacesOK /\ IsView(view[r])
  BY RunFacts
<1>2. Warned(r) /\ overtaken'[r] = overtaken[r]
  BY <1>1, ReadsWarned, OvertakesWarned
<1>. QED  BY <1>1, <1>2, ResumesPlace DEF Moved

LEMMA SyncLabelInv == ASSUME IInv, NEW r \in Runs, SyncLabel(r) PROVE IInv'
<1>. DEFINE l == LabelOrder[n[r]]  seen == view[r].labels[l]
            possible == (seen = "absent") = (label[l] = "absent")
<1>1. at[r] = "label" /\ Running(r) /\ at[r] \in Loops /\ Command(r) = "labels" /\ n[r] <= Len(LabelOrder)
  BY DEF SyncLabel, Running, Loops
<1>2. /\ PlacesOK /\ GithubOK /\ n[r] \in Nat \ {0}
      /\ ~overtaken[r] => LabelsFresh(r)
  BY <1>1, RunFacts
<1>3. UNCHANGED <<seeded, text, boards, scenario>>
  BY DEF SyncLabel, bounds
<1>4. n[r] \in 1..Len(LabelOrder) /\ l \in Labels
  BY <1>1, <1>2, LabelList
<1>5. \/ seen = "right" /\ Advances(r) /\ UNCHANGED <<label, overtaken>>
      \/ label' = [label EXCEPT ![l] = "right"] /\ Overtakes({r}) /\ Advances(r)
      \/ Returns(r, "failed") /\ UNCHANGED <<label, overtaken>>
  BY DEF SyncLabel
<1>6. ASSUME Advances(r), GithubOK', Grows, label'[l] = "right" \/ (seen = "right" /\ label' = label),
             \A m \in Labels : label[m] = "right" => label'[m] = "right",
             UNCHANGED <<github, overtaken>> \/ Overtakes({r})
      PROVE  IInv'
  <2>1. Moved(r) /\ at'[r] = at[r] /\ view'[r] = view[r] /\ n'[r] = n[r] + 1
    BY <1>1, <1>6, AdvancesMoved
  <2>2. Lasting(r)'
    BY <1>1, <2>1 DEF Lasting, OnBoard
  <2>3. ASSUME ~overtaken[r] PROVE FreshCore(r)'
    <3>1. \A m \in Labels : view[r].labels[m] = "right" => label'[m] = "right"
      BY <1>1, <1>2, <1>6, <2>3 DEF LabelsFresh
    <3>2. \A k \in 1..Len(LabelOrder) : k < n[r] + 1 => k < n[r] \/ k = n[r]
      BY <1>2
    <3>3. label'[l] = "right"
      BY <1>4, <1>6, <3>1
    <3>4. \A k \in 1..Len(LabelOrder) : k < n[r] + 1 => label'[LabelOrder[k]] = "right"
      BY <1>1, <1>2, <1>6, <2>3, <3>2, <3>3, LabelList DEF LabelsFresh
    <3>5. LabelsFresh(r)'
      BY <2>1, <3>1, <3>4 DEF LabelsFresh
    <3>. QED  BY <1>1, <2>1, <3>5 DEF FreshCore, SeedsFresh, FieldsFresh, ItemsFresh
  <2>. QED  BY <1>1, <1>3, <1>6, <2>1, <2>2, <2>3, MovedInv DEF BoardPrepared
<1>7. CASE seen = "right" /\ Advances(r) /\ UNCHANGED <<label, overtaken>>
  <2>1. UNCHANGED <<github, overtaken, scenario>>
    BY <1>3, <1>7 DEF github
  <2>. QED  BY <1>2, <1>6, <1>7, <2>1, NothingWritten
<1>8. CASE label' = [label EXCEPT ![l] = "right"] /\ Overtakes({r}) /\ Advances(r)
  <2>1. label' = [m \in Labels |-> label'[m]] /\ label'[l] = "right"
        /\ \A m \in Labels : label[m] = "right" => label'[m] = "right"
    BY <1>2, <1>4, <1>8 DEF GithubOK
  <2>2. GithubOK'
    BY <1>2, <1>3, <2>1 DEF GithubOK, SeedsOK, BoardsOK, Issues
  <2>3. Grows
    BY <1>2, <1>3 DEF Grows, Copies, GithubOK, BoardsOK
  <2>. QED  BY <1>6, <1>8, <2>1, <2>2, <2>3
<1>9. CASE Returns(r, "failed") /\ UNCHANGED <<label, overtaken>>
  BY <1>1, <1>3, <1>9, ReturnedInv DEF github
<1>. QED  BY <1>5, <1>7, <1>8, <1>9

LEMMA CreateSeedInv == ASSUME IInv, NEW r \in Runs, CreateSeed(r) PROVE IInv'
<1>0. PICK t : t = Titles[n[r]]
  OBVIOUS
<1>1. at[r] = "seed" /\ Running(r) /\ at[r] \in Loops /\ n[r] <= Len(Titles) /\ Advances(r)
  BY DEF CreateSeed, Running, Loops
<1>2. /\ PlacesOK /\ GithubOK /\ SeedsOK /\ n[r] \in Nat \ {0} /\ Lasting(r)
      /\ ~overtaken[r] => SeedsFresh(r)
  BY <1>1, RunFacts
<1>3. UNCHANGED <<label, text, boards, scenario>>
  BY DEF CreateSeed, bounds
<1>4. n[r] \in 1..Len(Titles) /\ t \in ToSet(Titles)
  BY <1>0, <1>1, <1>2, TitleList
<1>5. \/ t \in view[r].titles /\ UNCHANGED <<seeded, overtaken>>
      \/ seeded' = [seeded EXCEPT ![t].open = @ + 1] /\ Overtakes({r})
  BY <1>0 DEF CreateSeed
<1>6. UNCHANGED <<github, overtaken>> \/ Overtakes({r})
  BY <1>3, <1>5 DEF github
<1>7. Moved(r) /\ at'[r] = at[r] /\ view'[r] = view[r] /\ n'[r] = n[r] + 1
  BY <1>1, <1>6, AdvancesMoved
<1>8. SeedsOK' /\ Copies(t)' > 0
      /\ \A u \in ToSet(Titles) : (Copies(u) > 0 => Copies(u)' > 0) /\ (u # t => Copies(u)' = Copies(u))
  <2>1. CASE t \in view[r].titles /\ UNCHANGED <<seeded, overtaken>>
    BY <1>1, <1>2, <2>1 DEF SeedsOK, Copies, Lasting
  <2>2. CASE seeded' = [seeded EXCEPT ![t].open = @ + 1] /\ Overtakes({r})
    <3>1. seeded[t] = [open |-> seeded[t].open, closed |-> seeded[t].closed]
          /\ seeded[t].open \in Nat /\ seeded[t].closed \in Nat
      BY <1>2, <1>4 DEF SeedsOK
    <3>2. /\ seeded'[t] = [open |-> seeded[t].open + 1, closed |-> seeded[t].closed]
          /\ seeded' = [u \in ToSet(Titles) |-> seeded'[u]]
          /\ \A u \in ToSet(Titles) : u # t => seeded'[u] = seeded[u]
      BY <1>2, <1>4, <2>2, <3>1 DEF SeedsOK
    <3>3. Copies(t)' > 0
      BY <3>1, <3>2 DEF Copies
    <3>. QED  BY <1>2, <3>1, <3>2, <3>3 DEF SeedsOK, Copies
  <2>. QED  BY <1>5, <2>1, <2>2
<1>9. GithubOK'
  BY <1>2, <1>3, <1>8 DEF GithubOK, BoardsOK, Issues
<1>10. Grows
  BY <1>2, <1>3, <1>8 DEF Grows, GithubOK, BoardsOK
<1>11. \A k \in 1..Len(Titles) : k < n[r] + 1 => k < n[r] \/ k = n[r]
  BY <1>2
<1>12. Lasting(r)'
  <2>1. \A u \in view[r].titles : u \in ToSet(Titles) /\ Copies(u)' > 0
    BY <1>1, <1>2, <1>8 DEF Lasting
  <2>2. \A k \in 1..Len(Titles) : k < n[r] + 1 => Copies(Titles[k])' > 0
    BY <1>0, <1>1, <1>2, <1>8, <1>11, TitleList DEF Lasting
  <2>. QED  BY <1>1, <1>7, <2>1, <2>2 DEF Lasting, OnBoard, Copies
<1>13. ASSUME ~overtaken[r] PROVE FreshCore(r)'
  <2>1. \A u \in ToSet(Titles) : Copies(u)' > 0 =>
          u \in view[r].titles \/ \E k \in 1..Len(Titles) : k < n[r] + 1 /\ Titles[k] = u
    <3>. SUFFICES ASSUME NEW u \in ToSet(Titles), Copies(u)' > 0, u \notin view[r].titles
                  PROVE  \E k \in 1..Len(Titles) : k < n[r] + 1 /\ Titles[k] = u
      OBVIOUS
    <3>1. CASE u = t
      BY <1>0, <1>2, <1>4, <3>1
    <3>2. CASE u # t
      <4>1. PICK k \in 1..Len(Titles) : k < n[r] /\ Titles[k] = u
        BY <1>1, <1>2, <1>8, <1>13, <3>2 DEF SeedsFresh
      <4>. QED  BY <1>2, <4>1
    <3>. QED  BY <3>1, <3>2
  <2>2. SeedsFresh(r)'
    BY <1>7, <2>1 DEF SeedsFresh, Copies
  <2>. QED  BY <1>1, <1>7, <2>2 DEF FreshCore, LabelsFresh, FieldsFresh, ItemsFresh
<1>. QED  BY <1>1, <1>3, <1>7, <1>9, <1>10, <1>12, <1>13, MovedInv DEF BoardPrepared

LEMMA CreateProjectInv == ASSUME IInv, NEW r \in Runs, CreateProject(r) PROVE IInv'
<1>0. PICK m : m = Len(boards) + 1
  OBVIOUS
<1>. DEFINE seen == [view[r] EXCEPT !.board = m]
<1>1. /\ at[r] = "create project" /\ Running(r) /\ Overtakes({r}) /\ Goes(r, "link", seen)
      /\ boards' = Append(boards, NewBoard) /\ UNCHANGED <<label, seeded, text, scenario>>
  BY <1>0 DEF CreateProject, Running, bounds
<1>2. /\ PlacesOK /\ PlaceOK(r) /\ GithubOK /\ BoardsOK /\ IsView(view[r]) /\ n[r] = 1
      /\ ~overtaken[r] => FieldsFresh(r)
  BY <1>1, RunFacts DEF Loops
<1>3. IsView(seen) /\ seen.board = m
  BY <1>2, ViewWrites
<1>. HIDE DEF seen
<1>4. "link" \in StagesOf(Command(r))
  BY <1>1, <1>2, CommandAt, CallsOf DEF ProjectCalls
<1>5. Moved(r) /\ at'[r] = "link" /\ view'[r] = seen
  BY <1>1, <1>2, <1>3, <1>4, GoesMoved
<1>6. /\ BoardsOK' /\ Len(boards)' = Len(boards) + 1
      /\ \A c \in 1..Len(boards) : boards'[c] = boards[c]
  BY <1>1, <1>2, NewBoardOK, AddBoard
<1>7. GithubOK'
  BY <1>1, <1>2, <1>6 DEF GithubOK, SeedsOK, Issues
<1>8. Grows
  <2>1. Len(boards) <= Len(boards)'
    BY <1>2, <1>6 DEF BoardsOK
  <2>2. \A t \in ToSet(Titles) : Copies(t) > 0 => Copies(t)' > 0
    BY <1>1 DEF Copies
  <2>. QED  BY <1>6, <2>1, <2>2 DEF Grows
<1>9. Lasting(r)'
  BY <1>0, <1>2, <1>3, <1>5, <1>6 DEF Lasting, BoardsOK
<1>10. ASSUME ~overtaken[r] PROVE FreshCore(r)' /\ ~BoardPrepared
  <2>1. boards = <<>>
    BY <1>1, <1>2, <1>10 DEF FieldsFresh
  <2>. QED  BY <1>5, <2>1 DEF FreshCore, LabelsFresh, SeedsFresh, FieldsFresh, ItemsFresh, BoardPrepared
<1>. QED  BY <1>1, <1>5, <1>7, <1>8, <1>9, <1>10, MovedInv

LEMMA WantedPrepared == ASSUME NEW f \in Fields PROVE Prepared(f, Wanted(f)) /\ IsField(Wanted(f))
BY DEF Prepared, Wanted, IsField

LEMMA SyncFieldInv == ASSUME IInv, NEW r \in Runs, SyncField(r) PROVE IInv'
<1>0. PICK f, b : f = FieldOrder[n[r]] /\ b = view[r].board
  OBVIOUS
<1>. DEFINE seen == view[r].fields[f]  missing == Manifest[f] \ boards[b].fields[f].options
            read == [view[r] EXCEPT !.options = boards[b].fields[f].options]
<1>1. at[r] = "field" /\ Running(r) /\ at[r] \in Loops /\ n[r] <= 10
  BY FieldList DEF SyncField, Running, Loops
<1>2. /\ PlacesOK /\ PlaceOK(r) /\ GithubOK /\ BoardsOK /\ n[r] \in Nat \ {0} /\ Lasting(r) /\ IsView(view[r])
      /\ ~overtaken[r] => FieldsFresh(r)
  BY <1>1, RunFacts
<1>3. UNCHANGED <<label, seeded, text, scenario>>
  BY DEF SyncField, bounds
<1>4. n[r] \in 1..10 /\ f \in Fields /\ b \in 1..Len(boards)
  <2>1. n[r] \in 1..10
    BY <1>1, <1>2
  <2>2. b \in 1..Len(boards)
    BY <1>0, <1>1, <1>2 DEF Lasting, OnBoard
  <2>. QED  BY <1>0, <2>1, <2>2, FieldList
<1>5. \A g \in Fields : view[r].fields[g].kind # "absent" =>
        boards[b].fields[g].kind = view[r].fields[g].kind
  BY <1>0, <1>1, <1>2 DEF Lasting, Chosen
<1>6. \/ /\ seen.kind = "absent" /\ boards[b].fields[f].kind = "absent"
         /\ boards' = [boards EXCEPT ![b].fields[f] = Wanted(f)] /\ Overtakes({r}) /\ Advances(r)
      \/ \E code : Returns(r, code) /\ code # "ok" /\ UNCHANGED <<boards, overtaken>>
      \/ /\ seen.kind # "absent" /\ Manifest[f] = {} /\ Advances(r) /\ UNCHANGED <<boards, overtaken>>
      \/ /\ seen.kind = "select" /\ missing = {} /\ Advances(r) /\ UNCHANGED <<boards, overtaken>>
      \/ /\ seen.kind = "select" /\ Goes(r, "options", read) /\ UNCHANGED <<boards, overtaken>>
  BY <1>0 DEF SyncField, Wanted
<1>7. Command(r) = "project"
  BY <1>1, <1>2, CommandAt DEF ProjectCalls
<1>8. \A k \in 1..10 : k < n[r] + 1 => k < n[r] \/ k = n[r]
  BY <1>2
<1>9. ASSUME Advances(r), UNCHANGED <<boards, overtaken>>, Prepared(f, boards[b].fields[f]) PROVE IInv'
  <2>1. UNCHANGED <<github, overtaken, scenario>>
    BY <1>3, <1>9 DEF github
  <2>2. Moved(r) /\ at'[r] = at[r] /\ view'[r] = view[r] /\ n'[r] = n[r] + 1
    BY <1>1, <1>9, <2>1, AdvancesMoved
  <2>3. Lasting(r)'
    BY <1>0, <1>1, <1>4, <1>5, <1>9, <2>2 DEF Lasting, Chosen
  <2>4. ASSUME ~overtaken[r] PROVE FreshCore(r)'
    <3>1. \A k \in 1..10 : k < n[r] + 1 => Prepared(FieldOrder[k], boards[b].fields[FieldOrder[k]])
      BY <1>0, <1>1, <1>2, <1>8, <1>9, <2>4 DEF FieldsFresh, Chosen
    <3>2. FieldsFresh(r)'
      BY <1>0, <1>1, <1>9, <2>2, <3>1 DEF FieldsFresh, Chosen
    <3>. QED  BY <1>1, <2>2, <3>2 DEF FreshCore, LabelsFresh, SeedsFresh, ItemsFresh
  <2>. QED  BY <1>1, <1>2, <2>1, <2>2, <2>3, <2>4, NothingWritten, MovedInv
<1>10. CASE /\ seen.kind = "absent" /\ boards[b].fields[f].kind = "absent"
            /\ boards' = [boards EXCEPT ![b].fields[f] = Wanted(f)] /\ Overtakes({r}) /\ Advances(r)
  <2>1. Moved(r) /\ at'[r] = at[r] /\ view'[r] = view[r] /\ n'[r] = n[r] + 1
    BY <1>1, <1>10, AdvancesMoved
  <2>2. /\ BoardsOK' /\ Len(boards)' = Len(boards)
        /\ \A c \in 1..Len(boards) : c # b => boards'[c] = boards[c]
        /\ boards'[b].items = boards[b].items /\ boards'[b].fields[f] = Wanted(f)
        /\ \A g \in Fields : g # f => boards'[b].fields[g] = boards[b].fields[g]
    <3>1. PICK x : x = Wanted(f)
      OBVIOUS
    <3>2. boards' = [boards EXCEPT ![b].fields[f] = x] /\ IsField(x)
      BY <1>4, <1>10, <3>1, WantedPrepared
    <3>3. BoardsOK /\ scenario' = scenario
      BY <1>2, <1>3
    <3>4. /\ BoardsOK' /\ Len(boards)' = Len(boards)
          /\ \A c \in 1..Len(boards) : c # b => boards'[c] = boards[c]
          /\ boards'[b].items = boards[b].items
          /\ boards'[b].fields = [boards[b].fields EXCEPT ![f] = x]
      BY ONLY <1>4, <3>2, <3>3, WriteField
    <3>5. boards[b].fields = [g \in Fields |-> boards[b].fields[g]]
      BY <1>2, <1>4, PartsOK, BoardParts
    <3>. QED  BY <1>4, <3>1, <3>4, <3>5
  <2>3. GithubOK'
    BY <1>2, <1>3, <2>2 DEF GithubOK, SeedsOK, Issues
  <2>4. Grows
    BY <1>2, <1>3, <1>10, <2>2 DEF Grows, Copies, BoardsOK
  <2>5. Lasting(r)'
    <3>1. \A g \in Fields : view[r].fields[g].kind # "absent" =>
            boards'[b].fields[g].kind = view[r].fields[g].kind
      BY <1>5, <1>10, <2>2
    <3>. QED  BY <1>0, <1>1, <1>4, <2>1, <2>2, <3>1 DEF Lasting, Chosen
  <2>6. \A c \in 1..Len(boards), g \in Fields :
          Prepared(g, boards[c].fields[g]) => Prepared(g, boards'[c].fields[g])
    BY <1>4, <2>2, WantedPrepared
  <2>7. BoardPrepared => BoardPrepared'
    BY <2>2, <2>6 DEF BoardPrepared
  <2>8. ASSUME ~overtaken[r] PROVE FreshCore(r)'
    <3>1. \A k \in 1..10 : k < n[r] => Prepared(FieldOrder[k], boards'[b].fields[FieldOrder[k]])
      BY <1>0, <1>1, <1>2, <1>4, <2>6, <2>8, FieldList DEF FieldsFresh, Chosen
    <3>2. \A k \in 1..10 : k < n[r] + 1 => Prepared(FieldOrder[k], boards'[b].fields[FieldOrder[k]])
      BY <1>0, <1>4, <1>8, <2>2, <3>1, WantedPrepared
    <3>3. FieldsFresh(r)'
      BY <1>0, <1>1, <2>1, <3>2 DEF FieldsFresh, Chosen
    <3>. QED  BY <1>1, <2>1, <3>3 DEF FreshCore, LabelsFresh, SeedsFresh, ItemsFresh
  <2>. QED  BY <1>1, <1>3, <2>1, <2>3, <2>4, <2>5, <2>7, <2>8, MovedInv
<1>11. ASSUME NEW code, Returns(r, code), code # "ok", UNCHANGED <<boards, overtaken>> PROVE IInv'
  BY <1>1, <1>3, <1>7, <1>11, ReturnedInv DEF github
<1>12. CASE seen.kind # "absent" /\ Manifest[f] = {} /\ Advances(r) /\ UNCHANGED <<boards, overtaken>>
  <2>1. Prepared(f, boards[b].fields[f])
    BY <1>4, <1>5, <1>12 DEF Prepared
  <2>. QED  BY <1>9, <1>12, <2>1
<1>13. CASE seen.kind = "select" /\ missing = {} /\ Advances(r) /\ UNCHANGED <<boards, overtaken>>
  <2>1. Prepared(f, boards[b].fields[f])
    BY <1>4, <1>5, <1>13 DEF Prepared
  <2>. QED  BY <1>9, <1>13, <2>1
<1>14. CASE seen.kind = "select" /\ Goes(r, "options", read) /\ UNCHANGED <<boards, overtaken>>
  <2>1. UNCHANGED <<github, overtaken, scenario>>
    BY <1>3, <1>14 DEF github
  <2>2. IsView(read) /\ read.options = boards[b].fields[f].options /\ read.board = b
        /\ read.fields = view[r].fields
    <3>. DEFINE options == boards[b].fields[f].options
    <3>. HIDE DEF options
    <3>1. ASSUME NEW w, w = [view[r] EXCEPT !.options = options]
          PROVE  IsView(w) /\ w.options = options /\ w.board = view[r].board /\ w.fields = view[r].fields
      BY <1>2, <3>1 DEF IsView
    <3>. QED  BY <1>0, <3>1 DEF options
  <2>. HIDE DEF read
  <2>3. "options" \in StagesOf(Command(r)) /\ "options" \in Loops
    BY <1>7, CallsOf DEF ProjectCalls, Loops
  <2>4. Moved(r) /\ at'[r] = "options" /\ view'[r] = read /\ n'[r] = n[r]
    BY <1>14, <2>1, <2>2, <2>3, GoesMoved
  <2>5. Lasting(r)'
    BY <1>0, <1>4, <1>5, <1>14, <2>2, <2>4 DEF Lasting, Chosen, FieldAt
  <2>6. ASSUME ~overtaken[r] PROVE FreshCore(r)'
    <3>1. FieldsFresh(r)'
      BY <1>0, <1>1, <1>2, <1>14, <2>2, <2>4, <2>6 DEF FieldsFresh, Chosen, FieldAt
    <3>. QED  BY <2>4, <3>1 DEF FreshCore, LabelsFresh, SeedsFresh, ItemsFresh
  <2>. QED  BY <1>1, <1>2, <2>1, <2>4, <2>5, <2>6, NothingWritten, MovedInv
<1>. QED  BY <1>6, <1>10, <1>11, <1>12, <1>13, <1>14

LEMMA UpdateOptionsInv == ASSUME IInv, NEW r \in Runs, UpdateOptions(r) PROVE IInv'
<1>0. PICK f, b, options : f = FieldAt(r) /\ b = view[r].board /\ options = view[r].options \cup Manifest[f]
  OBVIOUS
<1>1. /\ at[r] = "options" /\ Running(r) /\ Resumes(r, "field") /\ Overtakes({r})
      /\ SetOptions(b, f, options) /\ UNCHANGED <<label, seeded, text, scenario>>
  BY <1>0 DEF UpdateOptions, Running, Resumes, bounds, FieldAt
<1>2. /\ PlacesOK /\ PlaceOK(r) /\ GithubOK /\ BoardsOK /\ n[r] \in Nat \ {0} /\ Lasting(r)
      /\ ~overtaken[r] => FieldsFresh(r)
  BY <1>1, RunFacts
<1>3. n[r] \in 1..10 /\ f \in Fields /\ b \in 1..Len(boards) /\ boards[b].fields[f].kind = "select"
  BY <1>0, <1>1, <1>2, FieldList DEF Lasting, OnBoard, Chosen, FieldAt
<1>4. "field" \in StagesOf(Command(r)) /\ "field" \in Loops
  BY <1>1, <1>2, CommandAt, CallsOf DEF ProjectCalls, Loops
<1>5. Moved(r) /\ at'[r] = "field" /\ view'[r] = view[r] /\ n'[r] = n[r] + 1
  BY <1>1, <1>4, ResumesMoved
<1>6. /\ BoardsOK' /\ Len(boards)' = Len(boards)
      /\ \A c \in 1..Len(boards) : c # b => boards'[c] = boards[c]
      /\ boards'[b].fields[f] = [kind |-> "select", options |-> options]
      /\ \A g \in Fields : g # f => boards'[b].fields[g] = boards[b].fields[g]
      /\ \A i \in Issues : boards'[b].items[i].on = boards[b].items[i].on
  BY <1>1, <1>2, <1>3, WriteOptions
<1>7. GithubOK'
  BY <1>1, <1>2, <1>6 DEF GithubOK, SeedsOK, Issues
<1>8. Grows
  BY <1>1, <1>2, <1>3, <1>6 DEF Grows, Copies, BoardsOK
<1>9. Lasting(r)'
  <2>1. \A g \in Fields : view[r].fields[g].kind # "absent" =>
          boards'[b].fields[g].kind = view[r].fields[g].kind
    BY <1>0, <1>1, <1>2, <1>3, <1>6 DEF Lasting, Chosen
  <2>. QED  BY <1>0, <1>3, <1>5, <1>6, <2>1 DEF Lasting, Chosen
<1>10. Prepared(f, boards'[b].fields[f])
  BY <1>0, <1>6 DEF Prepared
<1>11. \A c \in 1..Len(boards), g \in Fields :
          Prepared(g, boards[c].fields[g]) => Prepared(g, boards'[c].fields[g])
  BY <1>3, <1>6, <1>10
<1>12. BoardPrepared => BoardPrepared'
  BY <1>6, <1>11 DEF BoardPrepared
<1>13. ASSUME ~overtaken[r] PROVE FreshCore(r)'
  <2>1. \A k \in 1..10 : k < n[r] => Prepared(FieldOrder[k], boards'[b].fields[FieldOrder[k]])
    BY <1>0, <1>1, <1>2, <1>3, <1>11, <1>13, FieldList DEF FieldsFresh, Chosen
  <2>2. \A k \in 1..10 : k < n[r] + 1 => k < n[r] \/ k = n[r]
    BY <1>2
  <2>3. \A k \in 1..10 : k < n[r] + 1 => Prepared(FieldOrder[k], boards'[b].fields[FieldOrder[k]])
    BY <1>0, <1>10, <2>1, <2>2 DEF FieldAt
  <2>4. FieldsFresh(r)'
    BY <1>0, <1>5, <2>3 DEF FieldsFresh, Chosen
  <2>. QED  BY <1>5, <2>4 DEF FreshCore, LabelsFresh, SeedsFresh, ItemsFresh
<1>. QED  BY <1>1, <1>5, <1>7, <1>8, <1>9, <1>12, <1>13, MovedInv

\* What holds of a run while it goes through the issues.
LEMMA ItemFacts ==
  ASSUME IInv, NEW r \in Runs, at[r] \in {"item", "value"}
  PROVE  /\ view[r].board \in 1..Len(boards) /\ Command(r) = "items"
         /\ {"item", "value"} \subseteq StagesOf(Command(r)) /\ {"item", "value"} \subseteq Loops
         /\ \A f \in Fields : view[r].fields[f].kind # "absent" =>
              Chosen(r).fields[f].kind = view[r].fields[f].kind
         /\ \A j \in Issues : view[r].items[j].on => Chosen(r).items[j].on
         /\ ~overtaken[r] => ItemsFresh(r)
<1>1. Running(r) /\ PlaceOK(r) /\ Lasting(r)
  BY RunFacts DEF Running
<1>2. Command(r) = "items"
  BY <1>1, CommandAt DEF ItemsCalls
<1>3. {"item", "value"} \subseteq StagesOf(Command(r)) /\ {"item", "value"} \subseteq Loops
  BY <1>2, CallsOf DEF ItemsCalls, Loops
<1>. QED  BY <1>1, <1>2, <1>3, RunFacts DEF Lasting, OnBoard

LEMMA SyncItemInv == ASSUME IInv, NEW r \in Runs, SyncItem(r) PROVE IInv'
<1>0. PICK i, b, was : i = IssueAt(r) /\ b = view[r].board /\ was = view[r].items[i].values
  OBVIOUS
<1>. DEFINE read == [view[r] EXCEPT !.values = was]
            fresh == [view[r] EXCEPT !.values = NoValues]
<1>1. at[r] = "item" /\ Running(r) /\ at[r] \in Loops /\ n[r] <= Len(IssueOrder)
  BY DEF SyncItem, Running, Loops
<1>2. /\ PlacesOK /\ PlaceOK(r) /\ GithubOK /\ BoardsOK /\ n[r] \in Nat \ {0} /\ IsView(view[r])
      /\ scenario \in Scenarios
  BY <1>1, RunFacts
<1>3. UNCHANGED <<label, seeded, text, scenario>>
  BY DEF SyncItem, bounds
<1>4. n[r] \in 1..Len(IssueOrder) /\ i \in Issues /\ b \in 1..Len(boards) /\ i = IssueOrder[n[r]]
  <2>1. n[r] \in 1..Len(IssueOrder)
    BY <1>1, <1>2, IssueList
  <2>. QED  BY <1>0, <1>1, <1>2, <2>1, IssueList, ItemFacts DEF IssueAt
<1>5. /\ {"item", "value"} \subseteq StagesOf(Command(r)) /\ {"item", "value"} \subseteq Loops
      /\ \A f \in Fields : view[r].fields[f].kind # "absent" =>
           boards[b].fields[f].kind = view[r].fields[f].kind
      /\ \A j \in Issues : view[r].items[j].on => boards[b].items[j].on
  BY <1>0, <1>1, ItemFacts DEF Chosen
<1>6. \/ ~Included(view[r].texts[i]) /\ Advances(r) /\ UNCHANGED <<boards, overtaken>>
      \/ view[r].items[i].on /\ Goes(r, "value", read) /\ UNCHANGED <<boards, overtaken>>
      \/ /\ ~view[r].items[i].on /\ boards' = [boards EXCEPT ![b].items[i].on = TRUE]
         /\ Overtakes({r}) /\ Goes(r, "value", fresh)
  BY <1>0 DEF SyncItem, IssueAt
<1>7. ASSUME ~overtaken[r]
      PROVE  /\ \A j \in Issues : view[r].texts[j] = Shown(j)
             /\ \A k \in 1..Len(IssueOrder) : k >= n[r] =>
                  view[r].items[IssueOrder[k]] = boards[b].items[IssueOrder[k]]
             /\ \A f \in Fields : view[r].fields[f] = boards[b].fields[f]
             /\ \A k \in 1..Len(IssueOrder) : k < n[r] =>
                  Synced(Shown(IssueOrder[k]), boards[b].items[IssueOrder[k]])
  BY <1>0, <1>1, <1>7, ItemFacts DEF ItemsFresh, Chosen
<1>8. IssueOrder' = IssueOrder /\ Issues' = Issues /\ \A j : Shown(j)' = Shown(j)
  BY <1>3, SameListing
<1>9. IsView(read) /\ IsView(fresh) /\ read.values = was /\ fresh.values = NoValues
      /\ \A w \in {read, fresh} : /\ w.board = b /\ w.texts = view[r].texts
                                  /\ w.items = view[r].items /\ w.fields = view[r].fields
  BY <1>0, <1>2, ViewWrites
<1>. HIDE DEF read, fresh
<1>10. CASE ~Included(view[r].texts[i]) /\ Advances(r) /\ UNCHANGED <<boards, overtaken>>
  <2>1. UNCHANGED <<github, overtaken, scenario>>
    BY <1>3, <1>10 DEF github
  <2>2. Moved(r) /\ at'[r] = "item" /\ view'[r] = view[r] /\ n'[r] = n[r] + 1
    BY <1>1, <1>10, <2>1, AdvancesMoved
  <2>3. Lasting(r)'
    BY <1>0, <1>4, <1>5, <1>8, <1>10, <2>2 DEF Lasting, Chosen
  <2>4. ASSUME ~overtaken[r] PROVE FreshCore(r)'
    <3>1. Synced(Shown(i), boards[b].items[i])
      BY <1>4, <1>7, <1>10, <2>4 DEF Synced
    <3>2. \A k \in 1..Len(IssueOrder) : k < n[r] + 1 =>
            Synced(Shown(IssueOrder[k]), boards[b].items[IssueOrder[k]])
      <4>1. \A k \in 1..Len(IssueOrder) : k < n[r] + 1 => k < n[r] \/ k = n[r]
        BY <1>2
      <4>. QED  BY <1>4, <1>7, <2>4, <3>1, <4>1
    <3>3. \A k \in 1..Len(IssueOrder) : k >= n[r] + 1 =>
            view[r].items[IssueOrder[k]] = boards[b].items[IssueOrder[k]]
      <4>1. \A k \in 1..Len(IssueOrder) : k >= n[r] + 1 => k >= n[r]
        BY <1>2
      <4>. QED  BY <1>7, <2>4, <4>1
    <3>4. ItemsFresh(r)'
      BY <1>0, <1>7, <1>8, <1>10, <2>2, <2>4, <3>2, <3>3 DEF ItemsFresh, Chosen
    <3>. QED  BY <2>2, <3>4 DEF FreshCore, LabelsFresh, SeedsFresh, FieldsFresh
  <2>. QED  BY <1>1, <1>2, <2>1, <2>2, <2>3, <2>4, NothingWritten, MovedInv
<1>11. CASE view[r].items[i].on /\ Goes(r, "value", read) /\ UNCHANGED <<boards, overtaken>>
  <2>1. UNCHANGED <<github, overtaken, scenario>>
    BY <1>3, <1>11 DEF github
  <2>2. Moved(r) /\ at'[r] = "value" /\ view'[r] = read /\ n'[r] = n[r]
    BY <1>5, <1>9, <1>11, <2>1, GoesMoved
  <2>3. Lasting(r)'
    BY <1>4, <1>5, <1>8, <1>9, <1>11, <2>2 DEF Lasting, Chosen, IssueAt
  <2>4. ASSUME ~overtaken[r] PROVE FreshCore(r)'
    <3>1. was = boards[b].items[i].values
      BY <1>0, <1>2, <1>4, <1>7, <2>4
    <3>2. \A k \in 1..Len(IssueOrder) : k > n[r] =>
            view[r].items[IssueOrder[k]] = boards[b].items[IssueOrder[k]]
      <4>1. \A k \in 1..Len(IssueOrder) : k > n[r] => k >= n[r]
        BY <1>2
      <4>. QED  BY <1>7, <2>4, <4>1
    <3>3. ItemsFresh(r)'
      BY <1>4, <1>7, <1>8, <1>9, <1>11, <2>2, <2>4, <3>1, <3>2 DEF ItemsFresh, Chosen, IssueAt
    <3>. QED  BY <2>2, <3>3 DEF FreshCore, LabelsFresh, SeedsFresh, FieldsFresh
  <2>. QED  BY <1>1, <1>2, <2>1, <2>2, <2>3, <2>4, NothingWritten, MovedInv
<1>12. CASE /\ ~view[r].items[i].on /\ boards' = [boards EXCEPT ![b].items[i].on = TRUE]
            /\ Overtakes({r}) /\ Goes(r, "value", fresh)
  <2>1. Moved(r) /\ at'[r] = "value" /\ view'[r] = fresh /\ n'[r] = n[r]
    BY <1>5, <1>9, <1>12, GoesMoved
  <2>2. /\ BoardsOK' /\ Len(boards)' = Len(boards)
        /\ \A c \in 1..Len(boards) : c # b => boards'[c] = boards[c]
        /\ boards'[b].fields = boards[b].fields
        /\ boards'[b].items[i].on /\ boards'[b].items[i].values = boards[b].items[i].values
        /\ \A j \in Issues : j # i => boards'[b].items[j] = boards[b].items[j]
    <3>1. /\ BoardsOK /\ scenario' = scenario /\ boards' = [boards EXCEPT ![b].items[i].on = TRUE]
          /\ b \in 1..Len(boards) /\ i \in Issues
      BY <1>2, <1>3, <1>4, <1>12
    <3>. QED  BY ONLY <3>1, WriteOn
  <2>3. GithubOK'
    BY <1>2, <1>3, <1>8, <2>2 DEF GithubOK, SeedsOK
  <2>4. \A j \in Issues : boards[b].items[j].on => boards'[b].items[j].on
    BY <2>2
  <2>5. Grows
    BY <1>2, <1>3, <2>2, <2>4 DEF Grows, Copies, BoardsOK
  <2>6. Lasting(r)'
    <3>1. \A j \in Issues : view[r].items[j].on => boards'[b].items[j].on
      BY <1>5, <2>4
    <3>. QED  BY <1>4, <1>5, <1>8, <1>9, <2>1, <2>2, <3>1 DEF Lasting, Chosen, IssueAt
  <2>7. BoardPrepared => BoardPrepared'
    BY <1>4, <2>2 DEF BoardPrepared
  <2>8. ASSUME ~overtaken[r] PROVE FreshCore(r)'
    <3>1. boards'[b].items[i].values = NoValues
      <4>1. view[r].items[i] = boards[b].items[i]
        BY <1>2, <1>4, <1>7, <2>8
      <4>2. ~boards[b].items[i].on
        BY <1>12, <4>1
      <4>. QED  BY <1>2, <1>4, <2>2, <4>2, PartsOK, ItemParts
    <3>2. \A k \in 1..Len(IssueOrder) : k # n[r] => boards'[b].items[IssueOrder[k]] = boards[b].items[IssueOrder[k]]
      BY <1>2, <1>4, <2>2, IssueList
    <3>3. \A k \in 1..Len(IssueOrder) : k > n[r] =>
            view[r].items[IssueOrder[k]] = boards'[b].items[IssueOrder[k]]
      <4>1. \A k \in 1..Len(IssueOrder) : k > n[r] => k >= n[r] /\ k # n[r]
        BY <1>2
      <4>. QED  BY <1>7, <2>8, <3>2, <4>1
    <3>4. \A k \in 1..Len(IssueOrder) : k < n[r] =>
            Synced(Shown(IssueOrder[k]), boards'[b].items[IssueOrder[k]])
      <4>1. \A k \in 1..Len(IssueOrder) : k < n[r] => k # n[r]
        BY <1>2
      <4>. QED  BY <1>7, <2>8, <3>2, <4>1
    <3>5. ItemsFresh(r)'
      BY <1>4, <1>7, <1>8, <1>9, <2>1, <2>2, <2>8, <3>1, <3>3, <3>4 DEF ItemsFresh, Chosen, IssueAt
    <3>. QED  BY <2>1, <3>5 DEF FreshCore, LabelsFresh, SeedsFresh, FieldsFresh
  <2>. QED  BY <1>1, <1>3, <2>1, <2>3, <2>5, <2>6, <2>7, <2>8, MovedInv
<1>. QED  BY <1>6, <1>10, <1>11, <1>12

LEMMA FirstDiffering ==
  ASSUME NEW r \in Runs, Differing(r) # {}
  PROVE  Min(Differing(r)) \in Differing(r) /\ Differing(r) \subseteq 1..10
<1>1. Differing(r) \subseteq 1..10
  BY FieldList DEF Differing
<1>2. \E k \in Differing(r) : \A m \in Differing(r) : k <= m
  <2>1. PICK T : T = Differing(r)
    OBVIOUS
  <2>2. T \in SUBSET Nat /\ T # {}
    BY <1>1, <2>1
  <2>. QED  BY <2>1, <2>2, Least
<1>. QED  BY <1>1, <1>2 DEF Min

\* What is to be set is offered on a board that project has prepared.
LEMMA KnownOnPrepared ==
  ASSUME GithubOK, BoardPrepared, ~Muddled, NEW t, NEW f \in Fields, DesiredValue(t, f) # Leave
  PROVE  boards[1].fields[f].kind = "text" \/ DesiredValue(t, f) \in boards[1].fields[f].options
<1>1. PICK x : x = boards[1].fields[f]
  OBVIOUS
<1>2. PICK d : d = DesiredValue(t, f)
  OBVIOUS
<1>3. 1 \in DOMAIN boards /\ IsField(x) /\ Prepared(f, x)
  BY <1>1, PartsOK DEF GithubOK, BoardsOK, BoardPrepared
<1>4. Options[f] \subseteq Manifest[f] /\ (Options[f] = {} => Manifest[f] = {})
  BY BoardAssumption
<1>5. CASE Options[f] = {}
  <2>1. x.kind # "select"
    BY <1>1, <1>3, <1>4, <1>5 DEF Muddled
  <2>. QED  BY <1>1, <1>3, <2>1 DEF IsField, Prepared
<1>6. CASE Options[f] # {}
  <2>1. d \in Options[f]
    BY <1>2, <1>6, DesiredOffered
  <2>. QED  BY <1>1, <1>2, <1>3, <1>4, <2>1 DEF Prepared
<1>. QED  BY <1>5, <1>6

LEMMA SetValueInv == ASSUME IInv, NEW r \in Runs, SetValue(r) PROVE IInv'
<1>0. PICK i, b, t, f, d, vals :
        /\ i = IssueAt(r) /\ b = view[r].board /\ t = view[r].texts[i]
        /\ f = FieldOrder[Min(Differing(r))] /\ d = DesiredValue(t, f)
        /\ vals = [view[r].values EXCEPT ![f] = d]
  OBVIOUS
<1>. DEFINE set == [view[r] EXCEPT !.values = vals]
            known == view[r].fields[f].kind = "text" \/ d \in view[r].fields[f].options
<1>1. at[r] = "value" /\ Running(r) /\ at[r] \in Loops
  BY DEF SetValue, Running, Loops
<1>2. /\ PlacesOK /\ PlaceOK(r) /\ GithubOK /\ BoardsOK /\ n[r] \in Nat \ {0} /\ IsView(view[r])
      /\ scenario \in Scenarios /\ Held(r)
  BY <1>1, RunFacts
<1>3. UNCHANGED <<label, seeded, text, scenario>>
  BY DEF SetValue, bounds
<1>4. /\ n[r] \in 1..Len(IssueOrder) /\ i \in Issues /\ b \in 1..Len(boards) /\ i = IssueOrder[n[r]]
      /\ boards[b].items[i].on
  <2>1. n[r] \in 1..Len(IssueOrder) /\ boards[b].items[i].on
    BY <1>0, <1>1, <1>2 DEF Held, Lasting, Chosen
  <2>. QED  BY <1>0, <1>1, <1>2, <2>1, IssueList, ItemFacts DEF IssueAt
<1>5. /\ {"item", "value"} \subseteq StagesOf(Command(r)) /\ {"item", "value"} \subseteq Loops
      /\ Command(r) = "items"
      /\ \A g \in Fields : view[r].fields[g].kind # "absent" =>
           boards[b].fields[g].kind = view[r].fields[g].kind
      /\ \A j \in Issues : view[r].items[j].on => boards[b].items[j].on
  BY <1>0, <1>1, ItemFacts DEF Chosen
<1>6. f \in Fields /\ d # Leave
  <2>1. PICK m : m = Min(Differing(r))
    OBVIOUS
  <2>2. m \in Differing(r) /\ m \in 1..10
    BY <2>1, FirstDiffering DEF SetValue
  <2>. QED  BY <1>0, <2>1, <2>2, FieldList DEF Differing, IssueAt
<1>7. \/ ~known /\ Returns(r, "refused") /\ UNCHANGED <<boards, overtaken>>
      \/ Returns(r, "failed") /\ UNCHANGED <<boards, overtaken>>
      \/ /\ boards' = [boards EXCEPT ![b].items[i].values[f] = d]
         /\ Overtakes({r}) /\ Goes(r, "value", [view[r] EXCEPT !.values[f] = d])
  BY <1>0 DEF SetValue, IssueAt
<1>8. ASSUME ~overtaken[r]
      PROVE  /\ \A j \in Issues : view[r].texts[j] = Shown(j)
             /\ \A k \in 1..Len(IssueOrder) : k > n[r] =>
                  view[r].items[IssueOrder[k]] = boards[b].items[IssueOrder[k]]
             /\ \A g \in Fields : view[r].fields[g] = boards[b].fields[g]
             /\ \A k \in 1..Len(IssueOrder) : k < n[r] =>
                  Synced(Shown(IssueOrder[k]), boards[b].items[IssueOrder[k]])
             /\ view[r].values = boards[b].items[i].values
  BY <1>0, <1>1, <1>8, ItemFacts DEF ItemsFresh, Chosen, IssueAt
<1>9. IssueOrder' = IssueOrder /\ Issues' = Issues /\ \A j : Shown(j)' = Shown(j)
  BY <1>3, SameListing
<1>10. CASE ~known /\ Returns(r, "refused") /\ UNCHANGED <<boards, overtaken>>
  <2>1. ASSUME ProjectDone(r), ~overtaken[r] PROVE Muddled
    <3>1. SUFFICES ASSUME ~Muddled PROVE FALSE
      OBVIOUS
    <3>2. BoardPrepared
      BY <1>1, <1>2, <2>1, <3>1 DEF Held, Fresh
    <3>3. b = 1
      BY <1>4, <3>2 DEF BoardPrepared
    <3>4. boards[1].fields[f].kind = "text" \/ d \in boards[1].fields[f].options
      BY <1>0, <1>2, <1>6, <3>1, <3>2, KnownOnPrepared
    <3>. QED  BY <1>6, <1>8, <1>10, <2>1, <3>3, <3>4
  <2>. QED  BY <1>1, <1>3, <1>5, <1>10, <2>1, ReturnedInv DEF github
<1>11. CASE Returns(r, "failed") /\ UNCHANGED <<boards, overtaken>>
  BY <1>1, <1>3, <1>11, ReturnedInv DEF github
<1>12. CASE /\ boards' = [boards EXCEPT ![b].items[i].values[f] = d]
            /\ Overtakes({r}) /\ Goes(r, "value", [view[r] EXCEPT !.values[f] = d])
  <2>0. /\ IsView(set) /\ set.values = vals /\ set.board = b /\ set.texts = view[r].texts
        /\ set.items = view[r].items /\ set.fields = view[r].fields
    BY <1>0, <1>2, ViewWrites
  <2>1. Goes(r, "value", set)
    <3>1. [view[r] EXCEPT !.values[f] = d] = set
      BY <1>0
    <3>. QED  BY <1>12, <3>1
  <2>. HIDE DEF set
  <2>2. Moved(r) /\ at'[r] = "value" /\ view'[r] = set /\ n'[r] = n[r]
    BY <1>5, <1>12, <2>0, <2>1, GoesMoved
  <2>3. /\ BoardsOK' /\ Len(boards)' = Len(boards)
        /\ \A c \in 1..Len(boards) : c # b => boards'[c] = boards[c]
        /\ boards'[b].fields = boards[b].fields
        /\ boards'[b].items[i].on
        /\ boards'[b].items[i].values = [boards[b].items[i].values EXCEPT ![f] = d]
        /\ \A j \in Issues : j # i => boards'[b].items[j] = boards[b].items[j]
    <3>1. /\ BoardsOK /\ scenario' = scenario /\ boards' = [boards EXCEPT ![b].items[i].values[f] = d]
          /\ b \in 1..Len(boards) /\ i \in Issues /\ f \in Fields /\ boards[b].items[i].on
      BY <1>2, <1>3, <1>4, <1>6, <1>12
    <3>. QED  BY ONLY <3>1, WriteValue
  <2>4. GithubOK'
    BY <1>2, <1>3, <1>9, <2>3 DEF GithubOK, SeedsOK
  <2>5. \A j \in Issues : boards[b].items[j].on => boards'[b].items[j].on
    BY <2>3
  <2>6. Grows
    BY <1>2, <1>3, <2>3, <2>5 DEF Grows, Copies, BoardsOK
  <2>7. Lasting(r)'
    <3>1. \A j \in Issues : view[r].items[j].on => boards'[b].items[j].on
      BY <1>5, <2>5
    <3>2. \A g \in Fields : view[r].fields[g].kind # "absent" =>
            boards'[b].fields[g].kind = view[r].fields[g].kind
      BY <1>5, <2>3
    <3>3. b \in 1..Len(boards') /\ boards'[b].items[i].on
      BY <1>4, <2>3
    <3>. QED  BY <1>4, <1>9, <2>0, <2>2, <3>1, <3>2, <3>3 DEF Lasting, Chosen, IssueAt
  <2>8. BoardPrepared => BoardPrepared'
    BY <1>4, <2>3 DEF BoardPrepared
  <2>9. ASSUME ~overtaken[r] PROVE FreshCore(r)'
    <3>1. boards'[b].items[i].values = vals
      BY <1>0, <1>8, <2>3, <2>9
    <3>2. \A k \in 1..Len(IssueOrder) : k # n[r] => boards'[b].items[IssueOrder[k]] = boards[b].items[IssueOrder[k]]
      BY <1>2, <1>4, <2>3, IssueList
    <3>3. \A k \in 1..Len(IssueOrder) : k > n[r] =>
            view[r].items[IssueOrder[k]] = boards'[b].items[IssueOrder[k]]
      <4>1. \A k \in 1..Len(IssueOrder) : k > n[r] => k # n[r]
        BY <1>2
      <4>. QED  BY <1>8, <2>9, <3>2, <4>1
    <3>4. \A k \in 1..Len(IssueOrder) : k < n[r] =>
            Synced(Shown(IssueOrder[k]), boards'[b].items[IssueOrder[k]])
      <4>1. \A k \in 1..Len(IssueOrder) : k < n[r] => k # n[r]
        BY <1>2
      <4>. QED  BY <1>8, <2>9, <3>2, <4>1
    <3>5. ItemsFresh(r)'
      <4>1. /\ \A j \in Issues : view[r].texts[j] = Shown(j)
            /\ \A g \in Fields : view[r].fields[g] = boards'[b].fields[g]
        BY <1>8, <2>3, <2>9
      <4>. QED  BY <1>4, <1>9, <2>0, <2>2, <3>1, <3>3, <3>4, <4>1 DEF ItemsFresh, Chosen, IssueAt
    <3>. QED  BY <2>2, <3>5 DEF FreshCore, LabelsFresh, SeedsFresh, FieldsFresh
  <2>. QED  BY <1>1, <1>3, <2>2, <2>4, <2>6, <2>7, <2>8, <2>9, MovedInv
<1>. QED  BY <1>7, <1>10, <1>11, <1>12

LEMMA ItemEndsInv == ASSUME IInv, NEW r \in Runs, ItemEnds(r) PROVE IInv'
<1>0. PICK i, b : i = IssueAt(r) /\ b = view[r].board
  OBVIOUS
<1>1. at[r] = "value" /\ Running(r) /\ Resumes(r, "item") /\ Reads /\ Differing(r) = {}
  BY DEF ItemEnds, Running, Resumes
<1>2. /\ PlacesOK /\ PlaceOK(r) /\ GithubOK /\ BoardsOK /\ n[r] \in Nat \ {0} /\ Lasting(r)
      /\ scenario \in Scenarios
  BY <1>1, RunFacts
<1>3. UNCHANGED <<label, seeded, text, boards, overtaken, scenario>> /\ UNCHANGED <<github, overtaken, scenario>>
  BY <1>1 DEF Reads, github, bounds
<1>4. /\ n[r] \in 1..Len(IssueOrder) /\ i \in Issues /\ b \in 1..Len(boards) /\ i = IssueOrder[n[r]]
      /\ boards[b].items[i].on
  <2>1. n[r] \in 1..Len(IssueOrder) /\ boards[b].items[i].on
    BY <1>0, <1>1, <1>2 DEF Lasting, Chosen
  <2>. QED  BY <1>0, <1>1, <1>2, <2>1, IssueList, ItemFacts DEF IssueAt
<1>5. /\ {"item", "value"} \subseteq StagesOf(Command(r)) /\ {"item", "value"} \subseteq Loops
      /\ \A g \in Fields : view[r].fields[g].kind # "absent" =>
           boards[b].fields[g].kind = view[r].fields[g].kind
      /\ \A j \in Issues : view[r].items[j].on => boards[b].items[j].on
  BY <1>0, <1>1, ItemFacts DEF Chosen
<1>6. Moved(r) /\ at'[r] = "item" /\ view'[r] = view[r] /\ n'[r] = n[r] + 1
  BY <1>1, <1>3, <1>5, ResumesMoved
<1>7. IssueOrder' = IssueOrder /\ Issues' = Issues /\ \A j : Shown(j)' = Shown(j)
  BY <1>3, SameListing
<1>8. Lasting(r)'
  BY <1>0, <1>3, <1>4, <1>5, <1>6, <1>7 DEF Lasting, Chosen
<1>9. ASSUME ~overtaken[r] PROVE FreshCore(r)'
  <2>1. /\ \A j \in Issues : view[r].texts[j] = Shown(j)
        /\ \A k \in 1..Len(IssueOrder) : k > n[r] =>
             view[r].items[IssueOrder[k]] = boards[b].items[IssueOrder[k]]
        /\ \A g \in Fields : view[r].fields[g] = boards[b].fields[g]
        /\ \A k \in 1..Len(IssueOrder) : k < n[r] =>
             Synced(Shown(IssueOrder[k]), boards[b].items[IssueOrder[k]])
        /\ view[r].values = boards[b].items[i].values
    BY <1>0, <1>1, <1>9, ItemFacts DEF ItemsFresh, Chosen, IssueAt
  <2>2. Synced(Shown(i), boards[b].items[i])
    <3>1. ASSUME NEW f \in Fields PROVE DesiredValue(Shown(i), f) \in {Leave, boards[b].items[i].values[f]}
      <4>1. PICK k \in 1..10 : f = FieldOrder[k]
        BY FieldList
      <4>2. PICK d : d = DesiredValue(view[r].texts[i], f)
        OBVIOUS
      <4>3. ~(d # Leave /\ (view[r].fields[f].kind = "absent" \/ d # view[r].values[f]))
        <5>1. k \in DOMAIN FieldOrder /\ k \notin Differing(r)
          BY <1>1, FieldList
        <5>. QED  BY <1>0, <4>1, <4>2, <5>1 DEF Differing, IssueAt
      <4>. QED  BY <1>4, <2>1, <4>2, <4>3
    <3>. QED  BY <1>4, <3>1 DEF Synced
  <2>3. \A k \in 1..Len(IssueOrder) : k < n[r] + 1 =>
          Synced(Shown(IssueOrder[k]), boards[b].items[IssueOrder[k]])
    <3>1. \A k \in 1..Len(IssueOrder) : k < n[r] + 1 => k < n[r] \/ k = n[r]
      BY <1>2
    <3>. QED  BY <1>4, <2>1, <2>2, <3>1
  <2>4. \A k \in 1..Len(IssueOrder) : k >= n[r] + 1 =>
          view[r].items[IssueOrder[k]] = boards[b].items[IssueOrder[k]]
    <3>1. \A k \in 1..Len(IssueOrder) : k >= n[r] + 1 => k > n[r]
      BY <1>2
    <3>. QED  BY <2>1, <3>1
  <2>5. ItemsFresh(r)'
    BY <1>0, <1>3, <1>6, <1>7, <2>1, <2>3, <2>4 DEF ItemsFresh, Chosen
  <2>. QED  BY <1>6, <2>5 DEF FreshCore, LabelsFresh, SeedsFresh, FieldsFresh
<1>. QED  BY <1>1, <1>2, <1>3, <1>6, <1>8, <1>9, NothingWritten, MovedInv

LEMMA StartInv == ASSUME IInv, NEW r \in Runs, Start(r) PROVE IInv'
<1>1. PlacesOK /\ GithubOK /\ scenario \in Scenarios
  BY RunFacts
<1>2. PICK p \in scenario.programs : program' = [program EXCEPT ![r] = p]
  BY DEF Start
<1>3. UNCHANGED <<github, scenario>> /\ overtaken' = [overtaken EXCEPT ![r] = FALSE]
  BY DEF Start
<1>4. p \in Seq(Commands) /\ Len(p) \in Nat \ {0} /\ p[1] \in Commands
  <2>1. p \in Seq(Commands) /\ p # <<>>
    BY <1>1, <1>2, BoardAssumption
  <2>2. Len(p) \in Nat \ {0}
    BY <2>1, EmptySeq, LenProperties
  <2>. QED  BY <2>1, <2>2, ElementOfSeq
<1>5. /\ program'[r] = p /\ step'[r] = 1 /\ n'[r] = 1 /\ at'[r] = FirstCall(p[1])
      /\ view'[r] = NoView /\ overtaken'[r] = FALSE /\ result'[r] = "none"
  BY <1>1, <1>2 DEF Start, PlacesOK
<1>6. MovesOnly(r)
  BY <1>1, <1>2 DEF Start, PlacesOK, MovesOnly, Same
<1>7. Warned(r)
  <2>1. /\ overtaken' = [q \in Runs |-> overtaken'[q]] /\ \A q \in Runs : overtaken'[q] \in BOOLEAN
        /\ \A q \in Runs \ {r} : overtaken[q] => overtaken'[q]
    BY <1>1, <1>3 DEF PlacesOK, PlaceOK
  <2>. QED  BY <1>3, <2>1 DEF Warned
<1>8. /\ at'[r] \in StagesOf(p[1]) /\ at'[r] \notin Loops
      /\ at'[r] \in {"list labels", "list seeds", "list projects", "find project"}
  BY <1>4, <1>5, FirstCallPlaced
<1>9. PlaceOK(r)'
  <2>1. program'[r] \in Seq(Commands) /\ step'[r] \in 1..Len(program'[r]) /\ n'[r] \in Nat \ {0} /\ n'[r] = 1
    BY <1>4, <1>5
  <2>2. overtaken'[r] \in BOOLEAN /\ IsView(view'[r])
    BY <1>5, NoViewIsView
  <2>3. Command(r)' = p[1]
    BY <1>5 DEF Command
  <2>. QED  BY <1>5, <1>8, <2>1, <2>2, <2>3 DEF PlaceOK
<1>10. Lasting(r)'
  BY <1>8 DEF Lasting, OnBoard
<1>11. Fresh(r)'
  <2>1. FreshCore(r)'
    BY <1>8 DEF FreshCore, LabelsFresh, SeedsFresh, FieldsFresh, ItemsFresh
  <2>2. ~ProjectDone(r)'
    BY <1>5 DEF ProjectDone
  <2>. QED  BY <2>1, <2>2 DEF Fresh, FreshCore
<1>12. Completes(r)'
  BY <1>5 DEF Completes
<1>. QED  BY <1>1, <1>3, <1>6, <1>7, <1>9, <1>10, <1>11, <1>12, NothingWritten, StepInv DEF Held

\* People give the items of a board an option of their own.
WritesOwn(b, f) ==
  boards' = [boards EXCEPT ![b] =
    [fields |-> [boards[b].fields EXCEPT ![f].options = @ \cup {"own"}],
     items |-> [i \in Issues |->
       [on |-> TRUE, values |-> [boards[b].items[i].values EXCEPT ![f] = "own"]]]]]

LEMMA PersonWrites ==
  ASSUME BoardsOK, NEW b \in 1..Len(boards), NEW f \in Fields, scenario' = scenario,
         boards[b].fields[f].kind = "select",
         WritesOwn(b, f)
  PROVE  /\ BoardsOK' /\ Len(boards)' = Len(boards)
         /\ \A c \in 1..Len(boards) : c # b => boards'[c] = boards[c]
         /\ boards'[b].fields[f].options = boards[b].fields[f].options \cup {"own"}
         /\ \A g \in Fields : boards'[b].fields[g].kind = boards[b].fields[g].kind
         /\ \A g \in Fields : g # f => boards'[b].fields[g] = boards[b].fields[g]
         /\ \A i \in Issues : boards'[b].items[i].on
<1>0. PICK own : own = boards[b].fields[f].options \cup {"own"}
  OBVIOUS
<1>. DEFINE F == [boards[b].fields EXCEPT ![f].options = own]
            V(i) == [boards[b].items[i].values EXCEPT ![f] = "own"]
            y(i) == [on |-> TRUE, values |-> V(i)]
            B == [fields |-> F, items |-> [i \in Issues |-> y(i)]]
<1>1. boards' = [boards EXCEPT ![b] = B]
  BY <1>0 DEF WritesOwn
<1>2. \A i \in Issues : IsItem(y(i)) /\ y(i).on
  <2>1. TAKE i \in Issues
  <2>2. boards[b].items[i].values = [g \in Fields |-> boards[b].items[i].values[g]]
    BY PartsOK, ItemParts
  <2>3. V(i) = [g \in Fields |-> V(i)[g]]
    BY <2>2
  <2>. HIDE DEF V
  <2>. QED  BY <2>3 DEF IsItem
<1>3. F = [g \in Fields |-> IF g = f THEN [kind |-> "select", options |-> own] ELSE boards[b].fields[g]]
  <2>1. boards[b].fields = [g \in Fields |-> boards[b].fields[g]]
    BY PartsOK, BoardParts
  <2>2. [boards[b].fields[f] EXCEPT !.options = own] = [kind |-> boards[b].fields[f].kind, options |-> own]
    <3>1. IsField(boards[b].fields[f])
      BY PartsOK
    <3>. QED  BY ONLY <3>1, FieldRecord DEF IsField
  <2>. QED  BY <2>1, <2>2
<1>4. \A g \in Fields : IsField(F[g])
  <2>1. IsField([kind |-> "select", options |-> own])
    BY DEF IsField
  <2>. HIDE DEF F
  <2>. QED  BY <1>3, <2>1, PartsOK
<1>5. IsBoard(B, Issues)
  <2>1. F = [g \in Fields |-> F[g]]
    BY <1>3
  <2>. HIDE DEF F, y
  <2>. QED  BY <1>2, <1>4, <2>1 DEF IsBoard
<1>. HIDE DEF F, y
<1>6. B.fields = F /\ B.items = [i \in Issues |-> y(i)]
  OBVIOUS
<1>. HIDE DEF B
<1>7. /\ BoardsOK' /\ Len(boards)' = Len(boards) /\ boards'[b] = B
      /\ \A c \in 1..Len(boards) : c # b => boards'[c] = boards[c]
  BY <1>1, <1>5, OneBoard
<1>8. /\ boards'[b].fields[f] = [kind |-> "select", options |-> own]
      /\ \A g \in Fields : g # f => boards'[b].fields[g] = boards[b].fields[g]
  <2>1. boards'[b].fields = F
    BY <1>6, <1>7
  <2>. QED  BY <1>3, <2>1
<1>. QED  BY <1>0, <1>2, <1>6, <1>7, <1>8

LEMMA PersonInv == ASSUME IInv, Person PROVE IInv'
<1>1. Shape /\ PlacesOK /\ GithubOK /\ BoardsOK /\ SeedsOK /\ \A q \in Runs : Held(q)
  BY DEF IInv, Shape, GithubOK
<1>2. UNCHANGED <<place, scenario>> /\ Overtakes({})
  BY DEF Person
<1>3. \A q \in Runs : Same(q)
  BY <1>2 DEF place, Same
<1>4. /\ overtaken' = [q \in Runs |-> overtaken'[q]]
      /\ \A q \in Runs : /\ overtaken'[q] \in BOOLEAN
                         /\ overtaken[q] => overtaken'[q]
                         /\ Running(q) => overtaken'[q]
  <2>1. overtaken' = [q \in Runs |-> overtaken[q] \/ (q \notin {} /\ Running(q))]
    BY <1>2 DEF Overtakes
  <2>2. \A q \in Runs : overtaken'[q] = (overtaken[q] \/ (q \notin {} /\ Running(q)))
    BY <2>1, Zenon
  <2>3. overtaken' = [q \in Runs |-> overtaken'[q]]
    BY <2>1, <2>2, Zenon
  <2>. QED  BY <2>2, <2>3
<1>5. PlacesOK'
  <2>1. ASSUME NEW q \in Runs PROVE PlaceOK(q)'
    <3>1. PlaceOK(q) /\ Same(q) /\ overtaken'[q] \in BOOLEAN
      BY <1>1, <1>3, <1>4 DEF PlacesOK
    <3>. QED  BY <3>1 DEF Same, PlaceOK, Running, Command
  <2>. QED  BY <1>1, <1>2, <1>4, <2>1 DEF PlacesOK, place
<1>6. SUFFICES GithubOK' /\ Grows
  <2>1. ASSUME GithubOK', Grows, NEW q \in Runs PROVE Held(q)'
    <3>1. Shape'
      BY <1>5, <2>1 DEF Shape
    <3>. QED  BY <1>1, <1>2, <1>3, <1>4, <2>1, <3>1, Frame
  <2>. QED  BY <1>5, <2>1 DEF IInv, Shape
<1>7. CASE (\E l \in Labels, x \in {"absent", "drifted"} : label' = [label EXCEPT ![l] = x])
           /\ UNCHANGED <<seeded, text, boards>>
  <2>1. GithubOK'
    BY <1>1, <1>2, <1>7 DEF GithubOK, SeedsOK, BoardsOK, Issues
  <2>. QED  BY <1>1, <1>7, <2>1 DEF Grows, Copies, BoardsOK
<1>8. ASSUME UNCHANGED <<label, text, boards>>, NEW t \in ToSet(Titles), seeded[t].open > 0,
             seeded' = [seeded EXCEPT ![t] = [open |-> @.open - 1, closed |-> @.closed + 1]]
      PROVE  GithubOK' /\ Grows
  <2>1. seeded[t].open \in Nat /\ seeded[t].closed \in Nat
    BY <1>1 DEF SeedsOK
  <2>2. /\ seeded'[t] = [open |-> seeded[t].open - 1, closed |-> seeded[t].closed + 1]
        /\ seeded' = [u \in ToSet(Titles) |-> seeded'[u]]
        /\ \A u \in ToSet(Titles) : u # t => seeded'[u] = seeded[u]
    BY <1>1, <1>8 DEF SeedsOK
  <2>3. seeded'[t].open \in Nat /\ seeded'[t].closed \in Nat /\ seeded'[t].open + seeded'[t].closed > 0
    BY <1>8, <2>1, <2>2
  <2>4. SeedsOK'
    BY <1>1, <2>2, <2>3 DEF SeedsOK
  <2>5. \A u \in ToSet(Titles) : Copies(u) > 0 => Copies(u)' > 0
    BY <2>2, <2>3 DEF Copies
  <2>6. GithubOK'
    BY <1>1, <1>2, <1>8, <2>4 DEF GithubOK, BoardsOK, Issues
  <2>. QED  BY <1>1, <1>8, <2>5, <2>6 DEF Grows, BoardsOK
<1>9. ASSUME UNCHANGED <<label, seeded, text>>, NEW b \in DOMAIN boards, NEW f \in Fields,
             boards[b].fields[f].kind = "select", WritesOwn(b, f)
      PROVE  GithubOK' /\ Grows
  <2>1. b \in 1..Len(boards)
    BY <1>1, <1>9 DEF BoardsOK
  <2>2. /\ BoardsOK' /\ Len(boards)' = Len(boards)
        /\ \A c \in 1..Len(boards) : c # b => boards'[c] = boards[c]
        /\ \A g \in Fields : boards'[b].fields[g].kind = boards[b].fields[g].kind
        /\ \A i \in Issues : boards'[b].items[i].on
    BY <1>1, <1>2, <1>9, <2>1, PersonWrites
  <2>3. GithubOK'
    BY <1>1, <1>2, <1>9, <2>2 DEF GithubOK, SeedsOK, Issues
  <2>. QED  BY <1>1, <1>9, <2>2, <2>3 DEF Grows, Copies, BoardsOK
<1>10. CASE (\E i \in Issues : text' = [text EXCEPT ![i] = @ + 1]) /\ UNCHANGED <<label, seeded, boards>>
  <2>1. GithubOK'
    BY <1>1, <1>2, <1>10 DEF GithubOK, SeedsOK, BoardsOK, Issues
  <2>. QED  BY <1>1, <1>10, <2>1 DEF Grows, Copies, BoardsOK
<1>. QED  BY <1>7, <1>8, <1>9, <1>10 DEF Person, WritesOwn

LEMMA InitInv == ASSUME Init PROVE IInv
<1>. USE DEF Init
<1>1. BoardsOK
  <2>1. /\ boards = [k \in 1..Len(boards) |-> boards[k]] /\ Len(boards) \in Nat
        /\ \A k \in DOMAIN boards : IsBoard(boards[k], Issues)
    BY BoardAssumption DEF Issues
  <2>. QED  BY <2>1 DEF BoardsOK
<1>2. SeedsOK
  BY DEF SeedsOK
<1>3. label = [l \in Labels |-> label[l]]
  BY BoardAssumption
<1>4. GithubOK
  BY <1>1, <1>2, <1>3 DEF GithubOK
<1>5. PlacesOK
  <2>1. ASSUME NEW r \in Runs PROVE PlaceOK(r)
    <3>1. program[r] = <<"labels">> /\ step[r] = 1 /\ n[r] = 1 /\ at[r] = "idle"
          /\ view[r] = NoView /\ overtaken[r] = FALSE /\ result[r] = "none"
      OBVIOUS
    <3>2. program[r] \in Seq(Commands) /\ step[r] \in 1..Len(program[r])
      BY <3>1 DEF Commands
    <3>3. IsView(view[r])
      BY <3>1, NoViewIsView
    <3>. QED  BY <3>1, <3>2, <3>3 DEF PlaceOK, Running
  <2>. QED  BY <2>1 DEF PlacesOK
<1>6. \A r \in Runs : Held(r)
  BY DEF Held, Lasting, Fresh, Completes, Running, OnBoard
<1>. QED  BY <1>4, <1>5, <1>6 DEF IInv, Shape

-----------------------------------------------------------------------------
(* The specification                                                        *)

LEMMA NextInv == ASSUME IInv, Next PROVE IInv'
<1>1. ASSUME NEW r \in Runs, RunStep(r) PROVE IInv'
  BY <1>1, StartInv, CallFailsInv, ListLabelsInv, SyncLabelInv, LabelsEndInv, ListSeedsInv,
     CreateSeedInv, SeedsEndInv, ListProjectsInv, CreateProjectInv, LinkInv, ListFieldsInv,
     SyncFieldInv, UpdateOptionsInv, FieldsEndInv, FindProjectInv, ListIssuesInv, ListItemsInv,
     SyncItemInv, SetValueInv, ItemEndsInv, ItemsEndInv DEF RunStep
<1>. QED  BY <1>1, PersonInv DEF Next

LEMMA StutterInv == ASSUME IInv, UNCHANGED vars PROVE IInv'
<1>1. Shape /\ PlacesOK /\ GithubOK /\ \A q \in Runs : Held(q)
  BY DEF IInv, Shape
<1>2. UNCHANGED <<github, place, overtaken, scenario>>
  BY DEF vars, bounds
<1>3. \A q \in Runs : Same(q)
  BY <1>2 DEF place, Same
<1>4. PlacesOK'
  BY <1>1, <1>2 DEF place, PlacesOK, PlaceOK, Running, Command
<1>5. Shape' /\ Grows
  BY <1>1, <1>2, <1>4, NothingWritten DEF Shape
<1>. QED  BY <1>1, <1>2, <1>3, <1>5, Frame DEF IInv

\* The inductive invariant: what runs have read lasts or is fresh, and what
\* project has prepared stays prepared (scripts/github_agent_os.py).
THEOREM WorkIsHeld == Spec => []IInv
<1>1. Init => IInv
  BY InitInv
<1>2. IInv /\ [Next]_vars => IInv'
  BY NextInv, StutterInv
<1>. QED  BY <1>1, <1>2, PTL DEF Spec

\* A command that gets to its end without having been overtaken has brought
\* about all it is for: the labels of labels.json, an issue of every title, the
\* fields and options of project.json, and every value that can be derived.
THEOREM FinishedIsAlwaysSynced == Spec => []FinishedIsSynced
<1>1. IInv => FinishedIsSynced
  <2>. SUFFICES ASSUME IInv, NEW r \in Runs, ~overtaken[r]
       PROVE /\ (at[r] = "label" /\ Command(r) = "labels" /\ n[r] > Len(LabelOrder)) =>
                  \A l \in Labels : label[l] = "right"
             /\ (at[r] = "seed" /\ n[r] > Len(Titles)) => \A t \in ToSet(Titles) : Copies(t) > 0
             /\ (at[r] = "field" /\ n[r] > Len(FieldOrder)) =>
                  \A f \in Fields : LET field == boards[view[r].board].fields[f] IN
                    field.kind # "absent" /\ Manifest[f] \subseteq field.options
             /\ (at[r] = "item" /\ n[r] > Len(IssueOrder)) =>
                  \A i \in Listed : Admissible(TextOf(i)) =>
                    LET item == boards[view[r].board].items[i] IN
                    item.on /\ \A f \in Fields : DesiredValue(TextOf(i), f) \in {Leave, item.values[f]}
    BY DEF FinishedIsSynced
  <2>1. /\ n[r] \in Nat /\ scenario \in Scenarios /\ Lasting(r)
        /\ Running(r) => LabelsFresh(r) /\ SeedsFresh(r) /\ FieldsFresh(r) /\ ItemsFresh(r)
    BY RunFacts
  <2>2. \A m \in Nat : n[r] > m => \A k \in 1..m : k < n[r]
    BY <2>1
  <2>3. ASSUME at[r] = "label", Command(r) = "labels", n[r] > Len(LabelOrder), NEW l \in Labels
        PROVE  label[l] = "right"
    BY <2>1, <2>2, <2>3, LabelList DEF Running, LabelsFresh
  <2>4. ASSUME at[r] = "seed", n[r] > Len(Titles), NEW t \in ToSet(Titles) PROVE Copies(t) > 0
    BY <2>1, <2>2, <2>4, TitleList DEF Lasting
  <2>5. ASSUME at[r] = "field", n[r] > Len(FieldOrder), NEW f \in Fields
        PROVE  boards[view[r].board].fields[f].kind # "absent"
               /\ Manifest[f] \subseteq boards[view[r].board].fields[f].options
    <3>1. PICK k \in 1..10 : f = FieldOrder[k]
      BY FieldList
    <3>2. k < n[r]
      BY <2>2, <2>5, FieldList
    <3>. QED  BY <2>1, <2>5, <3>1, <3>2 DEF Running, FieldsFresh, Prepared, Chosen
  <2>6. ASSUME at[r] = "item", n[r] > Len(IssueOrder), NEW i \in Listed, Admissible(TextOf(i))
        PROVE  /\ boards[view[r].board].items[i].on
               /\ \A f \in Fields : DesiredValue(TextOf(i), f) \in {Leave, boards[view[r].board].items[i].values[f]}
    <3>0. Shown(i) = TextOf(i) /\ Included(TextOf(i))
      BY <2>6 DEF Shown, Listed, Included
    <3>1. PICK k \in 1..Len(IssueOrder) : i = IssueOrder[k]
      BY <2>1, IssueList DEF Listed
    <3>2. k < n[r]
      BY <2>1, <2>2, <2>6, IssueList
    <3>3. Synced(TextOf(i), boards[view[r].board].items[i])
      BY <2>1, <2>6, <3>0, <3>1, <3>2 DEF Running, ItemsFresh, Chosen
    <3>. QED  BY <3>0, <3>3 DEF Synced
  <2>. QED  BY <2>3, <2>4, <2>5, <2>6
<1>. QED  BY <1>1, WorkIsHeld, PTL

\* A setup whose project command returned 0 is not refused by project-items
\* unless somebody changed something in between, or there was a second board or
\* a select field in the place of a text field.
THEOREM SetupAlwaysCompletes == Spec => []SetupCompletes
<1>1. IInv => SetupCompletes
  BY DEF IInv, Held, Completes, ProjectDone, SetupCompletes
<1>. QED  BY <1>1, WorkIsHeld, PTL

\* What a step does to the number of boards, and to their options.
OptionsGrow ==
  \A b \in 1..Len(boards), f \in Fields :
    boards[b].fields[f].options \subseteq boards'[b].fields[f].options

LEMMA SameLength ==
  ASSUME BoardsOK, NEW b, NEW B, boards' = [boards EXCEPT ![b] = B]
  PROVE  Len(boards)' = Len(boards) /\ \A c \in 1..Len(boards) : c # b => boards'[c] = boards[c]
<1>1. /\ DOMAIN boards' = 1..Len(boards) /\ Len(boards) \in Nat
      /\ \A c \in 1..Len(boards) : c # b => boards'[c] = boards[c]
      /\ boards' = [c \in 1..Len(boards) |-> boards'[c]]
  BY DEF BoardsOK
<1>2. Len(boards)' = Len(boards)
  <2>. DEFINE S == {boards'[c] : c \in 1..Len(boards)}
  <2>1. boards' \in [1..Len(boards) -> S]
    BY <1>1
  <2>. HIDE DEF S
  <2>2. boards' \in Seq(S)
    <3>1. Seq(S) = UNION {[1..m -> S] : m \in Nat}
      BY SeqDef
    <3>. QED  BY <1>1, <2>1, <3>1, Zenon
  <2>. QED  BY <1>1, <2>2
<1>. QED  BY <1>1, <1>2

\* Boards are added by the first of these calls alone, options lost to the
\* second alone.
LEMMA BoardsStep ==
  ASSUME IInv, Next, \A r \in Runs : ~CreateProject(r) /\ ~UpdateOptions(r)
  PROVE  Len(boards)' = Len(boards) /\ OptionsGrow
<1>1. BoardsOK
  BY DEF IInv, Shape, GithubOK
<1>2. CASE UNCHANGED boards
  BY <1>2 DEF OptionsGrow
<1>3. ASSUME NEW r \in Runs, SyncField(r) PROVE Len(boards)' = Len(boards) /\ OptionsGrow
  <2>1. PICK f, b : f = FieldOrder[n[r]] /\ b = view[r].board
    OBVIOUS
  <2>2. \/ boards[b].fields[f].kind = "absent" /\ boards' = [boards EXCEPT ![b].fields[f] = Wanted(f)]
        \/ UNCHANGED boards
    BY <1>3, <2>1 DEF SyncField
  <2>3. CASE boards[b].fields[f].kind = "absent" /\ boards' = [boards EXCEPT ![b].fields[f] = Wanted(f)]
    <3>1. PICK B : B = [boards[b] EXCEPT !.fields[f] = Wanted(f)]
      OBVIOUS
    <3>2. boards' = [boards EXCEPT ![b] = B]
      BY <2>3, <3>1
    <3>3. /\ Len(boards)' = Len(boards)
          /\ \A c \in 1..Len(boards) : c # b => boards'[c] = boards[c]
      BY <1>1, <3>2, SameLength
    <3>4. ASSUME b \in 1..Len(boards), NEW g \in Fields
          PROVE  boards[b].fields[g].options \subseteq boards'[b].fields[g].options
      <4>1. boards[b].fields[f].kind = "absent" /\ IsField(boards[b].fields[g])
        BY <1>1, <2>3, <3>4, PartsOK
      <4>2. boards'[b] = B
        BY <1>1, <3>2, <3>4 DEF BoardsOK
      <4>3. boards[b] = [fields |-> boards[b].fields, items |-> boards[b].items]
            /\ boards[b].fields = [h \in Fields |-> boards[b].fields[h]]
        BY <1>1, <3>4, PartsOK, BoardParts
      <4>4. g # f => boards'[b].fields[g] = boards[b].fields[g]
        BY <3>1, <4>2, <4>3
      <4>. QED  BY <4>1, <4>4 DEF IsField
    <3>. QED  BY <3>3, <3>4 DEF OptionsGrow
  <2>. QED  BY <1>2, <2>2, <2>3
<1>4. ASSUME NEW r \in Runs, SyncItem(r) PROVE Len(boards)' = Len(boards) /\ OptionsGrow
  <2>1. PICK i, b : i = IssueOrder[n[r]] /\ b = view[r].board
    OBVIOUS
  <2>2. boards' = [boards EXCEPT ![b].items[i].on = TRUE] \/ UNCHANGED boards
    BY <1>4, <2>1 DEF SyncItem
  <2>3. CASE boards' = [boards EXCEPT ![b].items[i].on = TRUE]
    <3>1. PICK B : B = [boards[b] EXCEPT !.items[i].on = TRUE]
      OBVIOUS
    <3>2. boards' = [boards EXCEPT ![b] = B]
      BY <2>3, <3>1
    <3>3. /\ Len(boards)' = Len(boards)
          /\ \A c \in 1..Len(boards) : c # b => boards'[c] = boards[c]
      BY <1>1, <3>2, SameLength
    <3>4. ASSUME b \in 1..Len(boards) PROVE boards'[b].fields = boards[b].fields
      <4>1. boards[b] = [fields |-> boards[b].fields, items |-> boards[b].items]
        BY <1>1, <3>4, PartsOK, BoardParts
      <4>2. boards'[b] = B
        BY <1>1, <3>2, <3>4 DEF BoardsOK
      <4>. QED  BY <3>1, <4>1, <4>2
    <3>. QED  BY <3>3, <3>4 DEF OptionsGrow
  <2>. QED  BY <1>2, <2>2, <2>3
<1>5. ASSUME NEW r \in Runs, SetValue(r) PROVE Len(boards)' = Len(boards) /\ OptionsGrow
  <2>1. PICK i, b, f, d : i = IssueOrder[n[r]] /\ b = view[r].board
          /\ f = FieldOrder[Min(Differing(r))] /\ d = DesiredValue(view[r].texts[i], f)
    OBVIOUS
  <2>2. boards' = [boards EXCEPT ![b].items[i].values[f] = d] \/ UNCHANGED boards
    BY <1>5, <2>1 DEF SetValue
  <2>3. CASE boards' = [boards EXCEPT ![b].items[i].values[f] = d]
    <3>1. PICK B : B = [boards[b] EXCEPT !.items[i].values[f] = d]
      OBVIOUS
    <3>2. boards' = [boards EXCEPT ![b] = B]
      BY <2>3, <3>1
    <3>3. /\ Len(boards)' = Len(boards)
          /\ \A c \in 1..Len(boards) : c # b => boards'[c] = boards[c]
      BY <1>1, <3>2, SameLength
    <3>4. ASSUME b \in 1..Len(boards) PROVE boards'[b].fields = boards[b].fields
      <4>1. boards[b] = [fields |-> boards[b].fields, items |-> boards[b].items]
        BY <1>1, <3>4, PartsOK, BoardParts
      <4>2. boards'[b] = B
        BY <1>1, <3>2, <3>4 DEF BoardsOK
      <4>. QED  BY <3>1, <4>1, <4>2
    <3>. QED  BY <3>3, <3>4 DEF OptionsGrow
  <2>. QED  BY <1>2, <2>2, <2>3
<1>6. ASSUME Person PROVE Len(boards)' = Len(boards) /\ OptionsGrow
  <2>1. ASSUME NEW b \in DOMAIN boards, NEW f \in Fields, scenario' = scenario,
               boards[b].fields[f].kind = "select", WritesOwn(b, f)
        PROVE  Len(boards)' = Len(boards) /\ OptionsGrow
    <3>1. b \in 1..Len(boards)
      BY <1>1, <2>1 DEF BoardsOK
    <3>2. /\ Len(boards)' = Len(boards)
          /\ \A c \in 1..Len(boards) : c # b => boards'[c] = boards[c]
          /\ boards'[b].fields[f].options = boards[b].fields[f].options \cup {"own"}
          /\ \A g \in Fields : g # f => boards'[b].fields[g] = boards[b].fields[g]
      BY ONLY <1>1, <2>1, <3>1, PersonWrites
    <3>3. \A g \in Fields : boards[b].fields[g].options \subseteq boards'[b].fields[g].options
      BY <3>2
    <3>4. ASSUME NEW c \in 1..Len(boards), NEW g \in Fields
          PROVE  boards[c].fields[g].options \subseteq boards'[c].fields[g].options
      BY <3>2, <3>3
    <3>. QED  BY <3>2, <3>4 DEF OptionsGrow
  <2>2. scenario' = scenario
    BY <1>6 DEF Person
  <2>. QED  BY <1>2, <1>6, <2>1, <2>2 DEF Person, WritesOwn
<1>7. ASSUME NEW r \in Runs, RunStep(r) PROVE Len(boards)' = Len(boards) /\ OptionsGrow
  <2>1. UNCHANGED boards \/ SyncField(r) \/ SyncItem(r) \/ SetValue(r)
    BY <1>7 DEF RunStep, Start, CallFails, ListLabels, SyncLabel, LabelsEnd, ListSeeds, CreateSeed,
                SeedsEnd, ListProjects, Link, ListFields, FieldsEnd, FindProject, ListIssues,
                ListItems, ItemEnds, ItemsEnd, Reads, github
  <2>. QED  BY <1>2, <1>3, <1>4, <1>5, <1>7, <2>1
<1>. QED  BY <1>6, <1>7 DEF Next

\* Only seed-issues adds an issue, one its list lacks.
LEMMA SeedsStep ==
  ASSUME IInv, Next, NEW t \in ToSet(Titles), Copies(t)' > Copies(t)
  PROVE  \E r \in Runs : CreateSeed(r) /\ t = Titles[n[r]] /\ t \notin view[r].titles
<1>1. SeedsOK
  BY DEF IInv, Shape, GithubOK
<1>2. ASSUME NEW c \in ToSet(Titles), seeded[c].open > 0,
             seeded' = [seeded EXCEPT ![c] = [open |-> @.open - 1, closed |-> @.closed + 1]]
      PROVE  FALSE
  <2>1. seeded[c].open \in Nat /\ seeded[c].closed \in Nat
    BY <1>1 DEF SeedsOK
  <2>2. /\ seeded'[c] = [open |-> seeded[c].open - 1, closed |-> seeded[c].closed + 1]
        /\ \A u \in ToSet(Titles) : u # c => seeded'[u] = seeded[u]
    BY <1>1, <1>2 DEF SeedsOK
  <2>3. Copies(t)' = Copies(t)
    BY <2>1, <2>2 DEF Copies
  <2>4. Copies(t) \in Nat
    BY <1>1 DEF SeedsOK, Copies
  <2>. QED  BY <2>3, <2>4
<1>3. ASSUME UNCHANGED seeded PROVE FALSE
  <2>1. Copies(t)' = Copies(t) /\ Copies(t) \in Nat
    BY <1>1, <1>3 DEF SeedsOK, Copies
  <2>. QED  BY <2>1
<1>4. ~Person
  BY <1>2, <1>3 DEF Person
<1>5. PICK r \in Runs : RunStep(r)
  BY <1>4 DEF Next
<1>6. CreateSeed(r)
  BY <1>3, <1>5 DEF RunStep, Start, CallFails, ListLabels, SyncLabel, LabelsEnd, ListSeeds,
       SeedsEnd, ListProjects, CreateProject, Link, ListFields, SyncField, UpdateOptions, FieldsEnd,
       FindProject, ListIssues, ListItems, SyncItem, SetValue, ItemEnds, ItemsEnd, Reads, github
<1>7. PICK c : c = Titles[n[r]]
  OBVIOUS
<1>8. c \notin view[r].titles /\ seeded' = [seeded EXCEPT ![c].open = @ + 1]
  BY <1>3, <1>6, <1>7 DEF CreateSeed
<1>9. c = t
  <2>1. ASSUME c # t PROVE seeded'[t] = seeded[t]
    BY <1>1, <1>8, <2>1 DEF SeedsOK
  <2>. QED  BY <1>1, <2>1 DEF SeedsOK, Copies
<1>. QED  BY <1>6, <1>7, <1>8, <1>9

\* A second issue or board of one title is made only by a run that was
\* overtaken after it had listed what there is: no rerun makes one.
THEOREM DuplicatesAlwaysNeedOverlap == Spec => DuplicatesNeedOverlap
<1>. DEFINE NoSecondIssue ==
              \A t \in ToSet(Titles) : (Copies(t) > 0 /\ Copies(t)' > Copies(t)) =>
                \E r \in Runs : at[r] = "seed" /\ n'[r] # n[r] /\ overtaken[r]
            NoSecondBoard ==
              (boards # <<>> /\ Len(boards') > Len(boards)) =>
                \E r \in Runs : at[r] = "create project" /\ at'[r] # at[r] /\ overtaken[r]
<1>1. ASSUME IInv, Next PROVE NoSecondIssue
  <2>. SUFFICES ASSUME NEW t \in ToSet(Titles), Copies(t) > 0, Copies(t)' > Copies(t)
                PROVE  \E r \in Runs : at[r] = "seed" /\ n'[r] # n[r] /\ overtaken[r]
    OBVIOUS
  <2>1. PICK r \in Runs : CreateSeed(r) /\ t = Titles[n[r]] /\ t \notin view[r].titles
    BY <1>1, SeedsStep
  <2>2. at[r] = "seed" /\ n[r] <= Len(Titles) /\ Advances(r)
    BY <2>1 DEF CreateSeed
  <2>3. PlacesOK /\ n[r] \in Nat \ {0} /\ (~overtaken[r] => SeedsFresh(r))
    BY <1>1, <2>2, RunFacts DEF Running
  <2>4. n'[r] # n[r]
    <3>1. n'[r] = n[r] + 1
      BY <2>2, <2>3, AdvancesPlace
    <3>. QED  BY <2>3, <3>1
  <2>5. overtaken[r]
    <3>. SUFFICES ASSUME ~overtaken[r] PROVE FALSE
      OBVIOUS
    <3>1. PICK k \in 1..Len(Titles) : k < n[r] /\ Titles[k] = t
      BY <2>1, <2>2, <2>3 DEF SeedsFresh
    <3>2. n[r] \in 1..Len(Titles)
      BY <2>2, <2>3, TitleList
    <3>. QED  BY <2>1, <2>3, <3>1, <3>2, TitleList
  <2>. QED  BY <2>2, <2>4, <2>5
<1>2. ASSUME IInv, Next PROVE NoSecondBoard
  <2>. SUFFICES ASSUME boards # <<>>, Len(boards') > Len(boards)
                PROVE  \E r \in Runs : at[r] = "create project" /\ at'[r] # at[r] /\ overtaken[r]
    OBVIOUS
  <2>1. BoardsOK /\ Len(boards) \in Nat
    BY <1>2 DEF IInv, Shape, GithubOK, BoardsOK
  <2>2. PICK r \in Runs : CreateProject(r) \/ UpdateOptions(r)
    BY <1>2, <2>1, BoardsStep
  <2>3. ~UpdateOptions(r)
    <3>. SUFFICES ASSUME UpdateOptions(r) PROVE FALSE
      OBVIOUS
    <3>1. \E b, B : boards' = [boards EXCEPT ![b] = B]
      BY DEF UpdateOptions, SetOptions
    <3>. QED  BY <2>1, <3>1, SameLength
  <2>4. at[r] = "create project" /\ Goes(r, "link", [view[r] EXCEPT !.board = Len(boards) + 1])
    BY <2>2, <2>3 DEF CreateProject
  <2>5. PlacesOK /\ (~overtaken[r] => FieldsFresh(r))
    BY <1>2, <2>4, RunFacts DEF Running
  <2>6. at'[r] = "link"
    BY <2>4, <2>5, GoesPlace
  <2>. QED  BY <2>4, <2>5, <2>6 DEF FieldsFresh
<1>3. IInv /\ [Next]_vars => [NoSecondIssue /\ NoSecondBoard]_vars
  BY <1>1, <1>2
<1>. QED  BY <1>3, WorkIsHeld, PTL DEF Spec, DuplicatesNeedOverlap

\* An option of a field, whoever made it, is taken away only by a run that was
\* overtaken after it had read the field's options.
THEOREM OptionsAreAlwaysKept == Spec => OptionsKept
<1>. DEFINE Keeps ==
       \A b \in DOMAIN boards, f \in Fields :
         ~(boards[b].fields[f].options \subseteq boards'[b].fields[f].options) =>
           \E r \in Runs : at[r] = "options" /\ at'[r] # at[r] /\ overtaken[r]
<1>1. ASSUME IInv, Next PROVE Keeps
  <2>1. BoardsOK /\ DOMAIN boards = 1..Len(boards)
    BY <1>1 DEF IInv, Shape, GithubOK, BoardsOK
  <2>2. CASE \A r \in Runs : ~CreateProject(r) /\ ~UpdateOptions(r)
    BY <1>1, <2>1, <2>2, BoardsStep DEF OptionsGrow
  <2>3. ASSUME NEW r \in Runs, CreateProject(r) PROVE Keeps
    <3>1. boards' = Append(boards, NewBoard) /\ scenario' = scenario
      BY <2>3 DEF CreateProject, bounds
    <3>2. \A c \in 1..Len(boards) : boards'[c] = boards[c]
      BY <2>1, <3>1, NewBoardOK, AddBoard
    <3>. QED  BY <2>1, <3>2
  <2>4. ASSUME NEW r \in Runs, UpdateOptions(r) PROVE Keeps
    <3>1. PICK f, b, options :
            f = FieldAt(r) /\ b = view[r].board /\ options = view[r].options \cup Manifest[f]
      OBVIOUS
    <3>2. at[r] = "options" /\ Resumes(r, "field") /\ SetOptions(b, f, options) /\ scenario' = scenario
      BY <2>4, <3>1 DEF UpdateOptions, Resumes, FieldAt, bounds
    <3>3. PlacesOK /\ Lasting(r) /\ (~overtaken[r] => FieldsFresh(r))
      BY <1>1, <3>2, RunFacts DEF Running
    <3>4. f \in Fields /\ b \in 1..Len(boards) /\ boards[b].fields[f].kind # "absent"
      BY <3>1, <3>2, <3>3, FieldList DEF Lasting, OnBoard, Chosen, FieldAt
    <3>5. /\ \A c \in 1..Len(boards) : c # b => boards'[c] = boards[c]
          /\ boards'[b].fields[f] = [kind |-> boards[b].fields[f].kind, options |-> options]
          /\ \A g \in Fields : g # f => boards'[b].fields[g] = boards[b].fields[g]
      BY <2>1, <3>2, <3>4, WriteOptions
    <3>6. at'[r] = "field"
      BY <3>2, <3>3, ResumesPlace
    <3>7. ~overtaken[r] => boards[b].fields[f].options \subseteq boards'[b].fields[f].options
      <4>1. ~overtaken[r] => view[r].options = boards[b].fields[f].options
        BY <3>1, <3>2, <3>3 DEF FieldsFresh, Chosen, FieldAt
      <4>2. boards'[b].fields[f].options = options
        BY <3>5
      <4>. QED  BY <3>1, <4>1, <4>2
    <3>. QED  BY <2>1, <3>2, <3>5, <3>6, <3>7
  <2>. QED  BY <2>2, <2>3, <2>4
<1>2. IInv /\ [Next]_vars => [Keeps]_vars
  BY <1>1
<1>. QED  BY <1>2, WorkIsHeld, PTL DEF Spec, OptionsKept
=============================================================================
