------------------------ MODULE MCConcurrentRunner ------------------------
(***************************************************************************)
(* Small projects for ConcurrentRunner.  Each has a shape one of the       *)
(* repository's scheduler tests builds, or one no test builds.             *)
(***************************************************************************)
EXTENDS ConcurrentRunner

\* A project from its node dependencies and its tests' dependencies.
Project(nodes, tests, kinds, ephemeral, target, jobs) ==
  [nodes |-> DOMAIN nodes, ephemeral |-> ephemeral, target |-> target, jobs |-> jobs,
   deps |-> [r \in DOMAIN nodes \cup DOMAIN tests |->
               IF r \in DOMAIN nodes THEN nodes[r] ELSE tests[r]],
   kind |-> [r \in DOMAIN nodes \cup DOMAIN tests |->
               IF r \in DOMAIN nodes THEN "node" ELSE kinds[r]]]

None == [r \in {} |-> {}]

\* Model b reads a; a has a generic test, b a unit test.
Chain ==
  Project([a |-> {"src"}, b |-> {"a"}],
          [t |-> {"a"}, u |-> {"b"}], [t |-> "generic", u |-> "unit"],
          {}, [t |-> "a", u |-> "b"], <<"a", "b", "t", "u">>)

\* c reads a through two ephemeral models; d is independent.
ThroughEphemerals ==
  Project([a |-> {}, e1 |-> {"a"}, e2 |-> {"e1"}, c |-> {"e2"}, d |-> {}],
          [t |-> {"a"}], [t |-> "generic"],
          {"e1", "e2"}, [t |-> "a"], <<"c", "a", "d", "t">>)

\* A singular test reads a and its descendant b; c reads a only.
MultiParent ==
  Project([a |-> {}, b |-> {"a"}, c |-> {"a"}],
          [s |-> {"a", "b"}], [s |-> "singular"],
          {}, None, <<"a", "b", "c", "s">>)

\* Two unit tests of an unselected model gate the model below it.
SiblingUnits ==
  Project([b |-> {}, c |-> {"b"}, d |-> {}],
          [u |-> {"b"}, v |-> {"b"}], [u |-> "unit", v |-> "unit"],
          {}, [u |-> "b", v |-> "b"], <<"c", "d", "u", "v">>)

\* A relationships test is attached to a and also reads x, which y reads.
Relationship ==
  Project([a |-> {}, x |-> {}, y |-> {"x"}],
          [r |-> {"a", "x"}], [r |-> "generic"],
          {}, [r |-> "a"], <<"a", "x", "y", "r">>)

\* Two branches, and two tests that each read one branch's end and the
\* other's beginning.
Crossing ==
  Project([a |-> {}, b |-> {}, c |-> {"a"}, d |-> {"b"}],
          [s |-> {"a", "d"}, t |-> {"b", "c"}], [s |-> "singular", t |-> "singular"],
          {}, None, <<"a", "b", "c", "d", "s", "t">>)

\* Compilation also runs the ephemeral models a selection names.
CompileEphemerals == [ThroughEphemerals EXCEPT !.jobs = <<"c", "e1", "a", "t">>]

\* The same tests without the models they read: nothing can ever start.
CrossingSelected == [Crossing EXCEPT !.jobs = <<"c", "d", "s", "t">>]

BuildProjects == {Chain, ThroughEphemerals, MultiParent, SiblingUnits, Relationship}
AllProjects == BuildProjects \cup {CompileEphemerals}
UnitProjects == {SiblingUnits}
CrossingProjects == {Crossing}
LiveProjects == BuildProjects \cup {CrossingSelected}
=============================================================================
