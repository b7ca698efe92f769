-------------------------- MODULE ReleasePipeline --------------------------
(***************************************************************************)
(* From a pull request to the downloads of a release.  CI runs collect a   *)
(* plan, execute its shards and certify the source tree they tested        *)
(* (.github/workflows/ci.yml); pull requests are merged; a tag is pushed,   *)
(* and may be moved; release runs qualify the tag's tree against the       *)
(* certificates, package every target and publish                          *)
(* (scripts/release_workflow.py, package_release.py, release.yml).         *)
(*                                                                         *)
(* A tree is the set of the pull request heads merged into it.  GitHub     *)
(* queues the release runs of a tag: one is active at a time; a failed job *)
(* may be run again with what the jobs before it have left.                *)
(***************************************************************************)
EXTENDS ReleaseArchives

CONSTANTS
  Prs,            \* pull requests
  ReleasePr,      \* the one that sets the version the tag names
  Suite,          \* the test cases, in collection order
  Partial,        \* what a runner without all requirements collects
  ShardCount, Weights, Runtime,
  Archives, Content,   \* what a build may yield, and what it holds
  MaxReleases,    \* bound: release runs
  Scopes          \* bounds of a behaviour: its heads, CI runs, tags, release runs and
                  \* interruptions, and what may happen: CI runs that go wrong,
                  \* records that expire, CI runs while a release run is active

ASSUME PipelineAssumption ==
  /\ ReleasePr \in Prs /\ Suite # <<>> /\ ShardCount \in Nat \ {0}
  /\ {Suite, Partial} \subseteq Seq([module : Nat, case : Nat])
  /\ \A w \in Weights : \A m \in DOMAIN w : w[m] \in Nat
  /\ MaxReleases \in Nat /\ "sums" \notin ReleaseTargets

Shards == INSTANCE CompatibilityShards

Nodes == ToSet(Suite)
Files == ReleaseTargets \cup {"sums"}

VARIABLES
  scope,       \* the bounds of this behaviour
  head,        \* pull request -> its last pushed head, 0 once merged
  main,        \* the commits of main: their tree and the pull request merged
  ci,          \* the CI run in progress, or Idle
  runs,        \* CI runs that succeeded, and whether their record is live or expired
  tag,         \* the commit the tag points at, 0 without tag
  tags,        \* times the tag was pushed
  jobs,        \* release runs
  public,      \* the release is there
  release,     \* its files -> the commit each was built from, and its bytes
  faults,      \* interruptions so far
  proven       \* history: trees of which a CI run passed every planned case once

vars == <<scope, head, main, ci, runs, tag, tags, jobs, public, release, faults, proven>>

Idle == [stage |-> "idle"]
\* bound: at most one case of a run does not simply pass
OneOdd ==
  {o \in [Nodes -> Shards!Outcomes] :
     \E n \in Nodes : ("odd" \in scope.may \/ o[n] = "passed") /\ \A m \in Nodes \ {n} : o[m] = "passed"}
Absent == [commit |-> 0, bytes |-> "absent"]
Fresh == [stage |-> "none", back |-> "none", revision |-> 0, dry |-> FALSE, built |-> << >>,
          left |-> {}, late |-> FALSE]

TreeOf(commit) == IF commit = 0 THEN {} ELSE main[commit].tree
MainTree == TreeOf(Len(main))

Active(j) == jobs[j].stage \notin {"none", "failed", "done"}
Free == \A i \in DOMAIN jobs : ~Active(i)

Init ==
  /\ scope \in Scopes
  /\ head = [p \in Prs |-> 1] /\ main = <<>>
  /\ ci = Idle /\ runs = {} /\ tag = 0 /\ tags = 0
  /\ jobs = [j \in 1..MaxReleases |-> Fresh]
  /\ public = FALSE /\ release = [f \in Files |-> Absent]
  /\ faults = 0 /\ proven = {}

-----------------------------------------------------------------------------
(* CI                                                                       *)

NewRun(p) == [stage |-> "plan", pr |-> p, head |-> head[p],
              tree |-> MainTree \cup {<<p, head[p]>>}, plan |-> << >>, manifests |-> << >>,
              reports |-> << >>, passes |-> << >>, ok |-> TRUE]

\* The merge of the head and main is tested.  A run's record is its own
\* artifact; of runs that are alike one stands for all.
StartCi(p) ==
  /\ ci = Idle /\ ("overlap" \in scope.may \/ Free) /\ head[p] # 0 /\ Cardinality(runs) < scope.runs
  /\ ci' = NewRun(p)
  /\ UNCHANGED <<scope, head, main, runs, tag, tags, jobs, public, release, faults, proven>>

\* A record that has expired is renewed by running its CI again, on the same
\* head and tree.
RerunCi(r) ==
  /\ ci = Idle /\ ("overlap" \in scope.may \/ Free) /\ r.record = "expired"
  /\ runs' = runs \ {r}
  /\ ci' = [NewRun(r.pr) EXCEPT !.head = r.head, !.tree = r.tree]
  /\ UNCHANGED <<scope, head, main, tag, tags, jobs, public, release, faults, proven>>

\* A push cancels the run in progress and, before the merge, changes the head.
PushHead(p) ==
  /\ head[p] \in 1..(scope.heads - 1)
  /\ head' = [head EXCEPT ![p] = @ + 1]
  /\ ci' = IF ci # Idle /\ ci.pr = p THEN Idle ELSE ci
  /\ UNCHANGED <<scope, main, runs, tag, tags, jobs, public, release, faults, proven>>

\* canonical-plan: a plan that is refused fails the job.
Collect(nodes, weights) ==
  /\ ci.stage = "plan"
  /\ ci' = IF Shards!PlanRefused(nodes, ShardCount, weights)
           THEN [ci EXCEPT !.stage = "others", !.ok = FALSE]
           ELSE [ci EXCEPT !.stage = "shards", !.plan = Shards!MakePlan(nodes, ShardCount, weights, ci.tree),
                           !.passes = [n \in ToSet(nodes) |-> 0]]
  /\ UNCHANGED <<scope, head, main, runs, tag, tags, jobs, public, release, faults, proven>>

With(f, i, v) == [j \in DOMAIN f \cup {i} |-> IF j = i THEN v ELSE f[j]]

\* A shard executes what it is assigned and leaves a manifest and a report.
ExecuteShard(i, nodes, outcome) ==
  /\ ci.stage = "shards" /\ i \in 0..(ShardCount - 1) \ DOMAIN ci.manifests
  /\ \A j \in 0..(i - 1) : j \in DOMAIN ci.manifests
  /\ ~Shards!ShardRefused(ci.plan, ci.tree, nodes)
  /\ LET manifest == Shards!Manifest(ci.plan, i, ci.tree, Runtime, outcome)
     IN ci' = [ci EXCEPT
          !.manifests = With(@, i, manifest),
          !.reports = With(@, i, Shards!Report(ci.plan, i, outcome)),
          !.ok = @ /\ manifest.exit = 0,
          !.passes = [n \in DOMAIN @ |->
             IF n \in Shards!AssignedNodes(ci.plan, i) /\ outcome[n] = "passed" THEN @[n] + 1 ELSE @[n]]]
  /\ UNCHANGED <<scope, head, main, runs, tag, tags, jobs, public, release, faults, proven>>

\* A shard whose collection differs, or whose runner is lost, fails; its
\* siblings go on, but nothing can be accepted any more.
ShardFails(i, nodes) ==
  /\ ci.stage = "shards" /\ i \in 0..(ShardCount - 1) \ DOMAIN ci.manifests
  /\ Shards!ShardRefused(ci.plan, ci.tree, nodes)
  /\ ci' = [ci EXCEPT !.stage = "others", !.plan = << >>, !.manifests = << >>, !.reports = << >>, !.ok = FALSE]
  /\ UNCHANGED <<scope, head, main, runs, tag, tags, jobs, public, release, faults, proven>>

\* canonical-acceptance: the audit of all shards.
Accept ==
  /\ ci.stage = "shards" /\ DOMAIN ci.manifests = 0..(ShardCount - 1)
  /\ ci' = [ci EXCEPT !.stage = "others", !.plan = << >>, !.manifests = << >>, !.reports = << >>,
       !.ok = @ /\ Shards!ValidShards(ci.plan, ci.manifests, ci.reports, ci.tree, Runtime)]
  /\ UNCHANGED <<scope, head, main, runs, tag, tags, jobs, public, release, faults, proven>>

Proves(run, others) ==
  others /\ DOMAIN run.passes # {} /\ \A n \in DOMAIN run.passes : run.passes[n] = 1

\* validated-source, after the other required jobs: the record of the tree is
\* kept when every job has succeeded, and the run with it.
Certify(others) ==
  /\ ci.stage = "others"
  /\ runs' = IF ci.ok /\ others
             THEN runs \cup {[pr |-> ci.pr, head |-> ci.head, tree |-> ci.tree, record |-> "live"]}
             ELSE runs
  /\ proven' = IF Proves(ci, others) THEN proven \cup {ci.tree} ELSE proven
  /\ ci' = Idle
  /\ UNCHANGED <<scope, head, main, tag, tags, jobs, public, release, faults>>

\* Records are kept for 90 days.
Expire(r) ==
  /\ r.record = "live" /\ "expire" \in scope.may
  /\ runs' = (runs \ {r}) \cup {[r EXCEPT !.record = "expired"]}
  /\ UNCHANGED <<scope, head, main, ci, tag, tags, jobs, public, release, faults, proven>>

-----------------------------------------------------------------------------
(* The repository                                                           *)

\* A squash merge of the head, whatever CI has said and tested.
Merge(p) ==
  /\ head[p] # 0
  /\ main' = Append(main, [tree |-> MainTree \cup {<<p, head[p]>>}, pr |-> p, head |-> head[p]])
  /\ head' = [head EXCEPT ![p] = 0]
  /\ UNCHANGED <<scope, ci, runs, tag, tags, jobs, public, release, faults, proven>>

Late(job) == IF job.stage = "upload" THEN [job EXCEPT !.late = TRUE] ELSE job

\* A pushed tag starts a release run; a tag moved under a run that has checked
\* it is noted.
PushTag(c) ==
  /\ c \in DOMAIN main /\ c # tag /\ tags < scope.tags
  /\ tag' = c /\ tags' = tags + 1
  /\ jobs' = [j \in DOMAIN jobs |-> Late(jobs[j])]
  /\ UNCHANGED <<scope, head, main, ci, runs, public, release, faults, proven>>

-----------------------------------------------------------------------------
(* A release run                                                            *)

\* Started by the tag, by a dispatch, which may be a dry run, or by a release
\* published by hand, without files.
StartRelease(j, trigger) ==
  /\ tag # 0 /\ Free /\ ("overlap" \in scope.may \/ ci = Idle) /\ jobs[j].stage = "none" /\ j <= scope.releases
  /\ \A i \in 1..(j - 1) : jobs[i].stage # "none"
  /\ jobs' = [jobs EXCEPT ![j] = [Fresh EXCEPT !.stage = "source", !.dry = (trigger = "dry_run")]]
  /\ public' = (public \/ trigger = "published")
  /\ UNCHANGED <<scope, head, main, ci, runs, tag, tags, release, faults, proven>>

Set(j, job) == jobs' = [jobs EXCEPT ![j] = job]
Done(j) == Set(j, [Fresh EXCEPT !.stage = "done"])

\* What the jobs before the one that failed have put out is kept.
Fail(j, back) ==
  Set(j, IF back = "source" THEN [Fresh EXCEPT !.stage = "failed", !.back = back, !.dry = jobs[j].dry]
         ELSE [jobs[j] EXCEPT !.stage = "failed", !.back = back, !.left = {}, !.late = FALSE])

\* source: the tag's commit must carry the version the tag names.
Source(j) ==
  /\ jobs[j].stage = "source"
  /\ IF \E h \in TreeOf(tag) : h[1] = ReleasePr
     THEN Set(j, [jobs[j] EXCEPT !.stage = "qualify", !.revision = tag])
     ELSE Fail(j, "source")
  /\ UNCHANGED <<scope, head, main, ci, runs, tag, tags, public, release, faults, proven>>

\* Mutation: the tree that was tested is not compared.
CertifiesHead(revision) ==
  \E r \in runs : /\ r.pr = main[revision].pr /\ r.head = main[revision].head
                  /\ r.record = "live"

\* A completed, successful run of the merged pull request's head, with a record
\* that certifies this very tree.
Certifies(revision) ==
  \E r \in runs : /\ r.pr = main[revision].pr /\ r.head = main[revision].head
                  /\ r.record = "live"
                  /\ r.tree = TreeOf(revision)

Qualify(j) ==
  /\ jobs[j].stage = "qualify"
  /\ IF Certifies(jobs[j].revision)
     THEN Set(j, [jobs[j] EXCEPT !.stage = "package"])
     ELSE Fail(j, "source")
  /\ UNCHANGED <<scope, head, main, ci, runs, tag, tags, public, release, faults, proven>>

FileOf(target, bytes) == [name |-> [version |-> "tag", target |-> target], bytes |-> bytes]
Lines(files) == SetToSeq(files)

\* A target's job builds at the qualified revision, packages and certifies the
\* extracted archive; the other targets' jobs go on beside it.
Package(j, target, bytes) ==
  /\ jobs[j].stage = "package" /\ target \notin DOMAIN jobs[j].built
  /\ LET file == FileOf(target, bytes)
     IN IF Installable(file, Lines({file}), "tag", Content[bytes])
        THEN LET built == With(jobs[j].built, target, bytes)
             IN IF DOMAIN built # ReleaseTargets THEN Set(j, [jobs[j] EXCEPT !.built = built])
                ELSE IF jobs[j].dry THEN Done(j)
                ELSE Set(j, [jobs[j] EXCEPT !.built = built, !.stage = "verify"])
        ELSE Fail(j, "package")
  /\ UNCHANGED <<scope, head, main, ci, runs, tag, tags, public, release, faults, proven>>

Downloads(j) == {FileOf(t, jobs[j].built[t]) : t \in DOMAIN jobs[j].built}

\* publish: the combined checksums and the gate over all archives.
Verify(j) ==
  /\ jobs[j].stage = "verify"
  /\ IF Publishable(Downloads(j), Lines(Downloads(j)), "tag", Content)
     THEN Set(j, [jobs[j] EXCEPT !.stage = "check"])
     ELSE Fail(j, "verify")
  /\ UNCHANGED <<scope, head, main, ci, runs, tag, tags, public, release, faults, proven>>

\* Mutation: the tag is not fetched again.
CheckNothing(j) ==
  /\ jobs[j].stage = "check"
  /\ Set(j, [jobs[j] EXCEPT !.stage = "upload", !.left = Files])
  /\ UNCHANGED <<scope, head, main, ci, runs, tag, tags, public, release, faults, proven>>

\* check-tag: the tag is fetched again and must still point at the revision.
CheckTag(j) ==
  /\ jobs[j].stage = "check"
  /\ IF tag = jobs[j].revision
     THEN Set(j, [jobs[j] EXCEPT !.stage = "upload", !.left = Files])
     ELSE Fail(j, "verify")
  /\ UNCHANGED <<scope, head, main, ci, runs, tag, tags, public, release, faults, proven>>

Bytes(j, f) == IF f = "sums" THEN "sums" ELSE jobs[j].built[f]
Asset(j, f) == [commit |-> jobs[j].revision, bytes |-> Bytes(j, f)]

\* gh release create publishes the release with all its files.
Create(j) ==
  /\ jobs[j].stage = "upload" /\ ~public /\ public' = TRUE
  /\ release' = [f \in Files |-> Asset(j, f)]
  /\ Done(j)
  /\ UNCHANGED <<scope, head, main, ci, runs, tag, tags, faults, proven>>

\* Mutation: a file that the release has already is left.
UploadMissing(j, f) ==
  /\ jobs[j].stage = "upload" /\ public /\ f \in jobs[j].left
  /\ release' = IF release[f] = Absent THEN [release EXCEPT ![f] = Asset(j, f)] ELSE release
  /\ Set(j, [jobs[j] EXCEPT !.left = @ \ {f}])
  /\ UNCHANGED <<scope, head, main, ci, runs, tag, tags, public, faults, proven>>

\* gh release upload --clobber, onto a release that is public: file by file,
\* an old one is deleted before the new one is there.
Upload(j, f) ==
  /\ jobs[j].stage = "upload" /\ public /\ f \in jobs[j].left
  /\ IF release[f] # Absent /\ release[f] # Asset(j, f)
     THEN release' = [release EXCEPT ![f] = Absent] /\ UNCHANGED jobs
     ELSE /\ release' = [release EXCEPT ![f] = Asset(j, f)]
          /\ Set(j, [jobs[j] EXCEPT !.left = @ \ {f}])
  /\ UNCHANGED <<scope, head, main, ci, runs, tag, tags, public, faults, proven>>

\* The release is no draft any more.
Finish(j) ==
  /\ jobs[j].stage = "upload" /\ jobs[j].left = {}
  /\ Done(j)
  /\ UNCHANGED <<scope, head, main, ci, runs, tag, tags, public, release, faults, proven>>

\* A runner is lost or a call fails.
Interrupt(j) ==
  /\ Active(j) /\ faults < scope.faults /\ faults' = faults + 1
  /\ Fail(j, CASE jobs[j].stage \in {"source", "qualify"} -> "source"
               [] jobs[j].stage = "package" -> "package"
               [] OTHER -> "verify")
  /\ UNCHANGED <<scope, head, main, ci, runs, tag, tags, public, release, proven>>

\* "Re-run failed jobs": from the failed job, with what the others have left.
Rerun(j) ==
  /\ jobs[j].stage = "failed" /\ Free /\ ("overlap" \in scope.may \/ ci = Idle)
  /\ faults < scope.faults /\ faults' = faults + 1
  /\ Set(j, [jobs[j] EXCEPT !.stage = jobs[j].back])
  /\ UNCHANGED <<scope, head, main, ci, runs, tag, tags, public, release, proven>>

-----------------------------------------------------------------------------
Ci ==
  \/ \E p \in Prs : StartCi(p) \/ PushHead(p)
  \/ \E r \in runs : RerunCi(r) \/ Expire(r)
  \/ \E nodes \in IF "odd" \in scope.may THEN {Suite, Partial} ELSE {Suite} :
       \/ \E weights \in Weights : Collect(nodes, weights)
       \/ \E i \in 0..(ShardCount - 1) :
            ShardFails(i, nodes) \/ \E outcome \in OneOdd : ExecuteShard(i, nodes, outcome)
  \/ Accept
  \/ \E others \in BOOLEAN : Certify(others)

Release(j) ==
  \/ \E trigger \in {"tag", "dry_run", "published"} : StartRelease(j, trigger)
  \/ Source(j) \/ Qualify(j) \/ Verify(j) \/ CheckTag(j) \/ Create(j) \/ Finish(j)
  \/ \E target \in ReleaseTargets, bytes \in Archives : Package(j, target, bytes)
  \/ \E f \in Files : Upload(j, f)
  \/ Interrupt(j) \/ Rerun(j)

Next ==
  \/ Ci
  \/ \E p \in Prs : Merge(p)
  \/ \E c \in 1..Cardinality(Prs) : PushTag(c)
  \/ \E j \in 1..MaxReleases : Release(j)

Spec == Init /\ [][Next]_vars

-----------------------------------------------------------------------------
(* Correctness                                                              *)

Stages == {"none", "source", "qualify", "package", "verify", "check", "upload", "done", "failed"}

\* The type invariant of the repository, the release runs and the release.  Of
\* the runs at most one is active.
TypeOK ==
  /\ head \in [Prs -> Nat] /\ tag \in 0..Len(main)
  /\ main \in Seq([tree : SUBSET (Prs \X Nat), pr : Prs, head : Nat])
  /\ DOMAIN jobs = 1..MaxReleases
  /\ \A j \in DOMAIN jobs :
       /\ jobs[j].stage \in Stages /\ DOMAIN jobs[j].built \subseteq ReleaseTargets
       /\ jobs[j].stage = "failed" => jobs[j].back \in {"source", "package", "verify"}
       /\ jobs[j].stage \in {"qualify", "package", "verify", "check", "upload"} =>
            jobs[j].revision \in 1..Len(main)
  /\ DOMAIN release = Files /\ \A f \in Files : release[f].commit \in 0..Len(main)
  /\ \A i, j \in DOMAIN jobs : Active(i) /\ Active(j) => i = j

\* A plan that is made is one that its shards accept: longest-first scheduling
\* leaves no shard without a module.
PlansAreValid == ci.stage = "shards" => Shards!ValidPlan(ci.plan)

\* "every required job must succeed before certifying its source": a record is
\* only made of a tree of which every planned case passed, once, in one run.
CertifiedIsProven == \A r \in runs : r.tree \in proven

\* "A release must match that tree exactly": no file of the release was built
\* from a tree that no complete CI run has tested, whatever was merged.
PublishedTested == \A f \in Files : release[f].commit # 0 => TreeOf(release[f].commit) \in proven

\* The binary of a published archive is, by its header, one for the target the
\* archive is named for, and the archive carries the notices of what it bundles.
PublishedRuns ==
  \A t \in ReleaseTargets : release[t].commit # 0 =>
    /\ Content[release[t].bytes].header.machine = t
    /\ Required(t) \subseteq Bundled(Content[release[t].bytes])

\* "A moved tag is rejected before publication": a file is uploaded for the
\* commit the tag points at, unless the tag is moved while files are uploaded.
MovedTagRejected ==
  [][\A f \in Files :
       release'[f] # release[f] /\ release'[f] # Absent =>
         release'[f].commit = tag \/ \E j \in DOMAIN jobs : jobs[j].late]_vars

\* A release run that comes to its end leaves every file of its own revision,
\* whatever older or interrupted runs had left.
FinishedIsWhole ==
  [][\A j \in DOMAIN jobs :
       jobs[j].stage = "upload" /\ jobs'[j].stage = "done" =>
         \A f \in Files : release'[f].commit = jobs[j].revision]_vars
=============================================================================
