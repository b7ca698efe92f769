-------------------------- MODULE MCReleasePipeline --------------------------
EXTENDS ReleasePipeline

\* Three modules of one case; a runner without all requirements misses one.
MCSuite == <<[module |-> 1, case |-> 1], [module |-> 2, case |-> 1], [module |-> 3, case |-> 1]>>
MCPartial == SubSeq(MCSuite, 1, 2)
\* Modules without timings, with different ones, and without weight.
MCWeights == {<< >>, <<10, 30, 20>>, [m \in 1..3 |-> 0]}

File(p) == [path |-> p, place |-> "root", allowed |-> TRUE, kind |-> "file", executable |-> p = "dxt",
            clean |-> TRUE, above |-> {"."}]
Elf(machine) == [format |-> "elf64-le", kind |-> "executable", machine |-> machine, libraries |-> {}]
Mach(machine) == [format |-> "mach-o64", kind |-> "executable", machine |-> machine, libraries |-> {"libSystem"}]
Archive(header, paths) == [members |-> [i \in DOMAIN paths |-> File(paths[i])], header |-> header, links |-> {"README.md", "."}]

\* Good archives of both targets; one without its notices, and with a secret.
MCContent ==
  [elf |-> Archive(Elf("linux"), <<"dxt", "README.md">>),
   mach |-> Archive(Mach("macos"), <<"dxt", "README.md", "NOTICE">>),
   bare |-> Archive(Mach("macos"), <<"dxt", "README.md">>),
   other |-> Archive([Elf("arm") EXCEPT !.libraries = {}], <<"dxt", "README.md">>)]
MCArchives == DOMAIN MCContent

Scope(heads, ciRuns, tagPushes, releases, interruptions, may) ==
  [heads |-> heads, runs |-> ciRuns, tags |-> tagPushes, releases |-> releases,
   faults |-> interruptions, may |-> may]

\* CI runs that go wrong; heads that move; a tag that moves; release runs that
\* follow one another and are interrupted.
MCScopes == {Scope(1, 2, 0, 0, 0, {"odd", "expire"}), Scope(2, 1, 1, 1, 0, {"overlap"}),
             Scope(1, 2, 2, 1, 1, {"overlap", "expire"}), Scope(1, 2, 2, 2, 2, {})}
=============================================================================
