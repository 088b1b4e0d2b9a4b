-------------------------- MODULE MCOrchestration --------------------------
(***************************************************************************)
(* Instances of Orchestration for TLC: three tasks of a few shapes;        *)
(* dependency chains, forks, joins and a cycle; tight and loose budgets.   *)
(***************************************************************************)
EXTENDS Orchestration, TLC

MCIds == <<"T01", "T02", "T03">>
MCSlots == [x \in Profiles |-> 2]

\* A reader of "docs", writers of disjoint areas, a writer without a write set, a
\* writer whose worktree is not verified.
Shape(write, reads, writes, allowed, tree, verified, profile, sound) ==
  [deps |-> {}, write |-> write, reads |-> reads, writes |-> writes,
   allowed |-> allowed, worktree |-> tree, verified |-> verified,
   profile |-> profile, sound |-> sound]
Reader == Shape(FALSE, {"docs"}, {}, {}, "none", TRUE, "read", TRUE)
DocsWriter == Shape(TRUE, {}, {"docs"}, {"docs"}, "w1", TRUE, "write", TRUE)
CodeWriter == Shape(TRUE, {}, {"code"}, {"code"}, "w2", TRUE, "write", TRUE)
PolicyWriter == Shape(TRUE, {}, {"policy"}, {"policy"}, "w3", TRUE, "write", TRUE)
Unbounded == Shape(TRUE, {}, {}, {"policy"}, "w4", TRUE, "write", TRUE)
Unverified == Shape(TRUE, {}, {"code"}, {"code"}, "w5", FALSE, "write", TRUE)

Rows == {<<Reader, Reader, Reader>>, <<Reader, Reader, CodeWriter>>,
         <<Reader, Reader, DocsWriter>>, <<CodeWriter, Reader, DocsWriter>>,
         <<Reader, CodeWriter, DocsWriter>>, <<CodeWriter, DocsWriter, PolicyWriter>>,
         <<CodeWriter, PolicyWriter, PolicyWriter>>, <<CodeWriter, CodeWriter, DocsWriter>>,
         <<Unbounded, DocsWriter, CodeWriter>>, <<Unverified, Reader, DocsWriter>>,
         <<[Reader EXCEPT !.sound = FALSE], Reader, CodeWriter>>}

\* Chains, forks, a cycle, an unknown dependency.
Graphs3 ==
  { <<{}, {}, {}>>, <<{}, {"T01"}, {}>>, <<{}, {"T01"}, {"T01"}>>,
    <<{}, {}, {"T01", "T02"}>>, <<{}, {"T01"}, {"T02"}>>,
    <<{"T02", "T03"}, {}, {"T02"}>>, <<{"T02"}, {"T01"}, {}>>,
    <<{"unknown"}, {}, {}>> }

TasksOf(row, graph) ==
  [t \in {"T01", "T02", "T03"} |->
     LET i == CHOOSE j \in 1..3 : MCIds[j] = t
     IN  [row[i] EXCEPT !.deps = graph[i]]]

Budget == {<<2, 3, 2>>, <<3, 3, 2>>, <<3, 3, 3>>}

Manifest(row, graph, b, stop) ==
  [tasks |-> TasksOf(row, graph), guarded |-> TRUE,
   concurrent |-> b[1], total |-> b[2], min |-> b[3],
   read_only |-> TRUE, writers |-> TRUE, isolated |-> TRUE,
   single |-> FALSE, reject |-> FALSE, stop |-> stop]

\* One manifest with each flag turned, and with budgets of 1 and 2.
Plain == Manifest(<<Reader, CodeWriter, DocsWriter>>, <<{}, {}, {}>>, <<3, 3, 2>>, TRUE)
Variants == { [Plain EXCEPT !.guarded = FALSE], [Plain EXCEPT !.writers = FALSE],
              [Plain EXCEPT !.read_only = FALSE], [Plain EXCEPT !.isolated = FALSE],
              [Plain EXCEPT !.single = TRUE], [Plain EXCEPT !.reject = TRUE],
              [Plain EXCEPT !.concurrent = 1],
              [Plain EXCEPT !.concurrent = 2, !.total = 2] }

MCManifests ==
  Variants \cup
  {Manifest(row, graph, b, stop) :
     row \in Rows, graph \in Graphs3, b \in Budget, stop \in BOOLEAN}
=============================================================================
