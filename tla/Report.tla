------------------------------- MODULE Report -------------------------------
(***************************************************************************)
(* Solving, and then displaying the Conflict when there is no solution     *)
(* (Conflict::display_user_friendly and the Display of DisplayUnsat in     *)
(* src/src/conflict.rs).  What is printed is left out but for the causes   *)
(* it names; what decides the walk over the graph is kept.                 *)
(*                                                                         *)
(* report.pc names the place: none, missing and conflicts (fmt_graph for   *)
(* the top-level edges that are missing and for the others), done.         *)
(***************************************************************************)
EXTENDS Solver, ConflictGraph

VARIABLE report

NoReport == [pc |-> "none", graph |-> Graph(InitialState, << >>), installable |-> {},
             missing |-> {}, stack |-> << >>, reported |-> {}, causes |-> {}]

\* enum DisplayOp, with the number of levels of its Indenter.
DisplayRequirement(edges, levels) ==
  [op |-> "Requirement", edges |-> edges, node |-> None, levels |-> levels]
DisplayCandidate(node, levels) ==
  [op |-> "Candidate", edges |-> << >>, node |-> node, levels |-> levels]

\* One entry per requirement; those that cannot be met lie below the others.
DisplayRequirements(r, edges, levels) ==
  LET Viable(chunk) == Targets(chunk) \cap r.installable # {}
      sorted == SelectSeq(Chunks(edges), LAMBDA c : ~Viable(c))
                \o SelectSeq(Chunks(edges), Viable)
  IN [i \in DOMAIN sorted |-> DisplayRequirement(sorted[i], levels)]

\* The top-level edges, as Display::fmt takes them apart.
TopLevelEdges(r, missing) ==
  SelectSeq(Outgoing(r.graph, Root), LAMBDA e : (e.to \in r.missing) = missing)

\* A call of fmt_graph.
FmtGraph(r, place) ==
  LET edges == SelectSeq(TopLevelEdges(r, place = "missing"), IsRequires)
  IN [r EXCEPT !.pc = place, !.reported = {}, !.stack = DisplayRequirements(r, edges, 1)]

\* DisplayUnsat::new and the start of its Display.
DisplayUserFriendly ==
  /\ At("done") /\ result.kind = "unsolvable" /\ report.pc = "none"
  /\ LET graph == Graph(st, result.core)
         unsat == [NoReport EXCEPT !.graph = graph, !.installable = InstallableSet(graph),
                                   !.missing = MissingSet(graph)]
     IN report' = FmtGraph(unsat, "missing")

Entry == Last(report.stack)
EntryPopped == [report EXCEPT !.stack = Front(@)]
NameCauses(r, causes) == [r EXCEPT !.causes = @ \cup causes]

\* The children of a requirement: one candidate of every group that is shown as
\* one, and no node that is not a solvable.
Deduplicated(nodes) ==
  LET Add(acc, n) ==
        IF n \notin Solvable \/ n \in acc.seen THEN acc
        ELSE [children |-> Append(acc.children, n),
              seen |-> acc.seen \cup Merged(report.graph, n)]
  IN FoldLeft(Add, [children |-> << >>, seen |-> {}], nodes).children

\* A requirement without candidates ends the branch.  Of one that can be met only
\* the installable candidates follow, of any other one all.
FmtRequirement ==
  /\ report.stack # << >> /\ Entry.op = "Requirement"
  /\ LET edges == Entry.edges
         viable == SelectSeq(edges, LAMBDA e : e.to \in report.installable)
         listed == IF viable # << >> THEN viable ELSE edges
         children == Deduplicated([i \in DOMAIN listed |-> listed[i].to])
         entries == [i \in DOMAIN children |-> DisplayCandidate(children[i], Entry.levels + 1)]
     IN report' = IF Len(edges) = 1 /\ edges[1].to = Unresolved
                  THEN NameCauses(EntryPopped, {"Missing"})
                  ELSE [EntryPopped EXCEPT !.stack = @ \o entries]

\* Mutant of FmtCandidate: a candidate with requirements stays on the stack.
CandidateStays ==
  /\ report.stack # << >> /\ Entry.op = "Candidate"
  /\ LET out == Outgoing(report.graph, Entry.node)
         conflicts == {out[i].kind : i \in DOMAIN out} \ {"Requires"}
     IN report' = IF out = << >> \/ conflicts # {} THEN NameCauses(EntryPopped, conflicts)
                  ELSE [report EXCEPT !.stack = @ \o DisplayRequirements(report, out, Entry.levels + 1)]

\* What is printed of the causes at a candidate.
Printed(conflicts) ==
  IF "Excluded" \in conflicts THEN {"Excluded"}
  ELSE IF "ForbidMultipleInstances" \in conflicts THEN {"ForbidMultipleInstances"}
  ELSE conflicts

\* A candidate that is excluded, is a leaf or conflicts ends the branch; of any
\* other one the requirements follow.
FmtCandidate ==
  /\ report.stack # << >> /\ Entry.op = "Candidate"
  /\ LET out == Outgoing(report.graph, Entry.node)
         conflicts == {out[i].kind : i \in DOMAIN out} \ {"Requires"}
         noted == [EntryPopped EXCEPT !.reported = @ \cup Merged(report.graph, Entry.node)]
     IN report' = IF Entry.node \in report.reported THEN EntryPopped
                  ELSE IF conflicts # {} THEN NameCauses(noted, Printed(conflicts))
                  ELSE [noted EXCEPT !.stack = @ \o DisplayRequirements(report, out, Entry.levels + 1)]

\* The first fmt_graph returns: the conflicts follow.
FmtConflicts ==
  /\ report.pc = "missing" /\ report.stack = << >>
  /\ report' = FmtGraph(report, "conflicts")

\* Mutant of FmtRoot: only the trees are displayed.
TreesOnly ==
  /\ report.pc = "conflicts" /\ report.stack = << >>
  /\ report' = [report EXCEPT !.pc = "done"]

\* The lines about the constraints and locks at the root end the report.
FmtRoot ==
  /\ report.pc = "conflicts" /\ report.stack = << >>
  /\ LET kinds == {e.kind : e \in ToSet(Outgoing(report.graph, Root))}
         own == IF TopLevelEdges(report, FALSE) = << >> THEN {}
                ELSE kinds \ {"Requires", "Excluded"}
     IN report' = [NameCauses(report, own) EXCEPT !.pc = "done"]

Display ==
  /\ DisplayUserFriendly \/ FmtRequirement \/ FmtCandidate \/ FmtConflicts \/ FmtRoot
  /\ UNCHANGED vars

rvars == <<vars, report>>
Finished == Panicked \/ (pc = "done" /\ (result.kind = "unsolvable" => report.pc = "done"))

ReportInit == Init /\ report = NoReport
ReportNext ==
  \/ Next /\ UNCHANGED report
  \/ Display
  \/ Finished /\ UNCHANGED rvars
ReportSpec == ReportInit /\ [][ReportNext]_rvars

\* One thread solves and then displays.  Some step is possible until it has
\* finished (TLC would report a deadlock), so it finishes or steps forever.
FairReportSpec == ReportSpec /\ ([]<>Finished \/ []<><<ReportNext>>_rvars)

----------------------------------------------------------------------------
(* Properties                                                               *)

\* "Sanity check: all nodes are reachable from root" (the assert_eq at the end of
\* Conflict::graph): whatever clauses make up the conflict, every node that one of
\* them brings in hangs together with the root.
GraphIsRooted == report.pc # "none" => Reached(report.graph) = report.graph.nodes

\* A report says why: it ends with a requirement without candidates, an excluded
\* candidate, a constraint, a lock or two versions of a package, and does not call
\* everything installable (get_installable_set, get_missing_set, fmt_graph).
ReportNamesACause == report.pc = "done" => report.causes # {}

\* Displaying an unsolvable problem comes to an end (fmt_graph).
DisplayEnds == (result.kind = "unsolvable") ~> (report.pc = "done")

\* "A struct implementing fmt::Display that generates a user-friendly
\* representation of a conflict graph": a tree in which no candidate is below
\* itself, so that it is not deeper than two levels per node.
ReportIsFinite ==
  \A i \in DOMAIN report.stack : report.stack[i].levels <= 2 * Cardinality(report.graph.nodes)
=============================================================================
