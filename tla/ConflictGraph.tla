--------------------------- MODULE ConflictGraph ---------------------------
(***************************************************************************)
(* The graph that explains a Conflict (src/src/conflict.rs) and what the   *)
(* report reads off it: which nodes are installable, which are missing and *)
(* which are shown as one.                                                 *)
(*                                                                         *)
(* A node is the root, a solvable, the sink of requirements without        *)
(* candidates, or the reason of an exclusion; all exclusions share one     *)
(* reason here.  Edges are kept in the order they are added, because       *)
(* petgraph walks them from the latest to the earliest.                    *)
(***************************************************************************)
EXTENDS SolverState

Unresolved == "unresolved"     \* ConflictNode::UnresolvedDependency
ExcludedNode == "excluded"     \* ConflictNode::Excluded

\* enum ConflictEdge: kind is "Requires", with the requirement, or a ConflictCause.
Edge(from, to, kind, requirement) ==
  [from |-> from, to |-> to, kind |-> kind, requirement |-> requirement]
IsRequires(e) == e.kind = "Requires"

\* as_solvable_or_root
Owner(v) == IF v.origin \in {"Root", "Solvable"} THEN <<v.id>> ELSE << >>

KindIs(s, core, kind) == SelectSeq(core, LAMBDA c : s.clauses[c].kind = kind)
LitVar(s, c, i) == s.clauses[c].lits[i].variable

\* The clause that a variable was assigned because of (reason_clause), if it is
\* of the given kind.
ReasonOf(s, v, kind) ==
  LET assigned == SelectSeq(Trail(s), LAMBDA d : d.variable = v)
      reason == assigned[1].derived_from
  IN IF assigned # << >> /\ s.clauses[reason].kind = kind THEN <<reason>> ELSE << >>

\* One side of what is linked by an auxiliary variable: the owners of variable i
\* of the clauses of the conflict that have aux as variable j, or else of the
\* clause that assigned aux.
LinkedBy(s, core, kind, aux, i, j) ==
  LET listed == SelectSeq(KindIs(s, core, kind), LAMBDA c : LitVar(s, c, j) = aux)
      clauses == IF listed # << >> THEN listed ELSE ReasonOf(s, aux, kind)
  IN FlattenSeq([k \in DOMAIN clauses |-> Owner(LitVar(s, clauses[k], i))])

ConstrainsAuxParents(s, core, aux) == LinkedBy(s, core, "ConstrainsParent", aux, 1, 2)
ConstrainsAuxCandidates(s, core, aux) == LinkedBy(s, core, "ConstrainsExcluded", aux, 1, 2)
RequiresGateParents(s, core, gate) == LinkedBy(s, core, "AnyOf", gate, 2, 1)

----------------------------------------------------------------------------
(* Conflict::graph.  g holds the nodes, the edges, the last node of every   *)
(* package with a forbid clause, and the pairs that have a constrains edge. *)

AddEdges(g, edges) ==
  [g EXCEPT !.nodes = @ \cup UNION {{edges[i].from, edges[i].to} : i \in DOMAIN edges},
            !.edges = @ \o edges]

\* Mutant of RequiresEdges: the requirers behind a gate are not looked up.
GateHasNoRequirer(s, core, c) ==
  LET req == s.clauses[c].requirement
      parents == Owner(LitVar(s, c, 1))
      targets == IF RequirementCandidates(req) = << >> THEN <<Unresolved>>
                 ELSE RequirementCandidates(req)
  IN FlattenSeq([p \in DOMAIN parents |->
       [t \in DOMAIN targets |-> Edge(parents[p], targets[t], "Requires", req)]])

\* The edges of a requires clause: from every requirer to every candidate.
RequiresEdges(s, core, c) ==
  LET req == s.clauses[c].requirement
      parent == LitVar(s, c, 1)
      parents == IF Owner(parent) # << >> THEN Owner(parent)
                 ELSE RequiresGateParents(s, core, parent)
      targets == IF RequirementCandidates(req) = << >> THEN <<Unresolved>>
                 ELSE RequirementCandidates(req)
  IN FlattenSeq([p \in DOMAIN parents |->
       [t \in DOMAIN targets |-> Edge(parents[p], targets[t], "Requires", req)]])

\* The edges of one side of a shared constraint, unless the other side has them.
AddConstrains(g, aux, parents, candidates) ==
  LET pairs == FlattenSeq([p \in DOMAIN parents |->
                 [c \in DOMAIN candidates |-> <<parents[p], candidates[c], aux>>]])
      Add(h, pair) ==
        IF pair \in h.constrains_edges THEN h
        ELSE [AddEdges(h, <<Edge(pair[1], pair[2], "Constrains", None)>>)
                EXCEPT !.constrains_edges = @ \cup {pair}]
  IN FoldLeft(Add, g, pairs)

\* Each candidate of a package gets an edge from the one before it.
AddForbid(g, node, name) ==
  LET previous == g.last_node_by_name[name]
      noted == [g EXCEPT !.nodes = @ \cup {node}, !.last_node_by_name[name] = node]
  IN IF previous = None THEN noted
     ELSE AddEdges(noted, <<Edge(previous, node, "ForbidMultipleInstances", None)>>)

ClauseEdges(s, core, g, c) ==
  LET clause == s.clauses[c]
      x == LitVar(s, c, 1)
      y == LitVar(s, c, 2)
  IN CASE clause.kind = "Excluded" -> AddEdges(g, <<Edge(x.id, ExcludedNode, "Excluded", None)>>)
       [] clause.kind = "Requires" -> AddEdges(g, RequiresEdges(s, core, c))
       [] clause.kind = "Lock" -> AddEdges(g, <<Edge(Root, x.id, "Locked", None)>>)
       [] clause.kind = "ForbidMultipleInstances" -> AddForbid(g, x.id, y.id)
       [] clause.kind = "Constrains" -> AddEdges(g, <<Edge(x.id, y.id, "Constrains", None)>>)
       [] clause.kind = "ConstrainsParent" ->
            AddConstrains(g, y, Owner(x), ConstrainsAuxCandidates(s, core, y))
       [] clause.kind = "ConstrainsExcluded" ->
            AddConstrains(g, y, ConstrainsAuxParents(s, core, y), Owner(x))
       [] OTHER -> g

Graph(s, core) ==
  FoldLeft(LAMBDA g, c : ClauseEdges(s, core, g, c),
           [nodes |-> {Root}, edges |-> << >>, constrains_edges |-> {},
            last_node_by_name |-> [n \in Name |-> None]], core)

\* The nodes that the sanity check of Conflict::graph visits.
Reached(g) ==
  LET Grow(seen, i) == seen \cup {e.to : e \in {f \in ToSet(g.edges) : f.from \in seen}}
  IN FoldLeft(Grow, {Root}, [i \in 1 .. Cardinality(g.nodes) |-> i])

----------------------------------------------------------------------------
(* Walks over the graph                                                     *)

\* petgraph's edges(n) and edges_directed(n, Incoming).
Outgoing(g, n) == Reverse(SelectSeq(g.edges, LAMBDA e : e.from = n))
Incoming(g, n) == Reverse(SelectSeq(g.edges, LAMBDA e : e.to = n))

\* petgraph's DfsPostOrder from the root: the order in which nodes finish.
PostOrder(g) ==
  LET Visit(d, i) ==
        IF d.stack = << >> THEN d
        ELSE LET n == Last(d.stack)
                 next == SelectSeq(Outgoing(g, n), LAMBDA e : e.to \notin d.discovered \cup {n})
             IN IF n \notin d.discovered
                THEN [d EXCEPT !.discovered = @ \cup {n},
                               !.stack = @ \o [k \in DOMAIN next |-> next[k].to]]
                ELSE [d EXCEPT !.stack = Front(@),
                               !.finished = IF n \in ToSet(@) THEN @ ELSE Append(@, n)]
  IN FoldLeft(Visit, [stack |-> <<Root>>, discovered |-> {}, finished |-> << >>],
              [i \in 1 .. 2 * Len(g.edges) + 2 |-> i]).finished

\* itertools' chunk_by: runs of neighbouring edges with the same requirement.
Chunks(edges) ==
  LET Add(chunks, e) ==
        IF chunks # << >> /\ Last(chunks)[1].requirement = e.requirement
        THEN [chunks EXCEPT ![Len(chunks)] = Append(@, e)]
        ELSE Append(chunks, <<e>>)
  IN FoldLeft(Add, << >>, edges)

Targets(edges) == {edges[i].to : i \in DOMAIN edges}
HasConflict(edges) == \E i \in DOMAIN edges : ~IsRequires(edges[i])

\* get_installable_set
InstallableSet(g) ==
  LET Visit(installable, n) ==
        LET out == Outgoing(g, n)
            ok == /\ n # Unresolved
                  /\ \A i \in DOMAIN Incoming(g, n) : Incoming(g, n)[i].kind # "Excluded"
                  /\ ~HasConflict(out)
                  /\ \A chunk \in ToSet(Chunks(out)) : Targets(chunk) \cap installable # {}
        IN IF ok THEN installable \cup {n} ELSE installable
  IN FoldLeft(Visit, {}, PostOrder(g))

\* get_missing_set
MissingSet(g) ==
  LET Visit(missing, n) ==
        LET out == Outgoing(g, n)
        IN IF ~HasConflict(out) /\ \E chunk \in ToSet(Chunks(out)) : Targets(chunk) \subseteq missing
           THEN missing \cup {n} ELSE missing
  IN IF Unresolved \notin g.nodes THEN {} ELSE FoldLeft(Visit, {Unresolved}, PostOrder(g))

\* ConflictGraph::simplify: the solvables shown together with n, if any: those of
\* its package with the same edges in and out, but for the causes of conflicts.
Merged(g, n) ==
  LET Counted(q) == [x \in ToSet(q) |-> Cardinality({i \in DOMAIN q : q[i] = x})]
      Ins(m) == [i \in DOMAIN Incoming(g, m) |-> <<Incoming(g, m)[i].requirement, Incoming(g, m)[i].from>>]
      Outs(m) == [i \in DOMAIN Outgoing(g, m) |-> <<Outgoing(g, m)[i].requirement, Outgoing(g, m)[i].to>>]
      same == {m \in g.nodes \cap ToSet(Candidates[NameOf(n)]) :
                 Counted(Ins(m)) = Counted(Ins(n)) /\ Counted(Outs(m)) = Counted(Outs(n))}
  IN IF same = {n} THEN {} ELSE same
=============================================================================
