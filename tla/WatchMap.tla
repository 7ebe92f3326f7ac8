------------------------------ MODULE WatchMap ------------------------------
(***************************************************************************)
(* The watch lists (src/src/solver/watch_map.rs): per literal a singly     *)
(* linked list of the clauses that watch it.  heads is the map from        *)
(* literals to first clauses; the rest of a list is threaded through the   *)
(* clauses, each of which has two watched literals and one next clause for *)
(* either (WatchedLiterals).  A clause without watches has no literals in  *)
(* `watched`.                                                              *)
(***************************************************************************)
EXTENDS Naturals, Sequences, FiniteSets

CONSTANT Literal

NoClause == 0                              \* Option::<ClauseId>::None
NoNode == [clause |-> NoClause, index |-> 1]
EmptyHeads == [l \in Literal |-> NoClause]

\* start_watching: the clause becomes the head of the lists of its first and
\* then of its second watched literal.
WatchHeads(heads, id, watched) ==
  IF watched = << >> THEN heads ELSE [heads EXCEPT ![watched[1]] = id, ![watched[2]] = id]
NextWatches(heads, id, watched) ==
  [i \in DOMAIN watched |->
     IF i = 2 /\ watched[2] = watched[1] THEN id ELSE heads[watched[i]]]

\* The node of a clause in the list of a literal.
NodeIn(clauses, literal, id) ==
  IF id = NoClause THEN NoNode
  ELSE [clause |-> id, index |-> IF clauses[id].watched[1] = literal THEN 1 ELSE 2]

\* WatchMap::cursor; the list has ended when current is NoNode.
CursorOf(heads, clauses, literal) ==
  [literal |-> literal, previous |-> NoNode,
   current |-> NodeIn(clauses, literal, heads[literal])]

NextNode(clauses, cursor) ==
  NodeIn(clauses, cursor.literal,
         clauses[cursor.current.clause].next_watches[cursor.current.index])

\* WatchMapCursor::next
Advance(clauses, cursor) ==
  [cursor EXCEPT !.previous = cursor.current, !.current = NextNode(clauses, cursor)]

\* WatchMapCursor::update: the current node leaves its list and becomes the head
\* of the list of literal new.  The cursor moves on and keeps its previous node.
UpdatedHeads(heads, clauses, cursor, new) ==
  LET unlinked == IF cursor.previous = NoNode
                  THEN [heads EXCEPT ![cursor.literal] = NextNode(clauses, cursor).clause]
                  ELSE heads
  IN [unlinked EXCEPT ![new] = cursor.current.clause]

\* Mutant of UpdatedClauses: the previous node goes on pointing at the moved one.
LeavesPrevious(heads, clauses, cursor, new) ==
  [clauses EXCEPT ![cursor.current.clause].watched[cursor.current.index] = new,
                  ![cursor.current.clause].next_watches[cursor.current.index] = heads[new]]

UpdatedClauses(heads, clauses, cursor, new) ==
  LET prev == cursor.previous
      cur == cursor.current
      unlinked == IF prev = NoNode THEN clauses
                  ELSE [clauses EXCEPT ![prev.clause].next_watches[prev.index] =
                          NextNode(clauses, cursor).clause]
  IN [unlinked EXCEPT ![cur.clause].watched[cur.index] = new,
                      ![cur.clause].next_watches[cur.index] = heads[new]]

CursorAfterUpdate(clauses, cursor) ==
  [cursor EXCEPT !.current = NextNode(clauses, cursor)]

=============================================================================
