------------------------- MODULE SharedVectorProofs -------------------------
(***************************************************************************)
(* Proofs about the reference-counted vector, for any finite set of        *)
(* vectors, any buffers and any elements: that the counts are exact, and   *)
(* that it implements VectorValues, copy-on-write not to be told from      *)
(* copying.                                                                *)
(***************************************************************************)
EXTENDS SharedVector, FiniteSetTheorems, SequenceTheorems, TLAPS

\* Where an operation can be, and where it holds on to an old buffer.
Place == {"idle", "clone", "into_iter", "copy", "move", "release", "sub", "free", "write", "wait"}
Letting == {"into_iter", "copy", "move", "release", "sub", "free"}

\* An operation, whatever the position it writes to is.
IsOp(o) ==
  o \in [pc : Place, old : Buffer \cup {Static, None}, then : {None, "write", "receive"},
         taken : Nat, at : {o.at}, value : Element \cup {None},
         target : Handle \cup {None}, counted : BOOLEAN]

\* Every vector has one operation.
AreOps(ops) == ops = [h \in Handle |-> ops[h]] /\ \A h \in Handle : IsOp(ops[h])

\* A buffer, whatever its elements and its capacity are.
IsBlock(x) ==
  x \in [allocated : BOOLEAN, refcount : Nat, data : {x.data}, capacity : {x.capacity}]

\* The types the counts depend on.
Typed ==
  /\ heap = [b \in Buffer |-> heap[b]] /\ \A b \in Buffer : IsBlock(heap[b])
  /\ inner \in [Handle -> Buffer \cup {Static, None}]
  /\ AreOps(op)

\* Nobody but h refers to b.
Sole(h, b) == \A g \in Handle : g # h => inner[g] # b /\ op[g].old # b

\* An operation holds on to an old buffer from the place where it takes it out of
\* the vector to the place where it lets go of it, and the vector has another one
\* then, or none.
OldInPlace ==
  \A h \in Handle :
    /\ op[h].old # None <=> op[h].pc \in Letting
    /\ op[h].pc \in {"move", "sub", "free"} => op[h].old \in Buffer
    /\ op[h].pc \in Letting /\ op[h].then # "write" => inner[h] \in {None, Static}
    /\ op[h].then = "write" => op[h].pc \in Letting \cup {"write"}
    /\ op[h].then = "receive" => op[h].pc \in {"release", "sub", "free"} /\ inner[h] = None

\* A vector that is written to, now or once its old buffer is let go, has a buffer
\* of its own.
WriterIsSole ==
  \A h \in Handle : op[h].then = "write" \/ op[h].pc = "write" =>
    inner[h] \in Buffer /\ inner[h] # op[h].old /\ Sole(h, inner[h])

\* The one that has taken a count to zero is the only one that refers to the buffer.
FreerIsSole ==
  \A h \in Handle : op[h].pc \in {"free", "move"} =>
    heap[op[h].old].refcount = 0 /\ Sole(h, op[h].old)

\* A vector that is copied from or to waits for one operation only.
CopyInPlace ==
  \A h \in Handle :
    /\ op[h].target # None <=> op[h].pc = "clone" \/ op[h].then = "receive"
    /\ op[h].target # None =>
         /\ op[op[h].target].pc = "wait"
         /\ \A g \in Handle : op[g].target = op[h].target => g = h
    /\ op[h].pc = "clone" => inner[h] # None /\ inner[op[h].target] = None
    /\ op[h].then = "receive" => inner[op[h].target] # None

\* The decision to count a copy is still right when the count is incremented.
CopyIsCounted ==
  \A h \in Handle : op[h].pc = "clone" => (op[h].counted <=> inner[h] \in Buffer)

\* The inductive invariant of the reference counts.
Inv ==
  /\ Typed /\ OldInPlace /\ WriterIsSole /\ FreerIsSole /\ CopyInPlace /\ CopyIsCounted
  /\ RefcountIsExact /\ AllocatedIfUsed

\* The count of a buffer is a natural number.
LEMMA CountedFinite ==
  ASSUME NEW b
  PROVE  IsFiniteSet(Counted(b)) /\ Cardinality(Counted(b)) \in Nat
<1>1. Counted(b) \subseteq Handle
  BY DEF Counted, Users
<1> QED BY <1>1, FS_Subset, FS_CardinalityType, SharedVectorAssumption

\* A count of one means what the code takes it to mean: nobody else has the buffer.
LEMMA CountOfOne ==
  ASSUME Inv, NEW b \in Buffer, NEW h \in Handle, h \in Counted(b), heap[b].refcount = 1
  PROVE  Sole(h, b)
<1>1. heap[b].allocated
  BY DEF Inv, AllocatedIfUsed, Counted
<1>2. Cardinality(Counted(b)) = 1 /\ IsFiniteSet(Counted(b))
  BY <1>1, CountedFinite DEF Inv, RefcountIsExact
<1>3. Counted(b) = {h}
  BY <1>2, FS_Singleton
<1>4. ASSUME NEW g \in Handle, g # h, g \in Users(b)
      PROVE  FALSE
  <2>1. op[g].pc \in {"free", "move"} /\ op[g].old = b /\ inner[g] # b
    BY <1>3, <1>4 DEF Counted, Users
  <2>2. Sole(g, b)
    BY <2>1 DEF Inv, FreerIsSole
  <2> QED BY <2>2, <1>3, <1>4 DEF Sole, Counted, Users
<1> QED BY <1>4 DEF Sole, Users

\* The count of a buffer in use is positive: only the shared empty vector's is not.
LEMMA CountPositive ==
  ASSUME Inv, NEW b \in Buffer, NEW h \in Handle, h \in Counted(b)
  PROVE  heap[b].allocated /\ heap[b].refcount > 0
<1>1. heap[b].allocated
  BY DEF Inv, AllocatedIfUsed, Counted
<1>2. Cardinality(Counted(b)) # 0
  BY CountedFinite, FS_EmptySet
<1> QED BY <1>1, <1>2, CountedFinite DEF Inv, RefcountIsExact

\* The vectors that count may be added to and removed one at a time.
LEMMA CountChanges ==
  ASSUME NEW b, NEW h \in Handle
  PROVE  /\ h \notin Counted(b) => Cardinality(Counted(b) \cup {h}) = Cardinality(Counted(b)) + 1
         /\ h \in Counted(b) => Cardinality(Counted(b) \ {h}) = Cardinality(Counted(b)) - 1
  BY CountedFinite, FS_AddElement, FS_RemoveElement

\* An operation copies to or from a vector, or to none.
LEMMA TargetType ==
  ASSUME Typed
  PROVE  \A g \in Handle : op[g].target \in Handle \cup {None}
  BY DEF Typed, AreOps, IsOp

\* The fields of the operations' records.
LEMMA IdleFields ==
  /\ IsOp(Idle)
  /\ Idle.pc = "idle" /\ Idle.old = None /\ Idle.then = None /\ Idle.target = None
  BY DEF Idle, IsOp, AreOps, Place

\* The record of a vector that waits to be copied to.
LEMMA WaitFields ==
  LET o == [Idle EXCEPT !.pc = "wait"]
  IN /\ IsOp(o)
     /\ o.pc = "wait" /\ o.old = None /\ o.then = None /\ o.target = None
  BY DEF Idle, IsOp, AreOps, Place

\* The record of a copy under way is an operation.
LEMMA CloneRecord ==
  ASSUME NEW g \in Handle, NEW c \in BOOLEAN, NEW o,
         o = [Idle EXCEPT !.pc = "clone", !.target = g, !.counted = c]
  PROVE  IsOp(o)
  BY DEF Idle, IsOp, Place

\* A copy is counted if and only if it is one of a buffer.
LEMMA CloneOpFields ==
  ASSUME Inv, NEW h \in Handle, NEW g \in Handle, inner[h] # None, op[h].old = None
  PROVE  LET o == CloneOp(h, g)
         IN /\ IsOp(o)
            /\ o.pc = "clone" /\ o.old = None /\ o.then = None /\ o.target = g
            /\ o.counted <=> inner[h] \in Buffer
<1>1. /\ IsOp(CloneOp(h, g)) /\ CloneOp(h, g).pc = "clone"
      /\ CloneOp(h, g).old = None /\ CloneOp(h, g).then = None /\ CloneOp(h, g).target = g
      /\ CloneOp(h, g).counted = (Refcount(inner[h]) > 0)
  <2>1. (Refcount(inner[h]) > 0) \in BOOLEAN
    OBVIOUS
  <2>2. PICK c \in BOOLEAN : c = (Refcount(inner[h]) > 0)
    BY <2>1, Zenon
  <2>3. CloneOp(h, g) = [Idle EXCEPT !.pc = "clone", !.target = g, !.counted = c]
    BY <2>2, Zenon DEF CloneOp
  <2>4. IsOp(CloneOp(h, g))
    BY <2>3, CloneRecord
  <2>5. /\ CloneOp(h, g).pc = "clone" /\ CloneOp(h, g).old = None
        /\ CloneOp(h, g).then = None /\ CloneOp(h, g).target = g
        /\ CloneOp(h, g).counted = c
    BY <2>3 DEF Idle
  <2> QED BY <2>2, <2>4, <2>5, Zenon
<1>2. \A b \in Buffer : inner[h] = b => heap[b].refcount > 0
  BY CountPositive DEF Counted, Users
<1>3. Refcount(inner[h]) > 0 <=> inner[h] \in Buffer
  BY <1>2, SharedVectorAssumption DEF Refcount, Inv, Typed, Static, None
<1> QED BY <1>1, <1>3, Zenon

\* A step that starts no copy keeps the decisions of those under way.
LEMMA CopyStaysCounted ==
  ASSUME CopyIsCounted,
         \A g \in Handle : op'[g].pc = "clone" => op'[g] = op[g] /\ inner'[g] = inner[g]
  PROVE  CopyIsCounted'
  BY Zenon DEF CopyIsCounted

\* Vector::default refers to the shared empty buffer, which no count covers.
LEMMA DefaultStep ==
  ASSUME Inv, NEW h \in Handle, Default(h)
  PROVE  Inv'
<1> USE DEF Inv, Default, Absent
<1>1. Typed'
  BY DEF Typed
<1>2. OldInPlace'
  BY DEF OldInPlace, Typed, Idle, Letting
<1>3. WriterIsSole' /\ FreerIsSole'
  BY SharedVectorAssumption DEF WriterIsSole, FreerIsSole, Sole, Typed, Static, Idle, OldInPlace
<1>4. CopyInPlace'
  BY SharedVectorAssumption DEF CopyInPlace, Typed, Static, None, Idle
<1>5. CopyIsCounted'
  <2>1. \A g \in Handle : op'[g].pc = "clone" => op'[g] = op[g] /\ inner'[g] = inner[g]
    BY IdleFields DEF Typed
  <2> QED BY <2>1, CopyStaysCounted
<1>6. \A b \in Buffer : Users(b)' = Users(b) /\ Counted(b)' = Counted(b)
  BY SharedVectorAssumption DEF Users, Counted, Static, None, Typed
<1>7. RefcountIsExact' /\ AllocatedIfUsed'
  BY <1>6 DEF RefcountIsExact, AllocatedIfUsed
<1> QED BY <1>1, <1>2, <1>3, <1>4, <1>5, <1>7

\* from_iter takes a fresh buffer with a count of one.
LEMMA FromIterStep ==
  ASSUME Inv, NEW h \in Handle, FromIter(h)
  PROVE  Inv'
<1> USE DEF Inv
<1>0. PICK c \in Buffer, v \in Element, n \in 0 .. MaxLen : \E capacity \in {n, GrownTo[n]} :
        /\ ~heap[c].allocated
        /\ heap' = [heap EXCEPT ![c] = Header(1, [i \in 1 .. n |-> v], capacity)]
        /\ inner' = [inner EXCEPT ![h] = c]
  BY DEF FromIter
<1>1. PICK capacity \in {n, GrownTo[n]} :
        /\ ~heap[c].allocated
        /\ heap' = [heap EXCEPT ![c] = Header(1, [i \in 1 .. n |-> v], capacity)]
        /\ inner' = [inner EXCEPT ![h] = c]
  BY <1>0
<1>2. UNCHANGED op /\ inner[h] = None /\ op[h] = Idle
  BY DEF FromIter, Absent
<1>3. \A g \in Handle : inner[g] # c /\ op[g].old # c
  BY <1>1 DEF AllocatedIfUsed, Users
<1>a. Typed'
  BY <1>1, <1>2 DEF Typed, IsBlock, Header
<1>b. OldInPlace'
  BY <1>1, <1>2 DEF OldInPlace, Typed, Idle, Letting
<1>c. WriterIsSole' /\ FreerIsSole'
  BY <1>1, <1>2, <1>3, SharedVectorAssumption DEF WriterIsSole, FreerIsSole, Sole, Typed, Idle, OldInPlace
<1>d. CopyInPlace'
  BY <1>1, <1>2 DEF CopyInPlace, Typed, Idle
<1>f. CopyIsCounted'
  <2>1. \A g \in Handle : op'[g].pc = "clone" => op'[g] = op[g] /\ inner'[g] = inner[g]
    BY <1>1, <1>2, IdleFields DEF Typed
  <2> QED BY <2>1, CopyStaysCounted
<1>4. /\ Users(c)' = {h} /\ Counted(c)' = {h}
      /\ \A b \in Buffer : b # c => Users(b)' = Users(b) /\ Counted(b)' = Counted(b)
  BY <1>1, <1>2, <1>3, SharedVectorAssumption DEF Users, Counted, None, Typed, Idle
<1>e. RefcountIsExact' /\ AllocatedIfUsed'
  BY <1>1, <1>4, FS_Singleton DEF RefcountIsExact, AllocatedIfUsed, Typed, Header
<1> QED BY <1>a, <1>b, <1>c, <1>d, <1>e, <1>f

\* The start of a copy reserves its target and changes no count.
LEMMA CloneStep ==
  ASSUME Inv, NEW h \in Handle, Clone(h)
  PROVE  Inv'
<1> USE DEF Inv
<1>1. PICK t \in Handle :
        /\ Absent(t)
        /\ op' = [op EXCEPT ![h] = CloneOp(h, t), ![t] = [Idle EXCEPT !.pc = "wait"]]
  BY DEF Clone
<1>2. /\ UNCHANGED <<heap, inner>> /\ inner[h] # None /\ op[h] = Idle
      /\ inner[t] = None /\ op[t] = Idle /\ h # t
  BY <1>1 DEF Clone, Exists, Absent
<1>3. /\ IsOp(CloneOp(h, t)) /\ CloneOp(h, t).pc = "clone"
      /\ CloneOp(h, t).old = None /\ CloneOp(h, t).then = None
      /\ CloneOp(h, t).target = t /\ (CloneOp(h, t).counted <=> inner[h] \in Buffer)
  BY <1>2, CloneOpFields, IdleFields
<1>4. /\ AreOps(op')
      /\ op'[h] = CloneOp(h, t) /\ op'[t] = [Idle EXCEPT !.pc = "wait"]
      /\ \A g \in Handle : g # h /\ g # t => op'[g] = op[g]
  BY <1>1, <1>2, <1>3, WaitFields DEF Typed, AreOps
<1>5. /\ op'[h].pc = "clone" /\ op'[h].old = None /\ op'[h].then = None /\ op'[h].target = t
      /\ op'[t].pc = "wait" /\ op'[t].old = None /\ op'[t].then = None /\ op'[t].target = None
      /\ \A g \in Handle : g # h /\ g # t => op'[g] = op[g]
  BY <1>2, <1>3, <1>4, WaitFields
<1>a. Typed'
  BY <1>2, <1>4 DEF Typed
<1>b. OldInPlace'
  BY <1>2, <1>5 DEF OldInPlace, Letting, None
<1>c. WriterIsSole' /\ FreerIsSole'
  BY <1>2, <1>5, IdleFields DEF WriterIsSole, FreerIsSole, Sole, Typed, OldInPlace, None
<1>d. CopyInPlace'
  BY <1>2, <1>5, IdleFields, SharedVectorAssumption DEF CopyInPlace, Typed, IsOp, AreOps, None
<1>f. CopyIsCounted'
  <2>1. \A g \in Handle : g # h /\ op'[g].pc = "clone" => op'[g] = op[g]
    BY <1>5
  <2>2. inner' = inner
    BY <1>2
  <2>3. op'[h].counted <=> inner[h] \in Buffer
    BY <1>3, <1>4, Zenon
  <2> QED BY <2>1, <2>2, <2>3, Zenon DEF CopyIsCounted
<1>6. \A b \in Buffer : Users(b)' = Users(b) /\ Counted(b)' = Counted(b)
  BY <1>2, <1>5, IdleFields, SharedVectorAssumption DEF Users, Counted, None
<1>e. RefcountIsExact' /\ AllocatedIfUsed'
  BY <1>2, <1>6 DEF RefcountIsExact, AllocatedIfUsed
<1> QED BY <1>a, <1>b, <1>c, <1>d, <1>e, <1>f

\* The increment of clone and the new reference arrive together.
LEMMA CloneAddStep ==
  ASSUME Inv, NEW h \in Handle, CloneAdd(h)
  PROVE  Inv'
<1> USE DEF Inv
<1> DEFINE t == op[h].target
           p == inner[h]
<1>1. /\ op[h].pc = "clone" /\ t \in Handle /\ op[t].pc = "wait" /\ h # t
      /\ p # None /\ inner[t] = None /\ op[h].old = None /\ op[t].old = None
  BY DEF CloneAdd, At, CopyInPlace, Typed, IsOp, AreOps, OldInPlace, Letting
<1>2. /\ inner' = [inner EXCEPT ![t] = p]
      /\ op' = [op EXCEPT ![h] = Idle, ![t] = Idle]
  BY DEF CloneAdd
<1>3. heap' = IF p \in Buffer THEN [heap EXCEPT ![p].refcount = @ + 1] ELSE heap
  <2>1. op[h].counted <=> p \in Buffer
    BY <1>1, Zenon DEF CopyIsCounted
  <2> QED BY <2>1, Zenon DEF CloneAdd
<1> HIDE DEF t, p
<1>4. \A b \in Buffer : p = b => heap[b].allocated /\ heap[b].refcount > 0
  BY CountPositive DEF Counted, Users, p
<1>5. /\ heap' = [b \in Buffer |-> heap'[b]] /\ \A b \in Buffer : IsBlock(heap'[b])
      /\ \A b \in Buffer : /\ heap'[b].allocated = heap[b].allocated
                           /\ heap'[b].refcount = IF b = p THEN heap[b].refcount + 1 ELSE heap[b].refcount
  BY <1>3 DEF Typed, IsBlock
<1>a. Typed'
  BY <1>1, <1>2, <1>5, IdleFields DEF Typed, p, AreOps
<1>b. OldInPlace'
  BY <1>1, <1>2, IdleFields DEF OldInPlace, Typed, Letting, None, AreOps
<1>c. WriterIsSole'
  BY <1>1, <1>2, IdleFields, SharedVectorAssumption DEF WriterIsSole, Sole, Typed, None, p, AreOps
<1>d. FreerIsSole'
  BY <1>1, <1>2, <1>5, IdleFields, SharedVectorAssumption DEF FreerIsSole, Sole, Typed, OldInPlace, None, p, AreOps
<1>e. CopyInPlace'
  <2>1. /\ \A g \in Handle : g # t => inner'[g] = inner[g]
        /\ \A g \in Handle : g # h /\ g # t => op'[g] = op[g]
        /\ \A g \in {h, t} : op'[g].pc = "idle" /\ op'[g].then = None /\ op'[g].target = None
    BY <1>1, <1>2, IdleFields DEF Typed, AreOps
  <2> QED BY <1>1, <2>1, TargetType, SharedVectorAssumption DEF CopyInPlace, None, t
<1>6. \A b \in Buffer :
        /\ Users(b)' = IF b = p THEN Users(b) \cup {t} ELSE Users(b)
        /\ Counted(b)' = IF b = p THEN Counted(b) \cup {t} ELSE Counted(b)
        /\ t \notin Counted(b)
  BY <1>1, <1>2, SharedVectorAssumption DEF Users, Counted, None, Typed, Idle, AreOps
<1>f. RefcountIsExact'
  BY <1>1, <1>5, <1>6, CountChanges DEF RefcountIsExact
<1>g. AllocatedIfUsed'
  BY <1>4, <1>5, <1>6 DEF AllocatedIfUsed
<1>h. CopyIsCounted'
  <2>1. \A g \in Handle : op'[g].pc = "clone" => op'[g] = op[g] /\ inner'[g] = inner[g]
    BY <1>1, <1>2, IdleFields DEF Typed, AreOps
  <2> QED BY <2>1, CopyStaysCounted
<1> QED BY <1>a, <1>b, <1>c, <1>d, <1>e, <1>f, <1>g, <1>h

\* A vector's buffer is taken out of it, to be let go: the users stay the same.
LEMMA TakenOut ==
  ASSUME Inv, NEW h \in Handle, NEW q \in {None, Static}, inner[h] # None, op[h] = Idle,
         heap' = heap, inner' = [inner EXCEPT ![h] = q],
         AreOps(op'),
         op'[h].pc \in {"release", "into_iter"}, op'[h].old = inner[h],
         op'[h].then # "write",
         op'[h].then = "receive" => op'[h].pc = "release" /\ q = None,
         \A g \in Handle : g # h =>
           op'[g] = op[g] \/ (op[g] = Idle /\ op'[g] = [Idle EXCEPT !.pc = "wait"]),
         CopyInPlace'
  PROVE  Inv'
<1> USE DEF Inv
<1>1. \A g \in Handle : g # h =>
        /\ op'[g].old = op[g].old /\ op'[g].then = op[g].then
        /\ op'[g].pc = op[g].pc \/ (op[g].pc = "idle" /\ op'[g].pc = "wait")
        /\ inner'[g] = inner[g]
  BY IdleFields, WaitFields DEF Typed
<1>2. inner'[h] = q /\ op[h].pc = "idle" /\ op[h].old = None /\ op[h].then = None
  BY IdleFields DEF Typed
<1>a. Typed'
  BY DEF Typed
<1>b. OldInPlace'
  BY <1>1, <1>2 DEF OldInPlace, Letting, None
<1>c. WriterIsSole'
  BY <1>1, <1>2, SharedVectorAssumption DEF WriterIsSole, Sole, Typed, Static, None
<1>d. FreerIsSole'
  BY <1>1, <1>2, SharedVectorAssumption DEF FreerIsSole, Sole, Typed, Static, None, OldInPlace, AreOps
<1>e. CopyIsCounted'
  <2>1. \A g \in Handle : op'[g].pc = "clone" => op'[g] = op[g] /\ inner'[g] = inner[g]
    BY <1>1, WaitFields
  <2> QED BY <2>1, CopyStaysCounted
<1>3. \A b \in Buffer : Users(b)' = Users(b) /\ Counted(b)' = Counted(b)
  BY <1>1, <1>2, SharedVectorAssumption DEF Users, Counted, Static, None, Typed
<1>f. RefcountIsExact' /\ AllocatedIfUsed'
  BY <1>3 DEF RefcountIsExact, AllocatedIfUsed
<1> QED BY <1>a, <1>b, <1>c, <1>d, <1>e, <1>f

\* The record of an operation that lets go of buffer p.
LEMMA ReleasingFields ==
  ASSUME NEW p \in Buffer \cup {Static}, NEW then \in {None, "receive"}
  PROVE  LET o == Releasing(p, then)
         IN /\ IsOp(o)
            /\ o.pc = "release" /\ o.old = p /\ o.then = then /\ o.target = None
  BY DEF Releasing, Idle, IsOp, AreOps, Place

\* drop takes the buffer out of the vector; the operation refers to it from then on.
LEMMA DropStep ==
  ASSUME Inv, NEW h \in Handle, Drop(h)
  PROVE  Inv'
<1> USE DEF Inv
<1>1. /\ inner[h] # None /\ op[h] = Idle /\ inner[h] \in Buffer \cup {Static}
      /\ heap' = heap /\ inner' = [inner EXCEPT ![h] = None]
      /\ op' = [op EXCEPT ![h] = Releasing(inner[h], None)]
  BY DEF Drop, Exists, Typed
<1>2. /\ AreOps(op')
      /\ op'[h].pc = "release" /\ op'[h].old = inner[h] /\ op'[h].then = None
      /\ op'[h].target = None
      /\ \A g \in Handle : g # h => op'[g] = op[g]
  BY <1>1, ReleasingFields DEF Typed, AreOps
<1>3. CopyInPlace'
  BY <1>1, <1>2, IdleFields DEF CopyInPlace, Typed, IsOp, AreOps, None
<1> QED BY <1>1, <1>2, <1>3, TakenOut DEF None

\* into_iter hands the buffer from the vector to its iterator.
LEMMA IntoIterStep ==
  ASSUME Inv, NEW h \in Handle, IntoIter(h)
  PROVE  Inv'
<1> USE DEF Inv
<1>1. /\ inner[h] # None /\ op[h] = Idle /\ inner[h] \in Buffer \cup {Static}
      /\ heap' = heap /\ inner' = [inner EXCEPT ![h] = None]
      /\ op' = [op EXCEPT ![h] = [Idle EXCEPT !.pc = "into_iter", !.old = inner[h]]]
  BY DEF IntoIter, Exists, Typed
<1>2. LET o == [Idle EXCEPT !.pc = "into_iter", !.old = inner[h]]
      IN /\ IsOp(o)
         /\ o.pc = "into_iter" /\ o.old = inner[h] /\ o.then = None /\ o.target = None
  BY <1>1 DEF Idle, IsOp, AreOps, Place
<1>3. /\ AreOps(op')
      /\ op'[h].pc = "into_iter" /\ op'[h].old = inner[h] /\ op'[h].then = None
      /\ op'[h].target = None
      /\ \A g \in Handle : g # h => op'[g] = op[g]
  BY <1>1, <1>2 DEF Typed, AreOps
<1>4. CopyInPlace'
  BY <1>1, <1>3, IdleFields DEF CopyInPlace, Typed, IsOp, AreOps, None
<1> QED BY <1>1, <1>3, <1>4, TakenOut DEF None

\* operator= takes the old buffer out of the vector, which becomes a target.
LEMMA AssignStep ==
  ASSUME Inv, NEW h \in Handle, NEW t \in Handle, Assign(h, t)
  PROVE  Inv'
<1> USE DEF Inv
<1> DEFINE o == [Releasing(inner[h], "receive") EXCEPT !.target = t]
<1>1. /\ inner[h] # None /\ op[h] = Idle /\ inner[h] \in Buffer \cup {Static}
      /\ inner[t] # None /\ op[t] = Idle /\ h # t
      /\ heap' = heap /\ inner' = [inner EXCEPT ![h] = None]
      /\ op' = [op EXCEPT ![h] = o, ![t] = [Idle EXCEPT !.pc = "wait"]]
  BY DEF Assign, Exists, Typed
<1>2. /\ IsOp(o)
      /\ o.pc = "release" /\ o.old = inner[h] /\ o.then = "receive" /\ o.target = t
  BY <1>1 DEF Releasing, Idle, IsOp, AreOps, Place
<1> HIDE DEF o
<1>3. /\ AreOps(op')
      /\ op'[h].pc = "release" /\ op'[h].old = inner[h] /\ op'[h].then = "receive"
      /\ op'[h].target = t /\ op'[t] = [Idle EXCEPT !.pc = "wait"]
      /\ \A g \in Handle : g # h /\ g # t => op'[g] = op[g]
  BY <1>1, <1>2, WaitFields DEF Typed, AreOps
<1>4. CopyInPlace'
  <2>1. /\ op'[t].pc = "wait" /\ op'[t].then = None /\ op'[t].target = None
        /\ inner'[h] = None /\ \A g \in Handle : g # h => inner'[g] = inner[g]
    BY <1>1, <1>3, WaitFields DEF Typed
  <2>2. op[h].pc = "idle" /\ op[t].pc = "idle"
    BY <1>1, IdleFields
  <2>3. /\ op'[h].pc = "release" /\ op'[h].then = "receive" /\ op'[h].target = t
        /\ h # t /\ inner[t] # None
        /\ \A g \in Handle : g # h /\ g # t => op'[g] = op[g]
    BY <1>1, <1>3
  <2> QED BY <2>1, <2>2, <2>3, TargetType, SharedVectorAssumption DEF CopyInPlace, None
<1>5. \A g \in Handle : g # h =>
        op'[g] = op[g] \/ (op[g] = Idle /\ op'[g] = [Idle EXCEPT !.pc = "wait"])
  BY <1>1, <1>3
<1> QED BY <1>1, <1>3, <1>4, <1>5, TakenOut DEF None

\* The old buffer is let go and the operation resumes: everything that does not
\* depend on the counts is kept, and h no longer refers to the old buffer.
LEMMA LetGo ==
  ASSUME Inv, NEW h \in Handle, op[h].pc \in Letting, op' = Resumed(h), inner' = inner
  PROVE  /\ AreOps(op')
         /\ op'[h].old = None /\ \A g \in Handle : g # h => op'[g].old = op[g].old
         /\ \A g \in Handle : op'[g].pc \in {"free", "move"} => g # h /\ op'[g] = op[g]
         /\ \A g \in Handle : g # h /\ op[g].pc \in {"free", "move"} => op'[g] = op[g]
         /\ OldInPlace' /\ WriterIsSole' /\ CopyInPlace' /\ CopyIsCounted'
<1> USE DEF Inv
<1> DEFINE t == op[h].target
<1>0. AreOps(op) /\ op[h].then \in {None, "write", "receive"}
  BY DEF Typed, IsOp, AreOps
<1>1. CASE op[h].then = "write"
  <2>1. op' = [op EXCEPT ![h] = [@ EXCEPT !.pc = "write", !.old = None]]
    BY <1>1 DEF Resumed
  <2>2. /\ AreOps(op')
        /\ op'[h].pc = "write" /\ op'[h].old = None /\ op'[h].then = "write"
        /\ op'[h].target = op[h].target
        /\ \A g \in Handle : g # h => op'[g] = op[g]
    <3> DEFINE o == [op[h] EXCEPT !.pc = "write", !.old = None]
    <3>1. /\ IsOp(o) /\ o.pc = "write" /\ o.old = None
          /\ o.then = op[h].then /\ o.target = op[h].target
      BY <1>0 DEF IsOp, AreOps, Place
    <3> HIDE DEF o
    <3>2. op' = [op EXCEPT ![h] = o]
      BY <2>1 DEF o
    <3> QED BY <1>0, <1>1, <3>1, <3>2 DEF AreOps
  <2>3. OldInPlace'
    BY <2>2 DEF OldInPlace, Letting, None
  <2>4. WriterIsSole'
    BY <1>1, <2>2, SharedVectorAssumption DEF WriterIsSole, Sole, None
  <2>5. CopyInPlace'
    BY <1>0, <1>1, <2>2, SharedVectorAssumption DEF CopyInPlace, IsOp, AreOps, Letting, None
  <2>6. CopyIsCounted'
    <3>1. \A g \in Handle : op'[g].pc = "clone" => op'[g] = op[g] /\ inner'[g] = inner[g]
      BY <2>2
    <3> QED BY <3>1, CopyStaysCounted
  <2> QED BY <2>2, <2>3, <2>4, <2>5, <2>6
<1>2. CASE op[h].then = "receive"
  <2>1. op' = [op EXCEPT ![h] = [Idle EXCEPT !.pc = "wait"], ![t] = CloneOp(t, h)]
    BY <1>2 DEF Resumed
  <2>2. /\ t \in Handle /\ op[t].pc = "wait" /\ h # t /\ inner[h] = None
        /\ inner[t] # None /\ op[t].old = None
    BY <1>0, <1>2, SharedVectorAssumption DEF CopyInPlace, OldInPlace, IsOp, AreOps, Letting, None
  <2> HIDE DEF t
  <2>3. /\ IsOp(CloneOp(t, h)) /\ CloneOp(t, h).pc = "clone"
        /\ CloneOp(t, h).old = None /\ CloneOp(t, h).then = None
        /\ CloneOp(t, h).target = h
        /\ CloneOp(t, h).counted <=> inner[t] \in Buffer
    BY <2>2, CloneOpFields
  <2>4. /\ AreOps(op')
        /\ op'[h] = [Idle EXCEPT !.pc = "wait"] /\ op'[t] = CloneOp(t, h)
        /\ \A g \in Handle : g # h /\ g # t => op'[g] = op[g]
    BY <1>0, <2>1, <2>2, <2>3, WaitFields DEF AreOps
  <2>5. /\ op'[t].pc = "clone" /\ op'[t].old = None /\ op'[t].then = None
        /\ op'[t].target = h
        /\ op'[h].pc = "wait" /\ op'[h].old = None /\ op'[h].then = None
        /\ op'[h].target = None
        /\ \A g \in Handle : g # h /\ g # t => op'[g] = op[g]
    BY <2>3, <2>4, WaitFields
  <2>6. OldInPlace'
    BY <2>2, <2>5 DEF OldInPlace, Letting, None
  <2>7. WriterIsSole'
    BY <2>2, <2>5, SharedVectorAssumption DEF WriterIsSole, Sole, None
  <2>8. CopyInPlace'
    BY <1>2, <2>2, <2>5, TargetType, SharedVectorAssumption DEF CopyInPlace, Letting, None, t
  <2>9. CopyIsCounted'
    <3>1. \A g \in Handle : g # t /\ op'[g].pc = "clone" => op'[g] = op[g]
      BY <2>5
    <3>2. op'[t].counted <=> inner[t] \in Buffer
      BY <2>3, <2>4, Zenon
    <3> QED BY <3>1, <3>2, Zenon DEF CopyIsCounted
  <2>10. /\ \A g \in Handle : g # h => op'[g].old = op[g].old
         /\ \A g \in Handle : op'[g].pc \in {"free", "move"} => g # h /\ op'[g] = op[g]
         /\ \A g \in Handle : g # h /\ op[g].pc \in {"free", "move"} => op'[g] = op[g]
    BY <2>2, <2>5
  <2> QED BY <2>4, <2>5, <2>6, <2>7, <2>8, <2>9, <2>10
<1>3. CASE op[h].then = None
  <2>1. op' = [op EXCEPT ![h] = Idle]
    BY <1>3 DEF Resumed, None
  <2>2. /\ AreOps(op')
        /\ op'[h].pc = "idle" /\ op'[h].old = None /\ op'[h].then = None
        /\ op'[h].target = None
        /\ \A g \in Handle : g # h => op'[g] = op[g]
    BY <1>0, <2>1, IdleFields DEF AreOps
  <2>3. OldInPlace'
    BY <2>2 DEF OldInPlace, Letting, None
  <2>4. WriterIsSole'
    BY <2>2, SharedVectorAssumption DEF WriterIsSole, Sole, None
  <2>5. CopyInPlace'
    BY <1>0, <1>3, <2>2, SharedVectorAssumption DEF CopyInPlace, IsOp, AreOps, Letting, None
  <2>6. CopyIsCounted'
    <3>1. \A g \in Handle : op'[g].pc = "clone" => op'[g] = op[g] /\ inner'[g] = inner[g]
      BY <2>2
    <3> QED BY <3>1, CopyStaysCounted
  <2> QED BY <2>2, <2>3, <2>4, <2>5, <2>6
<1> QED BY <1>0, <1>1, <1>2, <1>3

\* The operation goes on with the same old buffer.
LEMMA GoesOn ==
  ASSUME Inv, NEW h \in Handle, NEW o, IsOp(o), op[h].pc \in Letting, o.pc \in Letting,
         o.old = op[h].old, o.then = op[h].then, o.target = op[h].target,
         o.pc \in {"move", "sub", "free"} => o.old \in Buffer,
         o.then = "receive" => o.pc \in {"release", "sub", "free"},
         op' = [op EXCEPT ![h] = o], inner' = inner
  PROVE  /\ AreOps(op')
         /\ \A g \in Handle : op'[g].old = op[g].old
         /\ op'[h] = o /\ \A g \in Handle : g # h => op'[g] = op[g]
         /\ \A b \in Buffer : Users(b)' = Users(b)
         /\ OldInPlace' /\ WriterIsSole' /\ CopyInPlace' /\ CopyIsCounted'
<1> USE DEF Inv
<1>1. /\ AreOps(op')
      /\ \A g \in Handle : op'[g].old = op[g].old
      /\ op'[h] = o /\ \A g \in Handle : g # h => op'[g] = op[g]
  BY DEF Typed, AreOps
<1>2. \A b \in Buffer : Users(b)' = Users(b)
  BY <1>1 DEF Users
<1>3. OldInPlace'
  BY <1>1 DEF OldInPlace
<1>4. WriterIsSole'
  BY <1>1 DEF WriterIsSole, Sole, Letting
<1>5. CopyInPlace'
  BY <1>1 DEF CopyInPlace, Letting, Typed, IsOp, AreOps
<1>6. CopyIsCounted'
  <2>1. \A g \in Handle : op'[g].pc = "clone" => op'[g] = op[g] /\ inner'[g] = inner[g]
    BY <1>1 DEF Letting
  <2> QED BY <2>1, CopyStaysCounted
<1> QED BY <1>1, <1>2, <1>3, <1>4, <1>5, <1>6

\* The record of an operation at another place.
LEMMA PlaceFields ==
  ASSUME Typed, NEW h \in Handle, NEW pc \in Place
  PROVE  LET o == [op[h] EXCEPT !.pc = pc]
         IN /\ IsOp(o) /\ o.pc = pc
            /\ o.old = op[h].old /\ o.then = op[h].then /\ o.target = op[h].target
            /\ [op EXCEPT ![h].pc = pc] = [op EXCEPT ![h] = o]
  BY DEF Typed, IsOp, AreOps

\* The operation comes to a place at which the old buffer still counts.
LEMMA NextPlace ==
  ASSUME Inv, NEW h \in Handle, NEW q \in {"copy", "release", "sub"},
         op[h].pc \in {"into_iter", "copy", "release"},
         q = "copy" => op[h].pc = "into_iter", q = "sub" => op[h].old \in Buffer,
         heap' = heap, inner' = inner, op' = [op EXCEPT ![h].pc = q]
  PROVE  Inv'
<1> USE DEF Inv
<1> DEFINE o == [op[h] EXCEPT !.pc = q]
<1>1. /\ IsOp(o) /\ o.pc = q
      /\ o.old = op[h].old /\ o.then = op[h].then /\ o.target = op[h].target
      /\ op' = [op EXCEPT ![h] = o]
  <2>1. q \in Place
    BY DEF Place
  <2> QED BY <2>1, PlaceFields
<1> HIDE DEF o
<1>2. op[h].then = "receive" => q # "copy"
  BY DEF OldInPlace
<1>3. /\ AreOps(op')
      /\ \A g \in Handle : op'[g].old = op[g].old
      /\ op'[h] = o /\ \A g \in Handle : g # h => op'[g] = op[g]
      /\ \A b \in Buffer : Users(b)' = Users(b)
      /\ OldInPlace' /\ WriterIsSole' /\ CopyInPlace' /\ CopyIsCounted'
  BY <1>1, <1>2, GoesOn DEF Letting
<1>4. FreerIsSole'
  BY <1>1, <1>3 DEF FreerIsSole, Sole
<1>5. \A b \in Buffer : Counted(b)' = Counted(b)
  BY <1>1, <1>3 DEF Users, Counted
<1> QED BY <1>3, <1>4, <1>5 DEF Typed, RefcountIsExact, AllocatedIfUsed

\* The load of the count in drop lets go of the shared empty buffer only.
LEMMA ReleaseLoadStep ==
  ASSUME Inv, NEW h \in Handle, ReleaseLoad(h)
  PROVE  Inv'
<1> USE DEF Inv
<1>1. /\ op[h].pc = "release" /\ heap' = heap /\ inner' = inner
      /\ op[h].old \in Buffer \cup {Static}
      /\ op' = IF Refcount(op[h].old) < 0 THEN Resumed(h) ELSE [op EXCEPT ![h].pc = "sub"]
  BY DEF ReleaseLoad, At, Typed, IsOp, AreOps, OldInPlace, Letting
<1>2. CASE op[h].old = Static
  <2>1. op' = Resumed(h)
    BY <1>1, <1>2 DEF Refcount
  <2>2. /\ AreOps(op')
        /\ op'[h].old = None /\ \A g \in Handle : g # h => op'[g].old = op[g].old
        /\ \A g \in Handle : op'[g].pc \in {"free", "move"} => g # h /\ op'[g] = op[g]
        /\ \A g \in Handle : g # h /\ op[g].pc \in {"free", "move"} => op'[g] = op[g]
        /\ OldInPlace' /\ WriterIsSole' /\ CopyInPlace' /\ CopyIsCounted'
    BY <1>1, <2>1, LetGo DEF Letting
  <2>3. FreerIsSole'
    BY <1>1, <2>2, SharedVectorAssumption DEF FreerIsSole, Sole, OldInPlace, None
  <2>4. \A b \in Buffer : Users(b)' = Users(b) /\ Counted(b)' = Counted(b)
    BY <1>1, <1>2, <2>2, SharedVectorAssumption DEF Users, Counted, Static, None
  <2> QED BY <1>1, <2>2, <2>3, <2>4 DEF Typed, RefcountIsExact, AllocatedIfUsed
<1>3. CASE op[h].old \in Buffer
  <2>1. op' = [op EXCEPT ![h].pc = "sub"]
    BY <1>1, <1>3, SharedVectorAssumption DEF Refcount, Static, Typed, IsBlock
  <2> QED BY <1>1, <1>3, <2>1, NextPlace
<1> QED BY <1>1, <1>2, <1>3

\* The last user takes the count to zero: it alone refers to the buffer.
LEMMA TakenToZero ==
  ASSUME Inv, NEW h \in Handle, NEW q \in {"free", "move"}, NEW p \in Buffer,
         op[h].pc \in {"sub", "into_iter"}, q = "move" => op[h].pc = "into_iter",
         op[h].old = p, inner[h] # p, heap[p].refcount = 1,
         heap' = [b \in Buffer |-> heap'[b]], \A b \in Buffer : IsBlock(heap'[b]),
         \A b \in Buffer : /\ heap'[b].allocated = heap[b].allocated
                           /\ heap'[b].refcount = IF b = p THEN 0 ELSE heap[b].refcount,
         inner' = inner, op' = [op EXCEPT ![h].pc = q]
  PROVE  Inv'
<1> USE DEF Inv
<1> DEFINE o == [op[h] EXCEPT !.pc = q]
<1>1. h \in Counted(p)
  BY DEF Counted, Users
<1>2. Sole(h, p)
  BY <1>1, CountOfOne
<1>3. /\ IsOp(o) /\ o.pc = q
      /\ o.old = op[h].old /\ o.then = op[h].then /\ o.target = op[h].target
      /\ op' = [op EXCEPT ![h] = o]
  <2>1. q \in Place
    BY DEF Place
  <2> QED BY <2>1, PlaceFields
<1> HIDE DEF o
<1>4. op[h].then = "receive" => q = "free"
  BY DEF OldInPlace
<1>5. /\ AreOps(op')
      /\ \A g \in Handle : op'[g].old = op[g].old
      /\ op'[h] = o /\ \A g \in Handle : g # h => op'[g] = op[g]
      /\ \A b \in Buffer : Users(b)' = Users(b)
      /\ OldInPlace' /\ WriterIsSole' /\ CopyInPlace' /\ CopyIsCounted'
  BY <1>3, <1>4, GoesOn DEF Letting
<1>6. FreerIsSole'
  BY <1>2, <1>3, <1>5 DEF FreerIsSole, Sole, OldInPlace
<1>7. \A b \in Buffer : Counted(b)' = IF b = p THEN Counted(b) \ {h} ELSE Counted(b)
  BY <1>1, <1>3, <1>5 DEF Users, Counted
<1>8. RefcountIsExact'
  BY <1>1, <1>7, CountChanges DEF RefcountIsExact
<1>9. AllocatedIfUsed'
  BY <1>5 DEF AllocatedIfUsed
<1> QED BY <1>5, <1>6, <1>8, <1>9 DEF Typed

\* The decrement is the end of one reference; the last one owns the buffer alone.
LEMMA ReleaseSubStep ==
  ASSUME Inv, NEW h \in Handle, ReleaseSub(h)
  PROVE  Inv'
<1> USE DEF Inv
<1> DEFINE p == op[h].old
<1>1. /\ op[h].pc = "sub" /\ inner' = inner /\ p \in Buffer /\ inner[h] # p
      /\ heap' = [heap EXCEPT ![p].refcount = @ - 1]
      /\ op' = IF heap[p].refcount = 1 THEN [op EXCEPT ![h].pc = "free"] ELSE Resumed(h)
  BY SharedVectorAssumption
     DEF ReleaseSub, At, OldInPlace, WriterIsSole, Letting, Static, None
<1>2. h \in Counted(p)
  BY <1>1 DEF Counted, Users
<1>3. heap[p].allocated /\ heap[p].refcount > 0
  BY <1>1, <1>2, CountPositive
<1> HIDE DEF p
<1>4. /\ heap' = [b \in Buffer |-> heap'[b]] /\ \A b \in Buffer : IsBlock(heap'[b])
      /\ \A b \in Buffer : /\ heap'[b].allocated = heap[b].allocated
                           /\ heap'[b].refcount = IF b = p THEN heap[b].refcount - 1 ELSE heap[b].refcount
  BY <1>1, <1>3 DEF Typed, IsBlock
<1>5. \A g \in Handle : g # h /\ op[g].pc \in {"free", "move"} => op[g].old # p
  BY <1>1 DEF FreerIsSole, Sole, p
<1>6. CASE heap[p].refcount = 1
  <2>1. op' = [op EXCEPT ![h].pc = "free"]
    BY <1>1, <1>6
  <2>2. \A b \in Buffer : /\ heap'[b].allocated = heap[b].allocated
                          /\ heap'[b].refcount = IF b = p THEN 0 ELSE heap[b].refcount
    BY <1>4, <1>6
  <2> QED BY <1>1, <1>4, <1>6, <2>1, <2>2, TakenToZero DEF p
<1>7. CASE heap[p].refcount # 1
  <2>1. op' = Resumed(h)
    BY <1>1, <1>7
  <2>2. /\ AreOps(op')
        /\ op'[h].old = None /\ \A g \in Handle : g # h => op'[g].old = op[g].old
        /\ \A g \in Handle : op'[g].pc \in {"free", "move"} => g # h /\ op'[g] = op[g]
        /\ \A g \in Handle : g # h /\ op[g].pc \in {"free", "move"} => op'[g] = op[g]
        /\ OldInPlace' /\ WriterIsSole' /\ CopyInPlace' /\ CopyIsCounted'
    BY <1>1, <2>1, LetGo DEF Letting
  <2>3. FreerIsSole'
    BY <1>1, <1>4, <1>5, <2>2, SharedVectorAssumption DEF FreerIsSole, Sole, OldInPlace, None
  <2>4. \A b \in Buffer :
          /\ Users(b)' = IF b = p THEN Users(b) \ {h} ELSE Users(b)
          /\ Counted(b)' = IF b = p THEN Counted(b) \ {h} ELSE Counted(b)
    BY <1>1, <2>2, SharedVectorAssumption DEF Users, Counted, None, p
  <2>5. RefcountIsExact'
    BY <1>2, <1>4, <2>4, CountChanges DEF RefcountIsExact
  <2>6. Cardinality(Counted(p)) > 1
    BY <1>1, <1>3, <1>7 DEF RefcountIsExact, Typed, IsBlock
  <2>7. Counted(p) # {h}
    BY <2>6, FS_Singleton, CountedFinite
  <2>8. AllocatedIfUsed'
    BY <1>1, <1>2, <1>3, <1>4, <2>4, <2>7 DEF AllocatedIfUsed, Counted
  <2> QED BY <1>1, <1>4, <2>2, <2>3, <2>5, <2>8 DEF Typed
<1> QED BY <1>6, <1>7

\* The only user frees the buffer and goes on.
LEMMA OldFreed ==
  ASSUME Inv, NEW h \in Handle, op[h].pc \in {"free", "move"},
         heap' = [heap EXCEPT ![op[h].old] = Freed], op' = Resumed(h), inner' = inner
  PROVE  Inv'
<1> USE DEF Inv
<1> DEFINE p == op[h].old
<1>1. /\ p \in Buffer /\ inner[h] # p /\ Sole(h, p)
  BY SharedVectorAssumption
     DEF OldInPlace, WriterIsSole, FreerIsSole, Letting, Static, None
<1>2. /\ AreOps(op')
      /\ op'[h].old = None /\ \A g \in Handle : g # h => op'[g].old = op[g].old
      /\ \A g \in Handle : op'[g].pc \in {"free", "move"} => g # h /\ op'[g] = op[g]
      /\ \A g \in Handle : g # h /\ op[g].pc \in {"free", "move"} => op'[g] = op[g]
      /\ OldInPlace' /\ WriterIsSole' /\ CopyInPlace' /\ CopyIsCounted'
  BY LetGo DEF Letting
<1> HIDE DEF p
<1>3. /\ heap' = [b \in Buffer |-> heap'[b]] /\ \A b \in Buffer : IsBlock(heap'[b])
      /\ ~heap'[p].allocated /\ \A b \in Buffer : b # p => heap'[b] = heap[b]
  BY <1>1 DEF Typed, IsBlock, Freed, p
<1>4. FreerIsSole'
  BY <1>1, <1>2, <1>3, SharedVectorAssumption DEF FreerIsSole, Sole, OldInPlace, None
<1>5. /\ \A b \in Buffer : b = p => Users(b)' = {}
      /\ \A b \in Buffer : b # p => Users(b)' = Users(b) /\ Counted(b)' = Counted(b)
  BY <1>1, <1>2, SharedVectorAssumption DEF Users, Counted, Sole, None, p
<1>6. RefcountIsExact'
  BY <1>3, <1>5, Zenon DEF RefcountIsExact
<1>7. AllocatedIfUsed'
  BY <1>3, <1>5, Zenon DEF AllocatedIfUsed
<1> QED BY <1>2, <1>3, <1>4, <1>6, <1>7 DEF Typed

\* drop_inner frees a buffer nobody else refers to.
LEMMA ReleaseFreeStep ==
  ASSUME Inv, NEW h \in Handle, ReleaseFree(h)
  PROVE  Inv'
  BY OldFreed DEF ReleaseFree, At

\* into_iter takes a count of one to zero, and owns the buffer alone then.
LEMMA IntoIterLoadStep ==
  ASSUME Inv, NEW h \in Handle, IntoIterLoad(h)
  PROVE  Inv'
<1> USE DEF Inv
<1> DEFINE p == op[h].old
<1>1. /\ op[h].pc = "into_iter" /\ inner' = inner /\ p \in Buffer \cup {Static}
      /\ p \in Buffer => inner[h] # p
  BY SharedVectorAssumption
     DEF IntoIterLoad, At, Typed, IsOp, AreOps, OldInPlace, WriterIsSole, Letting, Static, None
<1>2. CASE Refcount(p) = 1
  <2>1. p \in Buffer /\ heap[p].refcount = 1
    BY <1>1, <1>2 DEF Refcount
  <2>2. heap' = [heap EXCEPT ![p].refcount = 0] /\ op' = [op EXCEPT ![h].pc = "move"]
    BY <1>2 DEF IntoIterLoad
  <2>3. /\ heap' = [b \in Buffer |-> heap'[b]] /\ \A b \in Buffer : IsBlock(heap'[b])
        /\ \A b \in Buffer : /\ heap'[b].allocated = heap[b].allocated
                             /\ heap'[b].refcount = IF b = p THEN 0 ELSE heap[b].refcount
    BY <2>1, <2>2 DEF Typed, IsBlock
  <2> QED BY <1>1, <2>1, <2>2, <2>3, TakenToZero
<1>3. CASE Refcount(p) # 1
  <2>1. heap' = heap /\ op' = [op EXCEPT ![h].pc = "copy"]
    BY <1>3 DEF IntoIterLoad
  <2> QED BY <1>1, <2>1, NextPlace
<1> QED BY <1>2, <1>3

\* The drop of the iterator frees the buffer it moved from, or lets go of a shared one.
LEMMA DropIterStep ==
  ASSUME Inv, NEW h \in Handle, DropIter(h)
  PROVE  Inv'
<1> USE DEF Inv
<1>1. CASE op[h].pc = "move"
  BY <1>1, OldFreed DEF DropIter, At
<1>2. CASE op[h].pc = "copy"
  BY <1>2, NextPlace DEF DropIter, At
<1> QED BY <1>1, <1>2 DEF DropIter

\* A step that writes elements leaves counts and users alone.
LEMMA ElementsOnly ==
  ASSUME NEW b \in Buffer, NEW data, Typed, heap' = [heap EXCEPT ![b].data = data]
  PROVE  /\ heap' = [c \in Buffer |-> heap'[c]] /\ \A c \in Buffer : IsBlock(heap'[c])
         /\ \A c \in Buffer : heap'[c].allocated = heap[c].allocated
         /\ \A c \in Buffer : heap'[c].refcount = heap[c].refcount
  BY DEF Typed, IsBlock

\* Taking an element changes no reference.
LEMMA TakeElementStep ==
  ASSUME Inv, NEW h \in Handle, TakeElement(h)
  PROVE  Inv'
<1> USE DEF Inv
<1> DEFINE o == [op[h] EXCEPT !.taken = @ + 1]
<1>1. /\ op[h].pc \in {"copy", "move"} /\ inner' = inner
      /\ op' = [op EXCEPT ![h].taken = @ + 1]
  BY DEF TakeElement
<1>2. /\ IsOp(o) /\ o.pc = op[h].pc
      /\ o.old = op[h].old /\ o.then = op[h].then /\ o.target = op[h].target
      /\ op' = [op EXCEPT ![h] = o]
  BY <1>1 DEF Typed, IsOp, AreOps
<1> HIDE DEF o
<1>3. /\ AreOps(op')
      /\ \A g \in Handle : op'[g].old = op[g].old
      /\ op'[h] = o /\ \A g \in Handle : g # h => op'[g] = op[g]
      /\ \A b \in Buffer : Users(b)' = Users(b)
      /\ OldInPlace' /\ WriterIsSole' /\ CopyInPlace' /\ CopyIsCounted'
  <2>1. op[h].then # "receive" /\ (op[h].pc = "move" => op[h].old \in Buffer)
    BY <1>1 DEF OldInPlace
  <2> QED BY <1>1, <1>2, <2>1, GoesOn DEF Letting
<1>4. /\ heap' = [b \in Buffer |-> heap'[b]] /\ \A b \in Buffer : IsBlock(heap'[b])
      /\ \A b \in Buffer : heap'[b].allocated = heap[b].allocated
      /\ \A b \in Buffer : heap'[b].refcount = heap[b].refcount
  <2>1. CASE op[h].then = "write"
    <3> DEFINE data == Append(heap[inner[h]].data, Data(op[h].old)[op[h].taken + 1])
    <3>1. inner[h] \in Buffer /\ heap' = [heap EXCEPT ![inner[h]].data = data]
      BY <2>1 DEF TakeElement, WriterIsSole
    <3> HIDE DEF data
    <3> QED BY <3>1, ElementsOnly
  <2>2. CASE op[h].then # "write"
    BY <2>2 DEF TakeElement, Typed
  <2> QED BY <2>1, <2>2
<1>5. FreerIsSole'
  <2>1. \A g \in Handle : op[g].pc \in {"free", "move"} => op[g].old \in Buffer
    BY DEF OldInPlace
  <2>2. \A b \in Buffer : heap'[b].refcount = heap[b].refcount
    BY <1>4
  <2> QED BY <1>1, <1>2, <1>3, <2>1, <2>2 DEF FreerIsSole, Sole
<1>6. \A b \in Buffer : Counted(b)' = Counted(b)
  BY <1>1, <1>2, <1>3 DEF Users, Counted
<1>7. RefcountIsExact' /\ AllocatedIfUsed'
  BY <1>3, <1>4, <1>6 DEF RefcountIsExact, AllocatedIfUsed
<1> QED BY <1>1, <1>3, <1>4, <1>5, <1>7 DEF Typed

\* The write changes no reference.
LEMMA WriteStep ==
  ASSUME Inv, NEW h \in Handle, Write(h)
  PROVE  Inv'
<1> USE DEF Inv
<1>1. /\ op[h].pc = "write" /\ inner' = inner /\ op' = [op EXCEPT ![h] = Idle]
      /\ inner[h] \in Buffer /\ op[h].old = None
  BY DEF Write, At, WriterIsSole, OldInPlace, Letting
<1>2. PICK data : heap' = [heap EXCEPT ![inner[h]].data = data]
  BY DEF Write
<1>3. /\ heap' = [b \in Buffer |-> heap'[b]] /\ \A b \in Buffer : IsBlock(heap'[b])
      /\ \A b \in Buffer : heap'[b].allocated = heap[b].allocated
      /\ \A b \in Buffer : heap'[b].refcount = heap[b].refcount
  BY <1>1, <1>2, ElementsOnly
<1>4. /\ AreOps(op')
      /\ op'[h].pc = "idle" /\ op'[h].old = None /\ op'[h].then = None /\ op'[h].target = None
      /\ \A g \in Handle : g # h => op'[g] = op[g]
  BY <1>1, IdleFields DEF Typed, AreOps
<1>5. OldInPlace'
  BY <1>1, <1>4 DEF OldInPlace, Letting, None
<1>6. WriterIsSole'
  BY <1>1, <1>4 DEF WriterIsSole, Sole, None
<1>7. FreerIsSole'
  <2>1. \A g \in Handle : op[g].pc \in {"free", "move"} => op[g].old \in Buffer
    BY DEF OldInPlace
  <2>2. \A b \in Buffer : heap'[b].refcount = heap[b].refcount
    BY <1>3
  <2> QED BY <1>1, <1>4, <2>1, <2>2 DEF FreerIsSole, Sole
<1>8. CopyInPlace'
  BY <1>1, <1>4, SharedVectorAssumption DEF CopyInPlace, OldInPlace, Typed, IsOp, AreOps, None
<1>9. CopyIsCounted'
  <2>1. \A g \in Handle : op'[g].pc = "clone" => op'[g] = op[g] /\ inner'[g] = inner[g]
    BY <1>1, <1>4
  <2> QED BY <2>1, CopyStaysCounted
<1>10. \A b \in Buffer : Users(b)' = Users(b) /\ Counted(b)' = Counted(b)
  BY <1>1, <1>4, SharedVectorAssumption DEF Users, Counted, None
<1>11. RefcountIsExact' /\ AllocatedIfUsed'
  BY <1>3, <1>10 DEF RefcountIsExact, AllocatedIfUsed
<1> QED BY <1>1, <1>3, <1>4, <1>5, <1>6, <1>7, <1>8, <1>9, <1>11 DEF Typed

\* clear empties a buffer of its own in place and lets go of a shared one.
LEMMA ClearStep ==
  ASSUME Inv, NEW h \in Handle, Clear(h)
  PROVE  Inv'
<1> USE DEF Inv
<1>1. inner[h] # None /\ op[h] = Idle /\ inner[h] \in Buffer \cup {Static}
  BY DEF Clear, Exists, Typed
<1>2. CASE Refcount(inner[h]) = 1
  <2>1. /\ inner[h] \in Buffer /\ inner' = inner /\ op' = op
        /\ heap' = [heap EXCEPT ![inner[h]].data = << >>]
    BY <1>1, <1>2 DEF Clear, Refcount
  <2>2. /\ heap' = [b \in Buffer |-> heap'[b]] /\ \A b \in Buffer : IsBlock(heap'[b])
        /\ \A b \in Buffer : heap'[b].allocated = heap[b].allocated
        /\ \A b \in Buffer : heap'[b].refcount = heap[b].refcount
    BY <2>1, ElementsOnly
  <2>3. OldInPlace' /\ WriterIsSole' /\ CopyInPlace' /\ CopyIsCounted'
    BY <2>1, Zenon DEF OldInPlace, WriterIsSole, Sole, CopyInPlace, CopyIsCounted
  <2>4. FreerIsSole'
    <3>1. \A g \in Handle : op[g].pc \in {"free", "move"} => op[g].old \in Buffer
      BY DEF OldInPlace
    <3>2. \A b \in Buffer : heap'[b].refcount = heap[b].refcount
      BY <2>2
    <3> QED BY <2>1, <3>1, <3>2 DEF FreerIsSole, Sole
  <2>5. \A b \in Buffer : Users(b)' = Users(b) /\ Counted(b)' = Counted(b)
    BY <2>1 DEF Users, Counted
  <2>6. RefcountIsExact' /\ AllocatedIfUsed'
    BY <2>2, <2>5 DEF RefcountIsExact, AllocatedIfUsed
  <2> QED BY <2>1, <2>2, <2>3, <2>4, <2>6 DEF Typed
<1>3. CASE Refcount(inner[h]) # 1
  <2>1. /\ heap' = heap /\ inner' = [inner EXCEPT ![h] = Static]
        /\ op' = [op EXCEPT ![h] = Releasing(inner[h], None)]
    BY <1>3 DEF Clear
  <2>2. /\ AreOps(op')
        /\ op'[h].pc = "release" /\ op'[h].old = inner[h] /\ op'[h].then = None
        /\ op'[h].target = None
        /\ \A g \in Handle : g # h => op'[g] = op[g]
    BY <1>1, <2>1, ReleasingFields DEF Typed, AreOps
  <2>3. CopyInPlace'
    BY <1>1, <2>1, <2>2, IdleFields DEF CopyInPlace, Typed, IsOp, AreOps, None, Static
  <2> QED BY <1>1, <2>1, <2>2, <2>3, TakenOut DEF None
<1> QED BY <1>2, <1>3

\* The vector's own buffer is about to be written.
LEMMA DetachKeepsStep ==
  ASSUME Inv, NEW h \in Handle, Exists(h), NEW i, NEW v \in Element,
         Refcount(inner[h]) = 1, UNCHANGED <<heap, inner>>,
         op' = [op EXCEPT ![h] = [Idle EXCEPT !.pc = "write", !.at = i, !.value = v]]
  PROVE  Inv'
<1> USE DEF Inv
<1> DEFINE o == [Idle EXCEPT !.pc = "write", !.at = i, !.value = v]
<1>1. /\ op[h] = Idle /\ heap' = heap /\ inner' = inner /\ op' = [op EXCEPT ![h] = o]
      /\ inner[h] \in Buffer /\ heap[inner[h]].refcount = 1
  BY DEF Exists, Refcount, Typed
<1>2. Sole(h, inner[h])
  BY <1>1, CountOfOne DEF Counted, Users
<1>3. IsOp(o) /\ o.pc = "write" /\ o.old = None /\ o.then = None /\ o.target = None
  BY DEF Idle, IsOp, Place
<1> HIDE DEF o
<1>4. /\ AreOps(op')
      /\ op'[h].pc = "write" /\ op'[h].old = None /\ op'[h].then = None /\ op'[h].target = None
      /\ \A g \in Handle : g # h => op'[g] = op[g]
  BY <1>1, <1>3 DEF Typed, AreOps
<1>5. op[h].pc = "idle" /\ op[h].old = None /\ op[h].then = None
  BY <1>1, IdleFields
<1>6. OldInPlace'
  BY <1>1, <1>4 DEF OldInPlace, Letting, None
<1>7. WriterIsSole'
  BY <1>1, <1>2, <1>4, <1>5, SharedVectorAssumption DEF WriterIsSole, Sole, None
<1>8. FreerIsSole'
  BY <1>1, <1>4, <1>5 DEF FreerIsSole, Sole
<1>9. CopyInPlace'
  BY <1>1, <1>4, <1>5, TargetType, SharedVectorAssumption DEF CopyInPlace, None
<1>10. CopyIsCounted'
  <2>1. \A g \in Handle : op'[g].pc = "clone" => op'[g] = op[g] /\ inner'[g] = inner[g]
    BY <1>1, <1>4
  <2> QED BY <2>1, CopyStaysCounted
<1>11. \A b \in Buffer : Users(b)' = Users(b) /\ Counted(b)' = Counted(b)
  BY <1>1, <1>4, <1>5, SharedVectorAssumption DEF Users, Counted, None
<1>12. RefcountIsExact' /\ AllocatedIfUsed'
  BY <1>1, <1>11 DEF RefcountIsExact, AllocatedIfUsed
<1> QED BY <1>1, <1>4, <1>6, <1>7, <1>8, <1>9, <1>10, <1>12 DEF Typed

\* A new buffer takes the place of the vector's, whose elements are taken next.
LEMMA DetachMovesStep ==
  ASSUME Inv, NEW h \in Handle, Exists(h), NEW capacity, NEW place \in {"into_iter", "copy"},
         NEW i, NEW v \in Element, NEW c \in Buffer, ~heap[c].allocated,
         heap' = [heap EXCEPT ![c] = Header(1, << >>, capacity)],
         inner' = [inner EXCEPT ![h] = c],
         op' = [op EXCEPT ![h] = [Idle EXCEPT !.pc = place, !.at = i, !.value = v,
                                              !.old = inner[h], !.then = "write"]]
  PROVE  Inv'
<1> USE DEF Inv
<1> DEFINE p == inner[h]
           o == [Idle EXCEPT !.pc = place, !.at = i, !.value = v, !.old = p, !.then = "write"]
<1>1. /\ op[h] = Idle /\ op' = [op EXCEPT ![h] = o] /\ p \in Buffer \cup {Static}
      /\ inner' = [inner EXCEPT ![h] = c]
  BY DEF Exists, Typed
<1>2. \A g \in Handle : inner[g] # c /\ op[g].old # c
  BY DEF AllocatedIfUsed, Users
<1>3. IsOp(o) /\ o.pc = place /\ o.old = p /\ o.then = "write" /\ o.target = None
  BY <1>1 DEF Idle, IsOp, Place
<1>4. p # c
  BY <1>2
<1> HIDE DEF o, p
<1>5. /\ AreOps(op')
      /\ op'[h].pc = place /\ op'[h].old = p /\ op'[h].then = "write" /\ op'[h].target = None
      /\ \A g \in Handle : g # h => op'[g] = op[g]
  BY <1>1, <1>3 DEF Typed, AreOps
<1>6. op[h].pc = "idle" /\ op[h].old = None /\ op[h].then = None
  BY <1>1, IdleFields
<1>7. inner'[h] = c /\ \A g \in Handle : g # h => inner'[g] = inner[g]
  BY <1>1 DEF Typed
<1>8. /\ heap' = [b \in Buffer |-> heap'[b]] /\ \A b \in Buffer : IsBlock(heap'[b])
      /\ heap'[c].allocated /\ heap'[c].refcount = 1
      /\ \A b \in Buffer : b # c => heap'[b] = heap[b]
  BY DEF Typed, IsBlock, Header
<1>9. OldInPlace'
  BY <1>1, <1>5, <1>7, SharedVectorAssumption DEF OldInPlace, Letting, None, Static
<1>10. WriterIsSole'
  BY <1>2, <1>4, <1>5, <1>6, <1>7 DEF WriterIsSole, Sole, p
<1>11. FreerIsSole'
  BY <1>2, <1>5, <1>6, <1>7, <1>8 DEF FreerIsSole, Sole, OldInPlace, p
<1>12. CopyInPlace'
  BY <1>5, <1>6, <1>7, TargetType, SharedVectorAssumption DEF CopyInPlace, None
<1>13. CopyIsCounted'
  <2>1. \A g \in Handle : op'[g].pc = "clone" => op'[g] = op[g] /\ inner'[g] = inner[g]
    BY <1>5, <1>7
  <2> QED BY <2>1, CopyStaysCounted
<1>14. /\ \A b \in Buffer : b = c => Users(b)' = {h} /\ Counted(b)' = {h}
       /\ \A b \in Buffer : b # c => Users(b)' = Users(b) /\ Counted(b)' = Counted(b)
  BY <1>2, <1>4, <1>5, <1>6, <1>7, SharedVectorAssumption DEF Users, Counted, None, p
<1>15. RefcountIsExact'
  <2>1. Cardinality({h}) = 1
    BY FS_Singleton
  <2> QED BY <1>8, <1>14, <2>1, Zenon DEF RefcountIsExact
<1>16. AllocatedIfUsed'
  BY <1>8, <1>14, Zenon DEF AllocatedIfUsed
<1> QED BY <1>1, <1>5, <1>8, <1>9, <1>10, <1>11, <1>12, <1>13, <1>15, <1>16 DEF Typed

\* detach keeps a sole buffer or takes a fresh one, which is then sole.
LEMMA DetachStep ==
  ASSUME Inv, NEW h \in Handle, Exists(h), NEW capacity, NEW place \in {"into_iter", "copy"},
         NEW i, NEW v \in Element, Detach(h, capacity, place, i, v)
  PROVE  Inv'
<1> DEFINE writing == [Idle EXCEPT !.pc = "write", !.at = i, !.value = v]
           moving == [Idle EXCEPT !.pc = place, !.at = i, !.value = v,
                                  !.old = inner[h], !.then = "write"]
<1>1. [writing EXCEPT !.pc = place, !.old = inner[h], !.then = "write"] = moving
  BY DEF Idle
<1>2. CASE Refcount(inner[h]) = 1 /\ capacity <= Capacity(inner[h])
  BY <1>2, DetachKeepsStep DEF Detach
<1>3. CASE ~(Refcount(inner[h]) = 1 /\ capacity <= Capacity(inner[h]))
  <2>1. PICK c \in Buffer :
          /\ ~heap[c].allocated
          /\ heap' = [heap EXCEPT ![c] = Header(1, << >>, capacity)]
          /\ inner' = [inner EXCEPT ![h] = c]
          /\ op' = [op EXCEPT ![h] = [writing EXCEPT !.pc = place, !.old = inner[h], !.then = "write"]]
    BY <1>3, Zenon DEF Detach
  <2>2. op' = [op EXCEPT ![h] = moving]
    BY <1>1, <2>1
  <2> HIDE DEF writing
  <2> QED BY <2>1, <2>2, DetachMovesStep
<1> QED BY <1>2, <1>3

\* Every step keeps the invariant of the counts.
LEMMA InvStep ==
  ASSUME Inv, NEW h \in Handle, Step(h)
  PROVE  Inv'
<1>1. ASSUME NEW v \in Element, Push(h, v) \/ PushBack(h, v) \/ SetElement(h, v)
      PROVE  Inv'
  <2>1. CASE Push(h, v)
    BY <2>1, DetachStep DEF Push
  <2>2. CASE PushBack(h, v)
    BY <2>2, DetachStep DEF PushBack
  <2>3. CASE SetElement(h, v)
    BY <2>3, DetachStep DEF SetElement
  <2> QED BY <1>1, <2>1, <2>2, <2>3
<1> QED BY <1>1, DefaultStep, FromIterStep, CloneStep, CloneAddStep, DropStep, ReleaseLoadStep,
           ReleaseSubStep, ReleaseFreeStep, WriteStep, ClearStep, AssignStep, IntoIterStep,
           IntoIterLoadStep, TakeElementStep, DropIterStep, Zenon DEF Step

\* The invariant holds without vectors.
LEMMA InvInit == Init => Inv
<1> SUFFICES ASSUME Init PROVE Inv
  OBVIOUS
<1> USE DEF Init
<1>1. Typed
  BY IdleFields DEF Typed, AreOps, IsBlock, Freed
<1>2. OldInPlace /\ WriterIsSole /\ FreerIsSole /\ CopyInPlace
  BY IdleFields DEF OldInPlace, WriterIsSole, FreerIsSole, CopyInPlace, Letting, None
<1>3. CopyIsCounted
  BY IdleFields DEF CopyIsCounted
<1>4. \A b \in Buffer : Users(b) = {}
  BY IdleFields, SharedVectorAssumption DEF Users, None
<1>5. \A b \in Buffer : ~heap[b].allocated
  BY DEF Freed
<1> QED BY <1>1, <1>2, <1>3, <1>4, <1>5 DEF Inv, RefcountIsExact, AllocatedIfUsed

\* The inductive invariant of the counts.
LEMMA InvAlways == Spec => []Inv
<1>1. Inv /\ [Next]_vars => Inv'
  <2> SUFFICES ASSUME Inv, [Next]_vars PROVE Inv'
    OBVIOUS
  <2>1. CASE Next
    BY <2>1, InvStep DEF Next
  <2>2. CASE UNCHANGED vars
    <3>1. heap' = heap /\ inner' = inner /\ op' = op
      BY <2>2 DEF vars
    <3>2. Typed'
      BY <3>1, Zenon DEF Inv, Typed
    <3>3. OldInPlace' /\ WriterIsSole' /\ FreerIsSole'
      BY <3>1 DEF Inv, OldInPlace, WriterIsSole, FreerIsSole, Sole
    <3>4. CopyInPlace'
      BY <3>1 DEF Inv, CopyInPlace
    <3>5. CopyIsCounted'
      BY <3>1, CopyStaysCounted DEF Inv
    <3>6. RefcountIsExact' /\ AllocatedIfUsed'
      BY <3>1 DEF Inv, RefcountIsExact, AllocatedIfUsed, Users, Counted
    <3> QED BY <3>2, <3>3, <3>4, <3>5, <3>6 DEF Inv
  <2> QED BY <2>1, <2>2
<1> QED BY <1>1, InvInit, PTL DEF Spec

\* The reference count of a buffer is the number of vectors that use it, wherever
\* the threads interleave: Clone, Drop and detach of Vector, copy and assignment
\* in resolvo_vector.h.
THEOREM RefcountExact == Spec => []RefcountIsExact
<1>1. Inv => RefcountIsExact
  BY DEF Inv
<1> QED BY <1>1, InvAlways, PTL

\* A buffer in use is never freed, and one that nobody uses always is.
THEOREM NoDangling == Spec => []AllocatedIfUsed
<1>1. Inv => AllocatedIfUsed
  BY DEF Inv
<1> QED BY <1>1, InvAlways, PTL

-----------------------------------------------------------------------------
(* The elements, and the refinement of VectorValues                         *)

\* detach is taking the elements of the old buffer,
Copying(h) == op[h].pc \in {"into_iter", "copy", "move"} /\ op[h].then = "write"
\* or the element is about to be written.
Writing(h) == op[h].pc = "write" \/ (op[h].pc \in {"release", "sub", "free"} /\ op[h].then = "write")

\* Buffers hold sequences of elements.
ElementsTyped == \A b \in Buffer : heap[b].data \in Seq(Element)

\* The new buffer has the elements taken so far, and the element to be written
\* replaces one of the vector's or follows the last.
InStep(h) ==
  /\ Copying(h) =>
       /\ op[h].value \in Element
       /\ op[h].at \in 1 .. Len(Data(op[h].old)) + 1
       /\ op[h].taken <= Len(Data(op[h].old))
       /\ Len(heap[inner[h]].data) = op[h].taken
       /\ \A j \in 1 .. op[h].taken : heap[inner[h]].data[j] = Data(op[h].old)[j]
  /\ Writing(h) =>
       /\ op[h].value \in Element
       /\ op[h].at \in 1 .. Len(heap[inner[h]].data) + 1

\* The invariant of the elements; Inv is that of the counts.
DataInv == ElementsTyped /\ \A h \in Handle : InStep(h)

\* Nothing that g refers to changes.
Unaffected(g) ==
  /\ inner'[g] = inner[g] /\ op'[g] = op[g]
  /\ \A b \in Buffer : inner[g] = b \/ op[g].old = b => heap'[b].data = heap[b].data

\* No value changes.
Stutters == \A g \in Handle : ValueOf(g)' = ValueOf(g)

\* So does the shared empty buffer.
LEMMA DataType ==
  ASSUME Inv, ElementsTyped, NEW p \in Buffer \cup {Static}
  PROVE  Data(p) \in Seq(Element) /\ Len(Data(p)) \in Nat
<1>1. Data(p) \in Seq(Element)
  BY EmptySeq DEF Data, ElementsTyped
<1> QED BY <1>1, LenProperties

\* The buffers an operation works on are there while it copies or writes.
LEMMA OldType ==
  ASSUME Inv, NEW h \in Handle
  PROVE  /\ inner[h] \in Buffer \cup {Static, None}
         /\ op[h].old \in Buffer \cup {Static, None}
         /\ Copying(h) => op[h].old \in Buffer \cup {Static} /\ op[h].taken \in Nat
         /\ Copying(h) \/ Writing(h) => inner[h] \in Buffer
  BY DEF Inv, Typed, AreOps, IsOp, OldInPlace, WriterIsSole, Copying, Writing, Letting

\* A vector that nothing happens to keeps its value, and its place.
LEMMA UnaffectedKept ==
  ASSUME Inv, NEW g \in Handle, InStep(g), Unaffected(g)
  PROVE  ValueOf(g)' = ValueOf(g) /\ InStep(g)'
<1>1. /\ inner'[g] = inner[g] /\ op'[g] = op[g]
      /\ \A b \in Buffer : inner[g] = b \/ op[g].old = b => heap'[b].data = heap[b].data
  BY DEF Unaffected
<1>2. /\ inner[g] \in Buffer \cup {Static, None}
      /\ Copying(g) => op[g].old \in Buffer \cup {Static}
      /\ Copying(g) \/ Writing(g) => inner[g] \in Buffer
  BY OldType
<1>3. Copying(g) => Data(op[g].old)' = Data(op[g].old)
  BY <1>1, <1>2 DEF Data
<1>4. inner[g] # None => Data(inner[g])' = Data(inner[g])
  BY <1>1, <1>2 DEF Data
<1>5. (Copying(g)' <=> Copying(g)) /\ (Writing(g)' <=> Writing(g))
  BY <1>1 DEF Copying, Writing
<1>6. ValueOf(g)' = ValueOf(g)
  BY <1>1, <1>3, <1>4, <1>5 DEF ValueOf, Copying
<1>7. inner[g] \in Buffer => heap'[inner'[g]].data = heap[inner[g]].data
  BY <1>1
<1>8. InStep(g)'
  BY <1>1, <1>2, <1>3, <1>5, <1>7 DEF InStep
<1> QED BY <1>6, <1>8

\* A vector without an operation that copies or writes has the value of its buffer.
LEMMA PlainValue ==
  ASSUME NEW h \in Handle
  PROVE  /\ ~Copying(h) => ValueOf(h) = IF inner[h] = None THEN << >> ELSE <<Data(inner[h])>>
         /\ ~Copying(h)' => ValueOf(h)' = IF inner'[h] = None THEN << >> ELSE <<Data(inner[h])'>>
         /\ Copying(h) => ValueOf(h) = <<Data(op[h].old)>>
         /\ Copying(h)' => ValueOf(h)' = <<Data(op[h].old)'>>
         /\ ~Copying(h)' /\ ~Writing(h)' => InStep(h)'
  BY DEF ValueOf, Copying, InStep

\* The refinement mapping.
V == [h \in Handle |-> ValueOf(h)]

\* A value is held as a sequence of one.
LEMMA Held ==
  ASSUME NEW s
  PROVE  <<s>> # << >> /\ <<s>>[1] = s
  OBVIOUS

\* A step of one vector is one of VectorValues.
LEMMA DropRefines ==
  ASSUME NEW h \in Handle, \A g \in Handle : g # h => ValueOf(g)' = ValueOf(g),
         ValueOf(h) # << >>, ValueOf(h)' = << >>
  PROVE  Values!Next
<1>1. V' = [V EXCEPT ![h] = << >>] /\ V[h] # << >>
  BY DEF V
<1>2. Values!Drop(h)
  BY <1>1 DEF Values!Drop, Values!Gone, V
<1> QED BY <1>2 DEF Values!Next

\* A vector that appears is Create,
LEMMA CreateRefines ==
  ASSUME NEW h \in Handle, \A g \in Handle : g # h => ValueOf(g)' = ValueOf(g),
         NEW s \in Seq(Element), ValueOf(h) = << >>, ValueOf(h)' = <<s>>
  PROVE  Values!Next
<1>1. V' = [V EXCEPT ![h] = V'[h]] /\ V[h] = << >> /\ V'[h] = <<s>>
  BY DEF V
<1>2. V'[h] # << >> /\ V'[h][1] \in Seq(Element)
  BY <1>1, Held
<1>3. Values!Create(h)
  BY <1>1, <1>2, Zenon DEF Values!Create, Values!Gone, V
<1> QED BY <1>3 DEF Values!Next

\* one that is emptied is ClearAll,
LEMMA ClearRefines ==
  ASSUME NEW h \in Handle, \A g \in Handle : g # h => ValueOf(g)' = ValueOf(g),
         ValueOf(h) # << >>, ValueOf(h)' = << << >> >>
  PROVE  Values!Next
<1>1. V' = [V EXCEPT ![h] = << << >> >>] /\ V[h] # << >>
  BY DEF V
<1>2. Values!ClearAll(h)
  BY <1>1 DEF Values!ClearAll, Values!Gone, Values!Holding, V
<1> QED BY <1>2 DEF Values!Next

\* one that appears with the value of another is Copy,
LEMMA CopyRefines ==
  ASSUME NEW h \in Handle, NEW t \in Handle,
         \A g \in Handle : g # t => ValueOf(g)' = ValueOf(g),
         ValueOf(h) # << >>, ValueOf(t) = << >>, ValueOf(t)' = ValueOf(h)
  PROVE  Values!Next
<1>1. V' = [V EXCEPT ![t] = V[h]] /\ V[h] # << >> /\ V[t] = << >>
  BY DEF V
<1>2. Values!Copy(h, t)
  BY <1>1 DEF Values!Copy, Values!Gone, V
<1> QED BY <1>2 DEF Values!Next

\* and one that changes at one position is Write.
LEMMA WriteRefines ==
  ASSUME NEW h \in Handle, \A g \in Handle : g # h => ValueOf(g)' = ValueOf(g),
         NEW s \in Seq(Element), ValueOf(h) = <<s>>,
         NEW i \in 1 .. Len(s) + 1, NEW v \in Element,
         ValueOf(h)' = <<[j \in (1 .. Len(s)) \cup {i} |-> IF j = i THEN v ELSE s[j]]>>
  PROVE  Values!Next
<1> DEFINE w == [j \in (1 .. Len(s)) \cup {i} |-> IF j = i THEN v ELSE s[j]]
<1>0. ValueOf(h)' = <<w>>
  OBVIOUS
<1> HIDE DEF w
<1>1. V[h] = <<s>> /\ V' = [V EXCEPT ![h] = <<w>>]
  BY <1>0, Zenon DEF V
<1>2. V[h] # << >> /\ V[h][1] = s
  BY <1>1, Held
<1>3. Values!Content(h) = s
  BY <1>2 DEF Values!Content, V
<1>4. /\ i \in 1 .. Len(Values!Content(h)) + 1
      /\ w = [j \in (1 .. Len(Values!Content(h))) \cup {i} |-> IF j = i THEN v ELSE Values!Content(h)[j]]
  BY <1>3 DEF w
<1>5. Values!Write(h)
  BY <1>1, <1>2, <1>4, Zenon DEF Values!Write, Values!Gone, Values!Holding, V
<1> QED BY <1>5 DEF Values!Next

----------------------------------------------------------------------------
(* One lemma per action: it keeps the invariant of the elements, and it is a *)
(* step of VectorValues or changes no value.                                *)

\* What an action is shown to do.
Refines == DataInv' /\ (Values!Next \/ Stutters)

\* The vectors an action does not touch need no further argument.
LEMMA Assembled ==
  ASSUME Inv, DataInv, ElementsTyped', \A g \in Handle : Unaffected(g) \/ InStep(g)'
  PROVE  DataInv' /\ \A g \in Handle : Unaffected(g) => ValueOf(g)' = ValueOf(g)
<1>1. \A g \in Handle : Unaffected(g) => ValueOf(g)' = ValueOf(g) /\ InStep(g)'
  BY UnaffectedKept, Zenon DEF DataInv
<1> QED BY <1>1, Zenon DEF DataInv

\* The value of an idle vector.
LEMMA IdleValue ==
  ASSUME NEW h \in Handle, op[h] = Idle
  PROVE  ValueOf(h) = IF inner[h] = None THEN << >> ELSE <<Data(inner[h])>>
  BY IdleFields DEF ValueOf, None

\* Vector::default is Create.
LEMMA DefaultRefines ==
  ASSUME Inv, DataInv, NEW h \in Handle, Default(h)
  PROVE  Refines
<1>1. /\ inner[h] = None /\ op[h] = Idle /\ heap' = heap /\ op' = op
      /\ inner' = [inner EXCEPT ![h] = Static]
  BY DEF Default, Absent
<1>2. \A g \in Handle : g # h => Unaffected(g)
  BY <1>1 DEF Unaffected, Inv, Typed
<1>3. inner'[h] = Static /\ Static # None /\ Data(inner[h])' = << >>
  BY <1>1 DEF Inv, Typed, Static, None, Data
<1>4. ~Copying(h)' /\ ~Writing(h)'
  BY <1>1, IdleFields DEF Copying, Writing, None
<1>5. ValueOf(h) = << >> /\ ValueOf(h)' = << << >> >>
  BY <1>1, <1>3, <1>4, IdleValue, PlainValue
<1>6. ElementsTyped' /\ InStep(h)'
  BY <1>1, <1>4, PlainValue DEF DataInv, ElementsTyped
<1>7. DataInv' /\ \A g \in Handle : g # h => ValueOf(g)' = ValueOf(g)
  BY <1>2, <1>6, Assembled
<1>8. Values!Next
  BY <1>5, <1>7, CreateRefines, EmptySeq
<1> QED BY <1>7, <1>8 DEF Refines

\* from_iter is Create.
LEMMA FromIterRefines ==
  ASSUME Inv, DataInv, NEW h \in Handle, FromIter(h)
  PROVE  Refines
<1>0. PICK c \in Buffer, v \in Element, n \in 0 .. MaxLen : \E capacity \in {n, GrownTo[n]} :
        /\ ~heap[c].allocated
        /\ heap' = [heap EXCEPT ![c] = Header(1, [i \in 1 .. n |-> v], capacity)]
        /\ inner' = [inner EXCEPT ![h] = c]
  BY DEF FromIter
<1> DEFINE s == [i \in 1 .. n |-> v]
<1>1. s \in Seq(Element)
  <2>1. n \in Nat
    BY SharedVectorAssumption
  <2> QED BY <2>1, SeqDef
<1> HIDE DEF s
<1>2. PICK capacity \in {n, GrownTo[n]} :
        /\ ~heap[c].allocated /\ heap' = [heap EXCEPT ![c] = Header(1, s, capacity)]
        /\ inner' = [inner EXCEPT ![h] = c]
  BY <1>0 DEF s
<1>3. inner[h] = None /\ op[h] = Idle /\ op' = op
  BY DEF FromIter, Absent
<1>4. \A g \in Handle : inner[g] # c /\ op[g].old # c
  BY <1>2 DEF Inv, AllocatedIfUsed, Users
<1>5. /\ heap'[c].data = s /\ \A b \in Buffer : b # c => heap'[b].data = heap[b].data
      /\ inner'[h] = c /\ \A g \in Handle : g # h => inner'[g] = inner[g]
  BY <1>2 DEF Inv, Typed, Header
<1>6. \A g \in Handle : g # h => Unaffected(g)
  BY <1>3, <1>4, <1>5 DEF Unaffected
<1>7. c # None /\ Data(inner[h])' = s
  BY <1>5, SharedVectorAssumption DEF Static, None, Data
<1>8. ~Copying(h)' /\ ~Writing(h)'
  BY <1>3, IdleFields DEF Copying, Writing, None
<1>9. ValueOf(h) = << >> /\ ValueOf(h)' = <<s>>
  BY <1>3, <1>5, <1>7, <1>8, IdleValue, PlainValue
<1>10. ElementsTyped' /\ InStep(h)'
  BY <1>1, <1>5, <1>8, PlainValue DEF DataInv, ElementsTyped
<1>11. DataInv' /\ \A g \in Handle : g # h => ValueOf(g)' = ValueOf(g)
  BY <1>6, <1>10, Assembled
<1>12. Values!Next
  BY <1>1, <1>9, <1>11, CreateRefines
<1> QED BY <1>11, <1>12 DEF Refines

\* The start of a copy is a stutter.
LEMMA CloneRefines ==
  ASSUME Inv, DataInv, NEW h \in Handle, Clone(h)
  PROVE  Refines
<1>1. PICK t \in Handle :
        /\ Absent(t)
        /\ op' = [op EXCEPT ![h] = CloneOp(h, t), ![t] = [Idle EXCEPT !.pc = "wait"]]
  BY DEF Clone
<1>2. /\ heap' = heap /\ inner' = inner /\ inner[h] # None /\ op[h] = Idle
      /\ inner[t] = None /\ op[t] = Idle /\ h # t
  BY <1>1 DEF Clone, Exists, Absent
<1>3. op'[h].then = None /\ op'[h].pc = "clone" /\ op'[t].then = None /\ op'[t].pc = "wait"
  <2>1. CloneOp(h, t).then = None /\ CloneOp(h, t).pc = "clone"
    BY <1>2, CloneOpFields, IdleFields
  <2> QED BY <1>1, <1>2, <2>1, WaitFields DEF Inv, Typed, AreOps
<1>4. \A g \in Handle : g # h /\ g # t => Unaffected(g)
  BY <1>1, <1>2 DEF Unaffected, Inv, Typed, AreOps
<1>5. \A g \in {h, t} : ~Copying(g)' /\ ~Writing(g)'
  BY <1>3 DEF Copying, Writing, None
<1>6. \A g \in {h, t} : ValueOf(g)' = ValueOf(g) /\ InStep(g)'
  <2>1. \A g \in {h, t} : Data(inner[g])' = Data(inner[g])
    BY <1>2 DEF Data
  <2> QED BY <1>2, <1>5, <2>1, IdleValue, PlainValue
<1>7. ElementsTyped'
  BY <1>2 DEF DataInv, ElementsTyped
<1>8. DataInv' /\ \A g \in Handle : g # h /\ g # t => ValueOf(g)' = ValueOf(g)
  BY <1>4, <1>6, <1>7, Assembled
<1> QED BY <1>6, <1>8 DEF Refines, Stutters

\* The increment of clone is Copy: the value is that of the source at this moment.
LEMMA CloneAddRefines ==
  ASSUME Inv, DataInv, NEW h \in Handle, CloneAdd(h)
  PROVE  Refines
<1>0. op[h].pc = "clone" /\ op[h].target \in Handle
  BY DEF CloneAdd, At, Inv, CopyInPlace, Typed, AreOps, IsOp
<1> PICK t \in Handle : t = op[h].target
  BY <1>0
<1>1. /\ op[h].pc = "clone" /\ op[t].pc = "wait" /\ h # t
      /\ inner[h] # None /\ inner[t] = None /\ op[h].old = None /\ op[t].old = None
      /\ inner[h] \in Buffer \cup {Static}
  BY DEF CloneAdd, At, Inv, CopyInPlace, Typed, AreOps, IsOp, OldInPlace, Letting
<1>2. /\ inner' = [inner EXCEPT ![t] = inner[h]]
      /\ op' = [op EXCEPT ![h] = Idle, ![t] = Idle]
  BY DEF CloneAdd
<1>3. heap' = IF inner[h] \in Buffer THEN [heap EXCEPT ![inner[h]].refcount = @ + 1] ELSE heap
  <2>1. op[h].counted <=> inner[h] \in Buffer
    BY <1>1, Zenon DEF Inv, CopyIsCounted
  <2> QED BY <2>1, Zenon DEF CloneAdd
<1>4. \A b \in Buffer : heap'[b].data = heap[b].data
  BY <1>3 DEF Inv, Typed, IsBlock
<1>5. /\ inner'[t] = inner[h] /\ \A g \in Handle : g # t => inner'[g] = inner[g]
      /\ op'[h] = Idle /\ op'[t] = Idle /\ \A g \in Handle : g # h /\ g # t => op'[g] = op[g]
  BY <1>1, <1>2 DEF Inv, Typed, AreOps
<1>6. \A g \in Handle : g # h /\ g # t => Unaffected(g)
  BY <1>4, <1>5 DEF Unaffected
<1>7. ~Copying(h) /\ ~Copying(t) /\ \A g \in {h, t} : ~Copying(g)' /\ ~Writing(g)'
  BY <1>1, <1>5, IdleFields DEF Copying, Writing, None
<1>8. \A g \in {h, t} : inner'[g] = inner[h]
  BY <1>1, <1>5
<1>9. \A g \in {h, t} : Data(inner[g])' = Data(inner[h])
  BY <1>1, <1>4, <1>8 DEF Data
<1>10. /\ ValueOf(h) = <<Data(inner[h])>> /\ ValueOf(t) = << >>
       /\ \A g \in {h, t} : ValueOf(g)' = <<Data(inner[h])>> /\ InStep(g)'
  BY <1>1, <1>7, <1>8, <1>9, PlainValue
<1>11. ElementsTyped'
  BY <1>4 DEF DataInv, ElementsTyped
<1>12. DataInv' /\ \A g \in Handle : g # h /\ g # t => ValueOf(g)' = ValueOf(g)
  BY <1>6, <1>10, <1>11, Assembled
<1>13. ValueOf(h) # << >> /\ ValueOf(t)' = ValueOf(h)
  BY <1>10, Held
<1>14. Values!Next
  BY <1>1, <1>10, <1>12, <1>13, CopyRefines
<1> QED BY <1>12, <1>14 DEF Refines

\* A vector's buffer is taken out of it: the vector is gone, or empty.
LEMMA TakenOutRefines ==
  ASSUME Inv, DataInv, NEW h \in Handle, NEW q \in {None, Static}, inner[h] # None, op[h] = Idle,
         heap' = heap, inner' = [inner EXCEPT ![h] = q],
         op'[h].pc # "write", op'[h].then # "write",
         \A g \in Handle : g # h =>
           op'[g] = op[g] \/ (op[g] = Idle /\ op'[g] = [Idle EXCEPT !.pc = "wait"])
  PROVE  Refines
<1>1. inner'[h] = q /\ \A g \in Handle : g # h => inner'[g] = inner[g]
  BY DEF Inv, Typed
<1>2. ASSUME NEW g \in Handle, g # h
      PROVE  InStep(g)' /\ ValueOf(g)' = ValueOf(g)
  <2>1. CASE op'[g] = op[g]
    <3>1. Unaffected(g)
      BY <1>1, <1>2, <2>1 DEF Unaffected
    <3> QED BY <3>1, UnaffectedKept DEF DataInv
  <2>2. CASE op[g] = Idle /\ op'[g] = [Idle EXCEPT !.pc = "wait"]
    <3>1. ~Copying(g)' /\ ~Writing(g)'
      BY <2>2, WaitFields DEF Copying, Writing, None
    <3>2. Data(inner[g])' = Data(inner[g])
      BY <1>1, <1>2 DEF Data
    <3> QED BY <1>1, <1>2, <2>2, <3>1, <3>2, IdleValue, PlainValue
  <2> QED BY <1>2, <2>1, <2>2
<1>3. ~Copying(h)' /\ ~Writing(h)'
  BY DEF Copying, Writing
<1>4. ValueOf(h) # << >>
  <2>1. ValueOf(h) = <<Data(inner[h])>>
    BY IdleValue
  <2> QED BY <2>1, Held
<1>5. DataInv'
  <2>1. ElementsTyped' /\ InStep(h)'
    BY <1>3, PlainValue DEF DataInv, ElementsTyped
  <2> QED BY <1>2, <2>1 DEF DataInv
<1>6. CASE q = None
  <2>1. ValueOf(h)' = << >>
    BY <1>1, <1>3, <1>6, PlainValue
  <2> QED BY <1>2, <1>4, <1>5, <2>1, DropRefines DEF Refines
<1>7. CASE q = Static
  <2>1. Data(inner[h])' = << >> /\ inner'[h] # None
    BY <1>1, <1>7 DEF Data, Static, None
  <2>2. ValueOf(h)' = << << >> >>
    BY <1>3, <2>1, PlainValue
  <2> QED BY <1>2, <1>4, <1>5, <2>2, ClearRefines DEF Refines
<1> QED BY <1>6, <1>7

\* drop is Drop at once, before the count is touched.
LEMMA DropStepRefines ==
  ASSUME Inv, DataInv, NEW h \in Handle, Drop(h)
  PROVE  Refines
<1>1. /\ inner[h] # None /\ op[h] = Idle /\ inner[h] \in Buffer \cup {Static}
      /\ heap' = heap /\ inner' = [inner EXCEPT ![h] = None]
      /\ op' = [op EXCEPT ![h] = Releasing(inner[h], None)]
  BY DEF Drop, Exists, Inv, Typed
<1>2. /\ op'[h].pc # "write" /\ op'[h].then # "write"
      /\ \A g \in Handle : g # h => op'[g] = op[g]
  BY <1>1, ReleasingFields DEF Inv, Typed, AreOps, None
<1> QED BY <1>1, <1>2, TakenOutRefines

\* So is into_iter: the elements are the caller's.
LEMMA IntoIterRefines ==
  ASSUME Inv, DataInv, NEW h \in Handle, IntoIter(h)
  PROVE  Refines
<1>1. /\ inner[h] # None /\ op[h] = Idle
      /\ heap' = heap /\ inner' = [inner EXCEPT ![h] = None]
      /\ op' = [op EXCEPT ![h] = [Idle EXCEPT !.pc = "into_iter", !.old = inner[h]]]
  BY DEF IntoIter, Exists
<1>2. LET o == [Idle EXCEPT !.pc = "into_iter", !.old = inner[h]]
      IN o.pc # "write" /\ o.then # "write"
  BY DEF Idle, None
<1>3. /\ op'[h].pc # "write" /\ op'[h].then # "write"
      /\ \A g \in Handle : g # h => op'[g] = op[g]
  BY <1>1, <1>2 DEF Inv, Typed, AreOps
<1> QED BY <1>1, <1>3, TakenOutRefines

\* operator= drops the old value first.
LEMMA AssignRefines ==
  ASSUME Inv, DataInv, NEW h \in Handle, NEW t \in Handle, Assign(h, t)
  PROVE  Refines
<1> DEFINE o == [Releasing(inner[h], "receive") EXCEPT !.target = t]
<1>1. /\ inner[h] # None /\ op[h] = Idle /\ op[t] = Idle /\ h # t
      /\ heap' = heap /\ inner' = [inner EXCEPT ![h] = None]
      /\ op' = [op EXCEPT ![h] = o, ![t] = [Idle EXCEPT !.pc = "wait"]]
  BY DEF Assign, Exists
<1>2. o.pc # "write" /\ o.then # "write"
  BY DEF Releasing, Idle
<1> HIDE DEF o
<1>3. /\ op'[h] = o /\ op'[t] = [Idle EXCEPT !.pc = "wait"]
      /\ \A g \in Handle : g # h /\ g # t => op'[g] = op[g]
  BY <1>1 DEF Inv, Typed, AreOps
<1>4. \A g \in Handle : g # h =>
        op'[g] = op[g] \/ (op[g] = Idle /\ op'[g] = [Idle EXCEPT !.pc = "wait"])
  BY <1>1, <1>3
<1> QED BY <1>1, <1>2, <1>3, <1>4, TakenOutRefines

\* clear is ClearAll, in place or by leaving a shared buffer.
LEMMA ClearStepRefines ==
  ASSUME Inv, DataInv, NEW h \in Handle, Clear(h)
  PROVE  Refines
<1>1. inner[h] # None /\ op[h] = Idle /\ inner[h] \in Buffer \cup {Static}
  BY DEF Clear, Exists, Inv, Typed
<1>2. CASE Refcount(inner[h]) = 1
  <2>1. /\ inner[h] \in Buffer /\ heap[inner[h]].refcount = 1 /\ inner' = inner /\ op' = op
        /\ heap' = [heap EXCEPT ![inner[h]].data = << >>]
    BY <1>1, <1>2 DEF Clear, Refcount
  <2>2. Sole(h, inner[h])
    BY <2>1, CountOfOne DEF Counted, Users
  <2>3. /\ heap'[inner[h]].data = << >>
        /\ \A b \in Buffer : b # inner[h] => heap'[b].data = heap[b].data
    BY <2>1 DEF Inv, Typed, IsBlock
  <2>4. \A g \in Handle : g # h => Unaffected(g)
    BY <2>1, <2>2, <2>3 DEF Unaffected, Sole
  <2>5. ~Copying(h)' /\ ~Writing(h)' /\ Data(inner[h])' = << >>
    BY <1>1, <2>1, <2>3, IdleFields DEF Copying, Writing, None, Data
  <2>6. ElementsTyped' /\ InStep(h)'
    BY <2>1, <2>3, <2>5, PlainValue, EmptySeq DEF DataInv, ElementsTyped
  <2>7. DataInv' /\ \A g \in Handle : g # h => ValueOf(g)' = ValueOf(g)
    BY <2>4, <2>6, Assembled
  <2>8. ValueOf(h) # << >>
    <3>1. ValueOf(h) = <<Data(inner[h])>>
      BY <1>1, IdleValue
    <3> QED BY <3>1, Held
  <2>9. ValueOf(h)' = << << >> >>
    BY <1>1, <2>1, <2>5, PlainValue
  <2> QED BY <2>7, <2>8, <2>9, ClearRefines DEF Refines
<1>3. CASE Refcount(inner[h]) # 1
  <2>1. /\ heap' = heap /\ inner' = [inner EXCEPT ![h] = Static]
        /\ op' = [op EXCEPT ![h] = Releasing(inner[h], None)]
    BY <1>3 DEF Clear
  <2>2. /\ op'[h].pc # "write" /\ op'[h].then # "write"
        /\ \A g \in Handle : g # h => op'[g] = op[g]
    BY <1>1, <2>1, ReleasingFields DEF Inv, Typed, AreOps, None
  <2> QED BY <1>1, <2>1, <2>2, TakenOutRefines
<1> QED BY <1>2, <1>3

\* The write: nobody else has the buffer.
LEMMA WriteStepRefines ==
  ASSUME Inv, DataInv, NEW h \in Handle, Write(h)
  PROVE  Refines
<1>1. /\ op[h].pc = "write" /\ inner' = inner /\ op' = [op EXCEPT ![h] = Idle]
      /\ inner[h] \in Buffer /\ Sole(h, inner[h]) /\ inner[h] # None
  BY SharedVectorAssumption DEF Write, At, Inv, WriterIsSole, None
<1>2. PICK b \in Buffer, s \in Seq(Element), i \in Nat, v \in Element :
        /\ b = inner[h] /\ s = heap[b].data /\ i = op[h].at /\ v = op[h].value
        /\ i \in 1 .. Len(s) + 1
  BY <1>1 DEF DataInv, ElementsTyped, InStep, Writing
<1> DEFINE w == [j \in (1 .. Len(s)) \cup {i} |-> IF j = i THEN v ELSE s[j]]
<1>3. Len(s) \in Nat /\ DOMAIN s = 1 .. Len(s)
  BY LenProperties
<1>4. heap' = [heap EXCEPT ![b].data = w]
  BY <1>2, <1>3 DEF Write
<1>5. w \in Seq(Element)
  <2>1. \A j \in 1 .. Len(s) : s[j] \in Element
    BY ElementOfSeq
  <2>2. CASE i = Len(s) + 1
    <3>1. (1 .. Len(s)) \cup {i} = 1 .. Len(s) + 1
      BY <1>3, <2>2
    <3>2. w \in [1 .. Len(s) + 1 -> Element]
      BY <2>1, <2>2, <3>1
    <3> QED BY <1>3, <3>2, SeqDef
  <2>3. CASE i \in 1 .. Len(s)
    <3>1. (1 .. Len(s)) \cup {i} = 1 .. Len(s)
      BY <2>3
    <3>2. w \in [1 .. Len(s) -> Element]
      BY <2>1, <3>1
    <3> QED BY <1>3, <3>2, SeqDef
  <2> QED BY <1>2, <1>3, <2>2, <2>3
<1>6. ValueOf(h) = <<s>>
  <2>1. ~Copying(h) /\ Data(inner[h]) = s
    BY <1>1, <1>2, SharedVectorAssumption DEF Copying, Data, Static
  <2> QED BY <1>1, <2>1, PlainValue
<1>7. heap'[b].data = w /\ \A c \in Buffer : c # b => heap'[c].data = heap[c].data
  <2> HIDE DEF w
  <2> QED BY <1>4 DEF Inv, Typed, IsBlock
<1>8. op'[h] = Idle /\ \A g \in Handle : g # h => op'[g] = op[g]
  BY <1>1 DEF Inv, Typed, AreOps
<1>9. \A g \in Handle : g # h => Unaffected(g)
  <2>1. \A c \in Buffer : c # b => heap'[c].data = heap[c].data
    BY <1>7
  <2> QED BY <1>1, <1>2, <1>8, <2>1 DEF Unaffected, Sole
<1>10. ~Copying(h)' /\ ~Writing(h)' /\ Data(inner[h])' = w
  <2> HIDE DEF w
  <2> QED BY <1>1, <1>2, <1>7, <1>8, IdleFields, SharedVectorAssumption
          DEF Copying, Writing, None, Data, Static
<1>11. ValueOf(h)' = <<w>>
  <2> HIDE DEF w
  <2> QED BY <1>1, <1>10, PlainValue
<1>12. ElementsTyped' /\ InStep(h)'
  <2> HIDE DEF w
  <2> QED BY <1>5, <1>7, <1>10, PlainValue DEF DataInv, ElementsTyped
<1>13. DataInv' /\ \A g \in Handle : g # h => ValueOf(g)' = ValueOf(g)
  BY <1>9, <1>12, Assembled
<1>14. Values!Next
  BY <1>2, <1>6, <1>11, <1>13, WriteRefines
<1> QED BY <1>13, <1>14 DEF Refines

\* A vector without an operation keeps its value when detach keeps its buffer,
LEMMA DetachKeepsRefines ==
  ASSUME Inv, DataInv, NEW h \in Handle, Exists(h), NEW i, NEW v \in Element,
         i \in 1 .. Len(Data(inner[h])) + 1,
         Refcount(inner[h]) = 1, UNCHANGED <<heap, inner>>,
         op' = [op EXCEPT ![h] = [Idle EXCEPT !.pc = "write", !.at = i, !.value = v]]
  PROVE  Refines
<1> DEFINE o == [Idle EXCEPT !.pc = "write", !.at = i, !.value = v]
<1>1. /\ op[h] = Idle /\ heap' = heap /\ inner' = inner /\ op' = [op EXCEPT ![h] = o]
      /\ inner[h] \in Buffer /\ inner[h] # None
  BY SharedVectorAssumption DEF Exists, Refcount, Inv, Typed, None
<1>2. o.pc = "write" /\ o.then = None /\ o.at = i /\ o.value = v
  BY DEF Idle
<1> HIDE DEF o
<1>3. op'[h] = o /\ \A g \in Handle : g # h => op'[g] = op[g]
  BY <1>1 DEF Inv, Typed, AreOps
<1>4. \A g \in Handle : g # h => Unaffected(g)
  BY <1>1, <1>3 DEF Unaffected
<1>5. ~Copying(h)' /\ Data(inner[h])' = Data(inner[h])
  BY <1>1, <1>2, <1>3 DEF Copying, Data, None
<1>6. ValueOf(h)' = ValueOf(h)
  BY <1>1, <1>5, IdleValue, PlainValue
<1>7. InStep(h)'
  <2>1. Data(inner[h]) = heap'[inner'[h]].data
    BY <1>1, SharedVectorAssumption DEF Data, Static
  <2> QED BY <1>2, <1>3, <1>5, <2>1 DEF InStep
<1>8. ElementsTyped'
  BY <1>1 DEF DataInv, ElementsTyped
<1>9. DataInv' /\ \A g \in Handle : g # h => ValueOf(g)' = ValueOf(g)
  BY <1>4, <1>7, <1>8, Assembled
<1> QED BY <1>6, <1>9 DEF Refines, Stutters

\* and when it starts to take the elements into a new one.
LEMMA DetachMovesRefines ==
  ASSUME Inv, DataInv, NEW h \in Handle, Exists(h), NEW capacity, NEW place \in {"into_iter", "copy"},
         NEW i, NEW v \in Element, NEW c \in Buffer, ~heap[c].allocated,
         i \in 1 .. Len(Data(inner[h])) + 1,
         heap' = [heap EXCEPT ![c] = Header(1, << >>, capacity)],
         inner' = [inner EXCEPT ![h] = c],
         op' = [op EXCEPT ![h] = [Idle EXCEPT !.pc = place, !.at = i, !.value = v,
                                              !.old = inner[h], !.then = "write"]]
  PROVE  Refines
<1> DEFINE o == [Idle EXCEPT !.pc = place, !.at = i, !.value = v, !.old = inner[h], !.then = "write"]
<1>1. /\ op[h] = Idle /\ inner[h] # None /\ op' = [op EXCEPT ![h] = o]
      /\ inner[h] \in Buffer \cup {Static}
  BY DEF Exists, Inv, Typed
<1>2. /\ o.pc = place /\ o.then = "write" /\ o.at = i /\ o.value = v /\ o.old = inner[h]
      /\ o.taken = 0
  BY DEF Idle
<1> HIDE DEF o
<1>3. op'[h] = o /\ \A g \in Handle : g # h => op'[g] = op[g]
  BY <1>1 DEF Inv, Typed, AreOps
<1>4. \A g \in Handle : inner[g] # c /\ op[g].old # c
  BY DEF Inv, AllocatedIfUsed, Users
<1>5. /\ heap'[c].data = << >> /\ \A b \in Buffer : b # c => heap'[b].data = heap[b].data
      /\ inner'[h] = c /\ \A g \in Handle : g # h => inner'[g] = inner[g]
  BY DEF Inv, Typed, Header
<1>6. \A g \in Handle : g # h => Unaffected(g)
  BY <1>3, <1>4, <1>5 DEF Unaffected
<1>7. Copying(h)' /\ ~Writing(h)' /\ Data(op[h].old)' = Data(inner[h])
  BY <1>1, <1>2, <1>3, <1>4, <1>5 DEF Copying, Writing, Data
<1>8. ValueOf(h)' = ValueOf(h)
  BY <1>1, <1>7, IdleValue, PlainValue
<1>9. InStep(h)'
  <2>1. Len(Data(inner[h])) \in Nat
    BY <1>1, DataType DEF DataInv
  <2>2. Len(heap'[inner'[h]].data) = 0
    BY <1>5, EmptySeq
  <2>3. op'[h].value \in Element /\ op'[h].at = i /\ op'[h].taken = 0
    BY <1>2, <1>3
  <2>4. /\ op'[h].at \in 1 .. Len(Data(op[h].old)') + 1 /\ op'[h].taken <= Len(Data(op[h].old)')
        /\ \A j \in 1 .. op'[h].taken : FALSE
    BY <1>7, <2>1, <2>3
  <2> QED BY <1>7, <2>2, <2>3, <2>4 DEF InStep
<1>10. ElementsTyped'
  BY <1>5, EmptySeq DEF DataInv, ElementsTyped
<1>11. DataInv' /\ \A g \in Handle : g # h => ValueOf(g)' = ValueOf(g)
  BY <1>6, <1>9, <1>10, Assembled
<1> QED BY <1>8, <1>11 DEF Refines, Stutters

\* detach is a stutter: the value is read from the old buffer until it is copied.
LEMMA DetachRefines ==
  ASSUME Inv, DataInv, NEW h \in Handle, Exists(h), NEW capacity, NEW place \in {"into_iter", "copy"},
         NEW i, NEW v \in Element, i \in 1 .. Len(Data(inner[h])) + 1,
         Detach(h, capacity, place, i, v)
  PROVE  Refines
<1> DEFINE writing == [Idle EXCEPT !.pc = "write", !.at = i, !.value = v]
           moving == [Idle EXCEPT !.pc = place, !.at = i, !.value = v,
                                  !.old = inner[h], !.then = "write"]
<1>1. [writing EXCEPT !.pc = place, !.old = inner[h], !.then = "write"] = moving
  BY DEF Idle
<1>2. CASE Refcount(inner[h]) = 1 /\ capacity <= Capacity(inner[h])
  BY <1>2, DetachKeepsRefines DEF Detach
<1>3. CASE ~(Refcount(inner[h]) = 1 /\ capacity <= Capacity(inner[h]))
  <2>1. PICK c \in Buffer :
          /\ ~heap[c].allocated
          /\ heap' = [heap EXCEPT ![c] = Header(1, << >>, capacity)]
          /\ inner' = [inner EXCEPT ![h] = c]
          /\ op' = [op EXCEPT ![h] = [writing EXCEPT !.pc = place, !.old = inner[h], !.then = "write"]]
    BY <1>3, Zenon DEF Detach
  <2>2. op' = [op EXCEPT ![h] = moving]
    BY <1>1, <2>1
  <2> HIDE DEF writing
  <2> QED BY <2>1, <2>2, DetachMovesRefines
<1> QED BY <1>2, <1>3

\* Once all elements are taken the new buffer holds what the old one does.
LEMMA CopyDone ==
  ASSUME Inv, DataInv, NEW h \in Handle, Copying(h), op[h].taken = Len(Data(op[h].old))
  PROVE  /\ heap[inner[h]].data = Data(op[h].old)
         /\ op[h].value \in Element /\ op[h].at \in 1 .. Len(heap[inner[h]].data) + 1
<1> DEFINE s == heap[inner[h]].data
           d == Data(op[h].old)
<1>1. s \in Seq(Element) /\ d \in Seq(Element)
  BY OldType, DataType DEF DataInv, ElementsTyped
<1>2. Len(s) = Len(d) /\ (\A j \in 1 .. Len(s) : s[j] = d[j])
      /\ op[h].value \in Element /\ op[h].at \in 1 .. Len(d) + 1
  BY DEF DataInv, InStep
<1> HIDE DEF s, d
<1>3. s = d
  BY <1>1, <1>2, SeqEqual
<1> QED BY <1>2, <1>3 DEF s, d

\* An operation that has let go of its old buffer resumes, and no value changes:
\* the buffer may have been freed if nobody else had it.
LEMMA ResumedRefines ==
  ASSUME Inv, DataInv, ElementsTyped', NEW h \in Handle, op[h].pc \in Letting,
         Copying(h) => op[h].taken = Len(Data(op[h].old)),
         op' = Resumed(h), inner' = inner,
         \A b \in Buffer : heap'[b].data = heap[b].data \/ (b = op[h].old /\ Sole(h, b))
  PROVE  Refines
<1>1. \A g \in Handle : g # h /\ inner[g] # None => Data(inner[g])' = Data(inner[g])
  BY OldType DEF Data, Sole
<1>2. ASSUME NEW g \in Handle, g # h, op'[g] = op[g]
      PROVE  ValueOf(g)' = ValueOf(g) /\ InStep(g)'
  <2>1. Unaffected(g)
    BY <1>2 DEF Unaffected, Sole
  <2> QED BY <2>1, UnaffectedKept DEF DataInv
<1>3. CASE op[h].then = "write"
  <2>1. op' = [op EXCEPT ![h] = [@ EXCEPT !.pc = "write", !.old = None]]
    BY <1>3 DEF Resumed
  <2>2. /\ op'[h].pc = "write" /\ op'[h].value = op[h].value /\ op'[h].at = op[h].at
        /\ \A g \in Handle : g # h => op'[g] = op[g]
    BY <2>1 DEF Inv, Typed, AreOps, IsOp
  <2>3. inner[h] \in Buffer /\ inner[h] # op[h].old /\ inner[h] # None
    BY <1>3, SharedVectorAssumption DEF Inv, WriterIsSole, None
  <2>4. heap'[inner[h]].data = heap[inner[h]].data
    BY <2>3
  <2>5. /\ ValueOf(h) = <<heap[inner[h]].data>>
        /\ op[h].value \in Element /\ op[h].at \in 1 .. Len(heap[inner[h]].data) + 1
    <3>1. CASE Copying(h)
      BY <3>1, CopyDone, PlainValue
    <3>2. CASE ~Copying(h)
      <4>1. Writing(h)
        BY <1>3, <3>2 DEF Copying, Writing, Letting
      <4>2. Data(inner[h]) = heap[inner[h]].data
        BY <2>3, SharedVectorAssumption DEF Data, Static
      <4> QED BY <2>3, <3>2, <4>1, <4>2, PlainValue DEF DataInv, InStep
    <3> QED BY <3>1, <3>2
  <2>6. ~Copying(h)' /\ Data(inner[h])' = heap[inner[h]].data
    BY <2>2, <2>3, <2>4, SharedVectorAssumption DEF Copying, Data, Static
  <2>7. ValueOf(h)' = ValueOf(h)
    BY <2>3, <2>5, <2>6, PlainValue
  <2>8. InStep(h)'
    BY <2>2, <2>4, <2>5, <2>6 DEF InStep
  <2> QED BY <1>2, <2>2, <2>7, <2>8 DEF Refines, Stutters, DataInv
<1>4. CASE op[h].then # "write"
  <2>1. inner[h] \in {None, Static} /\ ~Copying(h)
    BY <1>4 DEF Inv, OldInPlace, Copying
  <2>2. \A g \in Handle : op'[g] = op[g] \/ (~Copying(g) /\ ~Copying(g)' /\ ~Writing(g)')
    <3>1. CASE op[h].then = "receive"
      <4>1. PICK t \in Handle : t = op[h].target
        BY <3>1 DEF Inv, CopyInPlace, Typed, AreOps, IsOp
      <4>2. op' = [op EXCEPT ![h] = [Idle EXCEPT !.pc = "wait"], ![t] = CloneOp(t, h)]
        BY <3>1, <4>1 DEF Resumed
      <4>3. /\ op[t].pc = "wait" /\ h # t /\ inner[t] # None /\ op[t].old = None
        BY <3>1, <4>1, SharedVectorAssumption DEF Inv, CopyInPlace, OldInPlace, Letting, None
      <4>4. CloneOp(t, h).pc = "clone" /\ CloneOp(t, h).then = None
        BY <4>3, CloneOpFields
      <4>5. /\ op'[h].pc = "wait" /\ op'[t].pc = "clone"
            /\ \A g \in Handle : g # h /\ g # t => op'[g] = op[g]
        BY <4>2, <4>3, <4>4, WaitFields DEF Inv, Typed, AreOps
      <4> QED BY <2>1, <4>3, <4>5 DEF Copying, Writing
    <3>2. CASE op[h].then # "receive"
      <4>1. op' = [op EXCEPT ![h] = Idle]
        BY <1>4, <3>2 DEF Resumed
      <4>2. op'[h].pc = "idle" /\ \A g \in Handle : g # h => op'[g] = op[g]
        BY <4>1, IdleFields DEF Inv, Typed, AreOps
      <4> QED BY <2>1, <4>2 DEF Copying, Writing
    <3> QED BY <3>1, <3>2
  <2>3. op'[h] # op[h]
    <3>1. op'[h].old = None /\ op[h].old # None
      BY LetGo DEF Inv, OldInPlace
    <3> QED BY <3>1
  <2>4. ASSUME NEW g \in Handle, ~Copying(g), ~Copying(g)', ~Writing(g)',
               inner[g] # None => Data(inner[g])' = Data(inner[g])
        PROVE  ValueOf(g)' = ValueOf(g) /\ InStep(g)'
    BY <2>4, PlainValue
  <2>5. \A g \in Handle : ValueOf(g)' = ValueOf(g) /\ InStep(g)'
    <3>1. ValueOf(h)' = ValueOf(h) /\ InStep(h)'
      <4>1. inner[h] # None => Data(inner[h])' = Data(inner[h])
        BY <2>1 DEF Data
      <4> QED BY <2>2, <2>3, <2>4, <4>1
    <3>2. ASSUME NEW g \in Handle, g # h
          PROVE  ValueOf(g)' = ValueOf(g) /\ InStep(g)'
      BY <1>1, <1>2, <2>2, <2>4, <3>2
    <3> QED BY <3>1, <3>2
  <2> QED BY <2>5 DEF Refines, Stutters, DataInv
<1> QED BY <1>3, <1>4

\* The operation moves to another place, with the same old buffer and no element
\* written: it goes on copying, or letting go.
LEMMA PlaceRefines ==
  ASSUME Inv, DataInv, NEW h \in Handle, NEW q \in {"copy", "move", "sub", "free"},
         IF q \in {"copy", "move"} THEN op[h].pc = "into_iter" ELSE op[h].pc \in {"release", "sub"},
         inner' = inner, op' = [op EXCEPT ![h].pc = q],
         \A b \in Buffer : heap'[b].data = heap[b].data
  PROVE  Refines
<1>1. /\ op'[h].pc = q /\ op'[h].old = op[h].old /\ op'[h].then = op[h].then
      /\ op'[h].taken = op[h].taken /\ op'[h].at = op[h].at /\ op'[h].value = op[h].value
      /\ \A g \in Handle : g # h => op'[g] = op[g]
  BY DEF Inv, Typed, AreOps, IsOp
<1>2. \A g \in Handle : g # h => Unaffected(g)
  BY <1>1 DEF Unaffected
<1>3. (Copying(h)' <=> Copying(h)) /\ (Writing(h)' <=> Writing(h))
  BY <1>1 DEF Copying, Writing
<1>4. Copying(h) => Data(op[h].old)' = Data(op[h].old)
  BY <1>1, OldType DEF Data
<1>5. inner[h] # None => Data(inner[h])' = Data(inner[h])
  BY OldType DEF Data
<1>6. Copying(h) \/ Writing(h) => heap'[inner'[h]].data = heap[inner[h]].data
  BY OldType
<1>7. ValueOf(h)' = ValueOf(h)
  BY <1>3, <1>4, <1>5, PlainValue
<1>8. InStep(h)'
  <2>1. InStep(h)
    BY DEF DataInv
  <2>2. CASE Copying(h)
    BY <1>1, <1>3, <1>4, <1>6, <2>1, <2>2 DEF InStep
  <2>3. CASE ~Copying(h)
    BY <1>1, <1>3, <1>6, <2>1, <2>3 DEF InStep
  <2> QED BY <2>2, <2>3
<1>9. ElementsTyped'
  BY DEF DataInv, ElementsTyped
<1>10. DataInv' /\ \A g \in Handle : g # h => ValueOf(g)' = ValueOf(g)
  BY <1>2, <1>8, <1>9, Assembled
<1> QED BY <1>7, <1>10 DEF Refines, Stutters

\* The load of the count is a stutter.
LEMMA ReleaseLoadRefines ==
  ASSUME Inv, DataInv, NEW h \in Handle, ReleaseLoad(h)
  PROVE  Refines
<1>1. op[h].pc = "release" /\ heap' = heap /\ inner' = inner /\ ~Copying(h)
  BY DEF ReleaseLoad, At, Copying
<1>2. CASE Refcount(op[h].old) < 0
  <2>1. op' = Resumed(h)
    BY <1>2 DEF ReleaseLoad
  <2>2. ElementsTyped'
    BY <1>1 DEF DataInv, ElementsTyped
  <2> QED BY <1>1, <2>1, <2>2, ResumedRefines DEF Letting
<1>3. CASE ~(Refcount(op[h].old) < 0)
  <2>1. op' = [op EXCEPT ![h].pc = "sub"]
    BY <1>3 DEF ReleaseLoad
  <2> QED BY <1>1, <2>1, PlaceRefines
<1> QED BY <1>2, <1>3

\* The decrement is a stutter.
LEMMA ReleaseSubRefines ==
  ASSUME Inv, DataInv, NEW h \in Handle, ReleaseSub(h)
  PROVE  Refines
<1>1. /\ op[h].pc = "sub" /\ inner' = inner /\ ~Copying(h) /\ op[h].old \in Buffer
      /\ heap' = [heap EXCEPT ![op[h].old].refcount = @ - 1]
  BY DEF ReleaseSub, At, Copying, Inv, OldInPlace
<1>2. \A b \in Buffer : heap'[b].data = heap[b].data
  BY <1>1 DEF Inv, Typed, IsBlock
<1>3. CASE heap[op[h].old].refcount = 1
  <2>1. op' = [op EXCEPT ![h].pc = "free"]
    BY <1>3 DEF ReleaseSub
  <2> QED BY <1>1, <1>2, <2>1, PlaceRefines
<1>4. CASE heap[op[h].old].refcount # 1
  <2>1. op' = Resumed(h)
    BY <1>4 DEF ReleaseSub
  <2>2. ElementsTyped'
    BY <1>2 DEF DataInv, ElementsTyped
  <2> QED BY <1>1, <1>2, <2>1, <2>2, ResumedRefines DEF Letting
<1> QED BY <1>3, <1>4

\* The buffer is freed: only the one that frees it had it.
LEMMA OldFreedRefines ==
  ASSUME Inv, DataInv, NEW h \in Handle, op[h].pc \in {"free", "move"},
         Copying(h) => op[h].taken = Len(Data(op[h].old)),
         heap' = [heap EXCEPT ![op[h].old] = Freed], op' = Resumed(h), inner' = inner
  PROVE  Refines
<1>1. op[h].old \in Buffer /\ Sole(h, op[h].old)
  BY DEF Inv, OldInPlace, FreerIsSole
<1>2. /\ heap'[op[h].old].data = << >>
      /\ \A b \in Buffer : b # op[h].old => heap'[b].data = heap[b].data
  BY <1>1 DEF Inv, Typed, Freed
<1>3. ElementsTyped'
  BY <1>1, <1>2, EmptySeq DEF DataInv, ElementsTyped
<1>4. \A b \in Buffer : heap'[b].data = heap[b].data \/ (b = op[h].old /\ Sole(h, b))
  BY <1>1, <1>2
<1> QED BY <1>3, <1>4, ResumedRefines DEF Letting

\* The freeing of a buffer is a stutter: no value is read from it.
LEMMA ReleaseFreeRefines ==
  ASSUME Inv, DataInv, NEW h \in Handle, ReleaseFree(h)
  PROVE  Refines
<1>1. op[h].pc = "free" /\ ~Copying(h)
  BY DEF ReleaseFree, At, Copying
<1> QED BY <1>1, OldFreedRefines DEF ReleaseFree

\* The load of into_iter is a stutter.
LEMMA IntoIterLoadRefines ==
  ASSUME Inv, DataInv, NEW h \in Handle, IntoIterLoad(h)
  PROVE  Refines
<1>1. op[h].pc = "into_iter" /\ inner' = inner
  BY DEF IntoIterLoad, At
<1>2. CASE Refcount(op[h].old) = 1
  <2>1. heap' = [heap EXCEPT ![op[h].old].refcount = 0] /\ op' = [op EXCEPT ![h].pc = "move"]
    BY <1>2 DEF IntoIterLoad
  <2>2. \A b \in Buffer : heap'[b].data = heap[b].data
    BY <2>1 DEF Inv, Typed, IsBlock
  <2> QED BY <1>1, <2>1, <2>2, PlaceRefines
<1>3. CASE Refcount(op[h].old) # 1
  <2>1. heap' = heap /\ op' = [op EXCEPT ![h].pc = "copy"]
    BY <1>3 DEF IntoIterLoad
  <2> QED BY <1>1, <2>1, PlaceRefines
<1> QED BY <1>2, <1>3

\* The iterator is dropped: detach has all the elements then.
LEMMA DropIterRefines ==
  ASSUME Inv, DataInv, NEW h \in Handle, DropIter(h)
  PROVE  Refines
<1>1. /\ op[h].pc \in {"copy", "move"} /\ inner' = inner
      /\ Copying(h) => op[h].taken = Len(Data(op[h].old))
  BY DEF DropIter, Copying
<1>2. CASE op[h].pc = "move"
  BY <1>1, <1>2, OldFreedRefines DEF DropIter, At
<1>3. CASE op[h].pc = "copy"
  <2>1. heap' = heap /\ op' = [op EXCEPT ![h].pc = "release"]
    BY <1>3 DEF DropIter, At
  <2>2. /\ op'[h].pc = "release" /\ op'[h].then = op[h].then
        /\ op'[h].at = op[h].at /\ op'[h].value = op[h].value
        /\ \A g \in Handle : g # h => op'[g] = op[g]
    BY <2>1 DEF Inv, Typed, AreOps, IsOp
  <2>3. \A g \in Handle : g # h => Unaffected(g)
    BY <1>1, <2>1, <2>2 DEF Unaffected
  <2>4. ~Copying(h)' /\ (Writing(h)' <=> Copying(h)) /\ Data(inner[h])' = Data(inner[h])
    BY <1>1, <1>3, <2>1, <2>2 DEF Copying, Writing, Data
  <2>5. ValueOf(h)' = ValueOf(h) /\ InStep(h)'
    <3>1. CASE Copying(h)
      <4>1. inner[h] \in Buffer /\ inner[h] # None
        BY <3>1, OldType, SharedVectorAssumption DEF None
      <4>2. /\ heap[inner[h]].data = Data(op[h].old) /\ Data(inner[h]) = heap[inner[h]].data
            /\ op[h].value \in Element /\ op[h].at \in 1 .. Len(heap[inner[h]].data) + 1
        BY <1>1, <3>1, <4>1, CopyDone, SharedVectorAssumption DEF Data, Static
      <4>3. ValueOf(h)' = ValueOf(h)
        BY <1>1, <2>4, <3>1, <4>1, <4>2, PlainValue
      <4>4. InStep(h)'
        BY <1>1, <2>1, <2>2, <2>4, <4>2 DEF InStep
      <4> QED BY <4>3, <4>4
    <3>2. CASE ~Copying(h)
      BY <1>1, <2>4, <3>2, PlainValue
    <3> QED BY <3>1, <3>2
  <2>6. ElementsTyped'
    BY <2>1 DEF DataInv, ElementsTyped
  <2>7. DataInv' /\ \A g \in Handle : g # h => ValueOf(g)' = ValueOf(g)
    BY <2>3, <2>5, <2>6, Assembled
  <2> QED BY <2>5, <2>7 DEF Refines, Stutters
<1> QED BY <1>1, <1>2, <1>3

\* An element is taken: detach appends it to the new buffer, which nobody else has.
LEMMA TakeElementRefines ==
  ASSUME Inv, DataInv, NEW h \in Handle, TakeElement(h)
  PROVE  Refines
<1>1. /\ op[h].pc \in {"copy", "move"} /\ op[h].taken < Len(Data(op[h].old)) /\ inner' = inner
      /\ op' = [op EXCEPT ![h].taken = @ + 1]
  BY DEF TakeElement
<1>2. /\ op'[h].pc = op[h].pc /\ op'[h].old = op[h].old /\ op'[h].then = op[h].then
      /\ op'[h].taken = op[h].taken + 1 /\ op'[h].at = op[h].at /\ op'[h].value = op[h].value
      /\ \A g \in Handle : g # h => op'[g] = op[g]
  BY <1>1 DEF Inv, Typed, AreOps, IsOp
<1>3. (Copying(h)' <=> Copying(h)) /\ ~Writing(h)'
  BY <1>1, <1>2 DEF Copying, Writing
<1>4. CASE Copying(h)
  <2>1. PICK b \in Buffer, n \in Nat, s \in Seq(Element), d \in Seq(Element) :
          /\ b = inner[h] /\ n = op[h].taken /\ s = heap[b].data /\ d = Data(op[h].old)
    BY <1>4, OldType, DataType DEF DataInv, ElementsTyped
  <2>2. /\ b # op[h].old /\ Sole(h, b)
    BY <1>4, <2>1 DEF Inv, WriterIsSole, Copying
  <2>3. heap' = [heap EXCEPT ![b].data = Append(s, d[n + 1])]
    BY <1>4, <2>1 DEF TakeElement, Copying
  <2>4. /\ n < Len(d) /\ Len(s) = n /\ \A j \in 1 .. n : s[j] = d[j]
        /\ op[h].value \in Element /\ op[h].at \in 1 .. Len(d) + 1
    BY <1>1, <1>4, <2>1 DEF DataInv, InStep
  <2>5. Len(d) \in Nat /\ n + 1 \in 1 .. Len(d)
    BY <2>4, LenProperties
  <2>6. d[n + 1] \in Element
    BY <2>5, ElementOfSeq
  <2>7. PICK w : w = Append(s, d[n + 1])
    OBVIOUS
  <2>8. /\ w \in Seq(Element) /\ Len(w) = n + 1
        /\ \A j \in 1 .. n + 1 : w[j] = d[j]
    BY <2>4, <2>6, <2>7, AppendProperties
  <2>9. heap'[b].data = w /\ \A c \in Buffer : c # b => heap'[c].data = heap[c].data
    BY <2>3, <2>7 DEF Inv, Typed, IsBlock
  <2>10. \A g \in Handle : g # h => Unaffected(g)
    BY <1>1, <1>2, <2>1, <2>2, <2>9 DEF Unaffected, Sole
  <2>11. Data(op[h].old)' = d
    <3>1. op[h].old \in Buffer \cup {Static}
      BY <1>4, OldType
    <3> QED BY <1>2, <2>1, <2>2, <2>9, <3>1 DEF Data
  <2>12. ValueOf(h)' = ValueOf(h)
    BY <1>3, <1>4, <2>1, <2>11, PlainValue
  <2>13. InStep(h)'
    <3>1. /\ op'[h].value \in Element /\ op'[h].at \in 1 .. Len(d) + 1 /\ op'[h].taken = n + 1
          /\ op'[h].taken <= Len(d) /\ heap'[inner'[h]].data = w
      BY <1>1, <1>2, <2>1, <2>4, <2>5, <2>9
    <3> QED BY <1>3, <2>8, <2>11, <3>1 DEF InStep
  <2>14. ElementsTyped'
    BY <2>8, <2>9 DEF DataInv, ElementsTyped
  <2>15. DataInv' /\ \A g \in Handle : g # h => ValueOf(g)' = ValueOf(g)
    BY <2>10, <2>13, <2>14, Assembled
  <2> QED BY <2>12, <2>15 DEF Refines, Stutters
<1>5. CASE ~Copying(h)
  <2>1. heap' = heap
    BY <1>1, <1>5 DEF TakeElement, Copying
  <2>2. \A g \in Handle : g # h => Unaffected(g)
    BY <1>1, <1>2, <2>1 DEF Unaffected
  <2>3. ValueOf(h)' = ValueOf(h) /\ InStep(h)'
    <3>1. Data(inner[h])' = Data(inner[h])
      BY <1>1, <2>1 DEF Data
    <3> QED BY <1>1, <1>3, <1>5, <3>1, PlainValue
  <2>4. ElementsTyped'
    BY <2>1 DEF DataInv, ElementsTyped
  <2>5. DataInv' /\ \A g \in Handle : g # h => ValueOf(g)' = ValueOf(g)
    BY <2>2, <2>3, <2>4, Assembled
  <2> QED BY <2>3, <2>5 DEF Refines, Stutters
<1> QED BY <1>4, <1>5

\* All actions together.
LEMMA StepRefines ==
  ASSUME Inv, DataInv, NEW h \in Handle, Step(h)
  PROVE  Refines
<1>1. ASSUME NEW v \in Element, Push(h, v) \/ PushBack(h, v) \/ SetElement(h, v)
      PROVE  Refines
  <2>1. Exists(h)
    BY <1>1 DEF Push, PushBack, SetElement
  <2>2. /\ Len(Data(inner[h])) \in Nat /\ DOMAIN Data(inner[h]) = 1 .. Len(Data(inner[h]))
    <3>1. Data(inner[h]) \in Seq(Element)
      BY <2>1, OldType, DataType DEF Exists, DataInv
    <3> QED BY <3>1, LenProperties
  <2>3. CASE Push(h, v)
    BY <2>1, <2>2, <2>3, DetachRefines DEF Push
  <2>4. CASE PushBack(h, v)
    <3>1. PICK n \in Nat : n = Len(Data(inner[h])) + 1
      BY <2>2
    <3>2. Detach(h, n, "copy", n, v) /\ n \in 1 .. Len(Data(inner[h])) + 1
      BY <2>2, <2>4, <3>1 DEF PushBack
    <3> QED BY <2>1, <3>2, DetachRefines
  <2>5. CASE SetElement(h, v)
    <3>1. PICK i \in DOMAIN Data(inner[h]) : Detach(h, Len(Data(inner[h])), "copy", i, v)
      BY <2>5 DEF SetElement
    <3>2. i \in 1 .. Len(Data(inner[h])) + 1
      BY <2>2
    <3> QED BY <2>1, <3>1, <3>2, DetachRefines
  <2> QED BY <1>1, <2>3, <2>4, <2>5
<1> QED BY <1>1, DefaultRefines, FromIterRefines, CloneRefines, CloneAddRefines, DropStepRefines,
           ReleaseLoadRefines, ReleaseSubRefines, ReleaseFreeRefines, WriteStepRefines,
           ClearStepRefines, AssignRefines, IntoIterRefines, IntoIterLoadRefines,
           TakeElementRefines, DropIterRefines, Zenon DEF Step

\* The invariant of the elements holds without vectors.
LEMMA DataInvInit == Init => DataInv
<1> SUFFICES ASSUME Init PROVE DataInv
  OBVIOUS
<1>1. ElementsTyped
  BY EmptySeq DEF Init, ElementsTyped, Freed
<1>2. \A h \in Handle : ~Copying(h) /\ ~Writing(h)
  BY IdleFields DEF Init, Copying, Writing, None
<1> QED BY <1>1, <1>2 DEF DataInv, InStep

\* Copy-on-write cannot be told from copying: the reference-counted vector
\* implements VectorValues.  A push, a write or an assignment through one vector,
\* interleaved with whatever other threads do to theirs, never shows in another.
THEOREM VectorsAreValues == Spec => ImplementsValues
<1>1. Init => Values!Init
  <2> SUFFICES ASSUME Init PROVE V = [h \in Handle |-> << >>]
    BY DEF Values!Init, Values!Gone, V
  <2>1. \A h \in Handle : ValueOf(h) = << >>
    BY IdleFields DEF Init, ValueOf, None
  <2> QED BY <2>1 DEF V
<1>2. Inv /\ DataInv /\ [Next]_vars => DataInv' /\ (Values!Next \/ UNCHANGED V)
  <2> SUFFICES ASSUME Inv, DataInv, [Next]_vars
               PROVE  DataInv' /\ (Values!Next \/ UNCHANGED V)
    OBVIOUS
  <2>1. DataInv' /\ (Values!Next \/ Stutters)
    <3>1. CASE Next
      BY <3>1, StepRefines DEF Next, Refines
    <3>2. CASE UNCHANGED vars
      <4>1. heap' = heap /\ inner' = inner /\ op' = op
        BY <3>2 DEF vars
      <4>2. \A g \in Handle : Unaffected(g)
        BY <4>1 DEF Unaffected
      <4>3. ElementsTyped'
        BY <4>1 DEF DataInv, ElementsTyped
      <4> QED BY <4>2, <4>3, Assembled DEF Stutters
    <3> QED BY <3>1, <3>2
  <2>2. Stutters => UNCHANGED V
    BY DEF Stutters, V
  <2> QED BY <2>1, <2>2
<1>3. Inv /\ DataInv /\ [Next]_vars => DataInv' /\ [Values!Next]_([h \in Handle |-> ValueOf(h)])
  BY <1>2 DEF V
<1> QED BY <1>1, <1>3, InvAlways, DataInvInit, PTL DEF Spec, ImplementsValues, Values!Spec
=============================================================================
