---------------------------- MODULE SharedVector ----------------------------
(***************************************************************************)
(* resolvo::Vector, the reference-counted copy-on-write vector that the    *)
(* Rust and the C++ side of the bindings share (src/cpp/src/vector.rs,     *)
(* src/cpp/include/resolvo_vector.h).                                      *)
(*                                                                         *)
(* A handle is used by one thread at a time (Vector is Send and not Sync), *)
(* and several handles, of several threads, share a buffer.  What is done  *)
(* to different handles interleaves: a step ends at every access to a      *)
(* reference count and at every element that is copied.                    *)
(*                                                                         *)
(* op[h].pc names the place in the operation under way on h:               *)
(*   idle       none                                                       *)
(*   clone      clone: the count was read, not yet incremented             *)
(*   into_iter  into_iter of the buffer `old'                              *)
(*   copy, move taking the elements of old, which is shared or was not     *)
(*   release    drop of old: its count is about to be read,                *)
(*   sub        decremented,                                               *)
(*   free       and the buffer freed                                       *)
(*   write      the buffer is its own, the element is about to be written  *)
(*   wait       copied from as soon as the target has let go of its buffer *)
(* and op[h].then what follows the release of old.                         *)
(***************************************************************************)
EXTENDS Integers, Sequences, FiniteSets

CONSTANTS Handle, Buffer, Element,
          MinNonZeroCap,   \* 8, 4 or 1, by the size of an element
          MaxLen           \* bound: vectors do not grow beyond this

ASSUME SharedVectorAssumption ==
  /\ "none" \notin Buffer /\ "static" \notin Buffer /\ "none" \notin Handle
  /\ IsFiniteSet(Handle)   \* a program has finitely many vectors
  /\ MinNonZeroCap \in Nat \ {0} /\ MaxLen \in Nat

VARIABLES heap, inner, op
vars == <<heap, inner, op>>

None == "none"
Static == "static"         \* SHARED_EMPTY_VEC

\* struct VectorHeader and the elements behind it.
Header(refcount, data, capacity) ==
  [allocated |-> TRUE, refcount |-> refcount, data |-> data, capacity |-> capacity]
Freed == [allocated |-> FALSE, refcount |-> 0, data |-> << >>, capacity |-> 0]

Refcount(p) == IF p = Static THEN -1 ELSE heap[p].refcount
Data(p) == IF p = Static THEN << >> ELSE heap[p].data
Capacity(p) == IF p = Static THEN 0 ELSE heap[p].capacity

Idle == [pc |-> "idle", old |-> None, then |-> None, taken |-> 0, at |-> 0,
         value |-> None, target |-> None, counted |-> FALSE]
Releasing(p, then) == [Idle EXCEPT !.pc = "release", !.old = p, !.then = then]

Exists(h) == inner[h] # None /\ op[h] = Idle
Absent(h) == inner[h] = None /\ op[h] = Idle
At(h, pc) == op[h].pc = pc

Init ==
  /\ heap = [b \in Buffer |-> Freed]
  /\ inner = [h \in Handle |-> None]
  /\ op = [h \in Handle |-> Idle]

----------------------------------------------------------------------------
(* Making vectors                                                           *)

\* determine_capacity_for_growth
Growth(current, required) ==
  LET Larger(m, n) == IF m > n THEN m ELSE n
  IN IF current >= required THEN current
     ELSE Larger(MinNonZeroCap, Larger(2 * current, required))

\* The capacity of a vector that from_iter has put n elements into, one by one.
GrownTo[n \in Nat] == IF n = 0 THEN 0 ELSE Growth(GrownTo[n - 1], n)

Default(h) ==
  /\ Absent(h)
  /\ inner' = [inner EXCEPT ![h] = Static]
  /\ UNCHANGED <<heap, op>>

\* from_iter, with and without an exact size_hint; the buffers it outgrows are
\* its own and are freed before it returns.  Also the constructors of C++.  All
\* elements are alike, later writes make them differ.
FromIter(h) ==
  /\ Absent(h)
  /\ \E b \in Buffer, v \in Element, n \in 0 .. MaxLen : \E capacity \in {n, GrownTo[n]} :
       /\ ~heap[b].allocated
       /\ heap' = [heap EXCEPT ![b] = Header(1, [i \in 1 .. n |-> v], capacity)]
       /\ inner' = [inner EXCEPT ![h] = b]
  /\ UNCHANGED op

----------------------------------------------------------------------------
(* clone and drop                                                           *)

\* Mutant of CloneOp: the first copy of a vector is not counted.
FirstCopyFree(h, g) ==
  [Idle EXCEPT !.pc = "clone", !.target = g, !.counted = Refcount(inner[h]) > 1]

CloneOp(h, g) == [Idle EXCEPT !.pc = "clone", !.target = g, !.counted = Refcount(inner[h]) > 0]

Clone(h) ==
  /\ Exists(h)
  /\ \E g \in Handle : Absent(g) /\ op' = [op EXCEPT ![h] = CloneOp(h, g), ![g] = [Idle EXCEPT !.pc = "wait"]]
  /\ UNCHANGED <<heap, inner>>

CloneAdd(h) ==
  /\ At(h, "clone")
  /\ heap' = IF op[h].counted THEN [heap EXCEPT ![inner[h]].refcount = @ + 1] ELSE heap
  /\ inner' = [inner EXCEPT ![op[h].target] = inner[h]]
  /\ op' = [op EXCEPT ![h] = Idle, ![op[h].target] = Idle]

\* What follows once the old buffer is let go: nothing, the write that needed a
\* buffer of its own, or the copy of the assigned vector.
Resumed(h) ==
  CASE op[h].then = "write" -> [op EXCEPT ![h] = [@ EXCEPT !.pc = "write", !.old = None]]
    [] op[h].then = "receive" ->
         [op EXCEPT ![h] = [Idle EXCEPT !.pc = "wait"],
                    ![op[h].target] = CloneOp(op[h].target, h)]
    [] OTHER -> [op EXCEPT ![h] = Idle]

Drop(h) ==
  /\ Exists(h)
  /\ inner' = [inner EXCEPT ![h] = None]
  /\ op' = [op EXCEPT ![h] = Releasing(inner[h], None)]
  /\ UNCHANGED heap

\* The count of the shared empty vector is negative and stays.
ReleaseLoad(h) ==
  /\ At(h, "release")
  /\ op' = IF Refcount(op[h].old) < 0 THEN Resumed(h) ELSE [op EXCEPT ![h].pc = "sub"]
  /\ UNCHANGED <<heap, inner>>

ReleaseSub(h) ==
  /\ At(h, "sub")
  /\ heap' = [heap EXCEPT ![op[h].old].refcount = @ - 1]
  /\ op' = IF heap[op[h].old].refcount = 1 THEN [op EXCEPT ![h].pc = "free"] ELSE Resumed(h)
  /\ UNCHANGED inner

\* drop_inner
ReleaseFree(h) ==
  /\ At(h, "free")
  /\ heap' = [heap EXCEPT ![op[h].old] = Freed]
  /\ op' = Resumed(h)
  /\ UNCHANGED inner

----------------------------------------------------------------------------
(* Writing                                                                  *)

\* Mutant of Detach: only the capacity decides.
DetachesFullOnly(h, capacity, place, i, v) ==
  LET p == inner[h]
      writing == [Idle EXCEPT !.pc = "write", !.at = i, !.value = v]
  IN IF p # Static /\ capacity <= Capacity(p)
     THEN op' = [op EXCEPT ![h] = writing] /\ UNCHANGED <<heap, inner>>
     ELSE \E b \in Buffer :
            /\ ~heap[b].allocated
            /\ heap' = [heap EXCEPT ![b] = Header(1, << >>, capacity)]
            /\ inner' = [inner EXCEPT ![h] = b]
            /\ op' = [op EXCEPT ![h] = [writing EXCEPT !.pc = place, !.old = p, !.then = "write"]]

\* detach: the vector's own buffer is kept if it is large enough, else a new one
\* takes its place and the elements of the old one follow.
Detach(h, capacity, place, i, v) ==
  LET p == inner[h]
      writing == [Idle EXCEPT !.pc = "write", !.at = i, !.value = v]
  IN IF Refcount(p) = 1 /\ capacity <= Capacity(p)
     THEN op' = [op EXCEPT ![h] = writing] /\ UNCHANGED <<heap, inner>>
     ELSE \E b \in Buffer :
            /\ ~heap[b].allocated
            /\ heap' = [heap EXCEPT ![b] = Header(1, << >>, capacity)]
            /\ inner' = [inner EXCEPT ![h] = b]
            /\ op' = [op EXCEPT ![h] = [writing EXCEPT !.pc = place, !.old = p, !.then = "write"]]

\* push
Push(h, v) ==
  /\ Exists(h) /\ Len(Data(inner[h])) < MaxLen
  /\ LET size == Len(Data(inner[h]))
     IN Detach(h, Growth(Capacity(inner[h]), size + 1), "into_iter", size + 1, v)

\* push_back of the C++ side, which grows by one and always copies.
PushBack(h, v) ==
  /\ Exists(h) /\ Len(Data(inner[h])) < MaxLen
  /\ LET size == Len(Data(inner[h])) IN Detach(h, size + 1, "copy", size + 1, v)

\* operator[] of the C++ side, to assign an element.
SetElement(h, v) ==
  /\ Exists(h)
  /\ \E i \in DOMAIN Data(inner[h]) : Detach(h, Len(Data(inner[h])), "copy", i, v)

Write(h) ==
  /\ At(h, "write")
  /\ LET data == heap[inner[h]].data
     IN heap' = [heap EXCEPT ![inner[h]].data =
                   [j \in DOMAIN data \cup {op[h].at} |-> IF j = op[h].at THEN op[h].value ELSE data[j]]]
  /\ op' = [op EXCEPT ![h] = Idle]
  /\ UNCHANGED inner

\* clear of the C++ side.
Clear(h) ==
  /\ Exists(h)
  /\ IF Refcount(inner[h]) = 1
     THEN heap' = [heap EXCEPT ![inner[h]].data = << >>] /\ UNCHANGED <<inner, op>>
     ELSE /\ inner' = [inner EXCEPT ![h] = Static]
          /\ op' = [op EXCEPT ![h] = Releasing(inner[h], None)]
          /\ UNCHANGED heap

\* operator= of the C++ side: let go of the old buffer, then copy the other.
Assign(h, g) ==
  /\ Exists(h) /\ Exists(g) /\ inner[h] # inner[g]
  /\ inner' = [inner EXCEPT ![h] = None]
  /\ op' = [op EXCEPT ![h] = [Releasing(inner[h], "receive") EXCEPT !.target = g],
                      ![g] = [Idle EXCEPT !.pc = "wait"]]
  /\ UNCHANGED heap

----------------------------------------------------------------------------
(* Taking the elements out                                                  *)

\* into_iter of a vector that is used up; its elements go to the caller.
IntoIter(h) ==
  /\ Exists(h)
  /\ inner' = [inner EXCEPT ![h] = None]
  /\ op' = [op EXCEPT ![h] = [Idle EXCEPT !.pc = "into_iter", !.old = inner[h]]]
  /\ UNCHANGED heap

\* The elements of a buffer without other users are moved out of it.
IntoIterLoad(h) ==
  /\ At(h, "into_iter")
  /\ LET old == op[h].old
     IN IF Refcount(old) = 1
        THEN /\ heap' = [heap EXCEPT ![old].refcount = 0]
             /\ op' = [op EXCEPT ![h].pc = "move"]
        ELSE op' = [op EXCEPT ![h].pc = "copy"] /\ UNCHANGED heap
  /\ UNCHANGED inner

\* IntoIter::next
TakeElement(h) ==
  /\ op[h].pc \in {"copy", "move"} /\ op[h].taken < Len(Data(op[h].old))
  /\ op' = [op EXCEPT ![h].taken = @ + 1]
  /\ heap' = IF op[h].then = "write"
             THEN [heap EXCEPT ![inner[h]].data = Append(@, Data(op[h].old)[op[h].taken + 1])]
             ELSE heap
  /\ UNCHANGED inner

\* Mutant of DropIter: the buffer whose elements were moved is not freed.
KeepsMovedBuffer(h) ==
  /\ op[h].pc \in {"copy", "move"}
  /\ op[h].then = "write" => op[h].taken = Len(Data(op[h].old))
  /\ op' = IF At(h, "copy") THEN [op EXCEPT ![h].pc = "release"] ELSE Resumed(h)
  /\ UNCHANGED <<heap, inner>>

\* The iterator is dropped: by detach after the last element, by a caller any time.
DropIter(h) ==
  /\ op[h].pc \in {"copy", "move"}
  /\ op[h].then = "write" => op[h].taken = Len(Data(op[h].old))
  /\ IF At(h, "copy")
     THEN op' = [op EXCEPT ![h].pc = "release"] /\ UNCHANGED heap
     ELSE heap' = [heap EXCEPT ![op[h].old] = Freed] /\ op' = Resumed(h)
  /\ UNCHANGED inner

----------------------------------------------------------------------------
Step(h) ==
  \/ Default(h) \/ FromIter(h) \/ Clone(h) \/ CloneAdd(h)
  \/ Drop(h) \/ ReleaseLoad(h) \/ ReleaseSub(h) \/ ReleaseFree(h)
  \/ (\E v \in Element : Push(h, v) \/ PushBack(h, v) \/ SetElement(h, v))
  \/ Write(h) \/ Clear(h) \/ (\E g \in Handle : Assign(h, g))
  \/ IntoIter(h) \/ IntoIterLoad(h) \/ TakeElement(h) \/ DropIter(h)

Next == \E h \in Handle : Step(h)
Spec == Init /\ [][Next]_vars

----------------------------------------------------------------------------
(* Properties                                                               *)

\* Everyone who refers to a buffer, and those whose reference the count includes:
\* all but the one that has taken it to zero and is about to free it.
Users(b) == {h \in Handle : inner[h] = b \/ op[h].old = b}
Counted(b) == {h \in Users(b) : inner[h] = b \/ op[h].pc \notin {"free", "move"}}

\* The reference count of a buffer is the number of vectors that use it, at every
\* point at which the threads can interleave (Clone, Drop and detach of Vector,
\* copy and assignment in resolvo_vector.h).
RefcountIsExact ==
  \A b \in Buffer : heap[b].allocated => heap[b].refcount = Cardinality(Counted(b))

\* No vector and no operation under way refers to a buffer that was freed, and no
\* buffer is left allocated without one (drop_inner, drop of IntoIter, drop).
AllocatedIfUsed == \A b \in Buffer : heap[b].allocated <=> Users(b) # {}

\* What a vector holds, with the elements that detach has not moved yet.
ValueOf(h) ==
  IF op[h].pc \in {"into_iter", "copy", "move"} /\ op[h].then = "write"
  THEN <<Data(op[h].old)>>
  ELSE IF inner[h] = None THEN << >> ELSE <<Data(inner[h])>>

Values == INSTANCE VectorValues WITH value <- [h \in Handle |-> ValueOf(h)]

\* Copy-on-write cannot be told from copying: SharedVector implements
\* VectorValues, in which every vector has a sequence of its own.
ImplementsValues == Values!Spec
=============================================================================
