---------------------------- MODULE VectorValues ----------------------------
(***************************************************************************)
(* What resolvo::Vector promises the code that uses it                     *)
(* (src/cpp/src/vector.rs, src/cpp/include/resolvo_vector.h): a vector is  *)
(* a value.  Whatever is done to one vector, no other vector changes.      *)
(***************************************************************************)
EXTENDS Sequences, Integers

CONSTANTS Handle,     \* the vectors of the program, whether they exist or not
          Element

VARIABLE value        \* << >>, or <<s>> for a vector that holds the sequence s

Gone == << >>
Holding(s) == <<s>>
Content(h) == value[h][1]

Init == value = [h \in Handle |-> Gone]

Create(h) ==
  /\ value[h] = Gone
  /\ value'[h] # Gone /\ value'[h][1] \in Seq(Element)
  /\ value' = [value EXCEPT ![h] = value'[h]]

Copy(h, g) ==
  /\ value[h] # Gone /\ value[g] = Gone
  /\ value' = [value EXCEPT ![g] = value[h]]

\* An element is replaced, or added at the end.
Write(h) ==
  /\ value[h] # Gone
  /\ \E i \in 1 .. Len(Content(h)) + 1, v \in Element :
       value' = [value EXCEPT ![h] = Holding([j \in (1 .. Len(Content(h))) \cup {i} |->
                                                IF j = i THEN v ELSE Content(h)[j]])]

ClearAll(h) == value[h] # Gone /\ value' = [value EXCEPT ![h] = Holding(<< >>)]
Drop(h) == value[h] # Gone /\ value' = [value EXCEPT ![h] = Gone]

Next == \E h \in Handle : Create(h) \/ Write(h) \/ ClearAll(h) \/ Drop(h) \/ \E g \in Handle : Copy(h, g)
Spec == Init /\ [][Next]_value
=============================================================================
