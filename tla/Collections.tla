------------------------------ MODULE Collections ------------------------------
(***************************************************************************)
(* What array_t and stack_t promise, whatever blocks their elements are in: *)
(* a sequence that grows at its end, and a stack.  answer is the result of   *)
(* the last operation; a push may fail, and says so.                         *)
(***************************************************************************)
EXTENDS Integers, Sequences

CONSTANTS
  Values,  \* elements
  Nothing  \* NULL, and the element of zero bytes a stack without elements answers

VARIABLES array, lifo, answer

vars == <<array, lifo, answer>>

Init == array = <<>> /\ lifo = <<>> /\ answer = Nothing

Add(x) == array' = Append(array, x) /\ answer' = Nothing /\ UNCHANGED lifo

\* A place behind the end is answered with NULL, whichever it is.
Get(i) ==
  /\ answer' = IF i <= Len(array) THEN array[i] ELSE Nothing
  /\ UNCHANGED <<array, lifo>>

Clear == array' = <<>> /\ answer' = Nothing /\ UNCHANGED lifo

Push(x) == lifo' = Append(lifo, x) /\ answer' = Nothing /\ UNCHANGED array

PushFails == answer' = Nothing /\ UNCHANGED <<array, lifo>>

Peek ==
  /\ answer' = IF lifo = <<>> THEN Nothing ELSE lifo[Len(lifo)]
  /\ UNCHANGED <<array, lifo>>

Pop ==
  /\ answer' = IF lifo = <<>> THEN Nothing ELSE lifo[Len(lifo)]
  /\ lifo' = IF lifo = <<>> THEN lifo ELSE SubSeq(lifo, 1, Len(lifo) - 1)
  /\ UNCHANGED array

Empty == lifo' = <<>> /\ answer' = Nothing /\ UNCHANGED array

Next ==
  \/ \E x \in Values : Add(x) \/ Push(x)
  \/ \E i \in 1 .. Len(array) + 1 : Get(i)
  \/ Clear \/ PushFails \/ Peek \/ Pop \/ Empty

Spec == Init /\ [][Next]_vars

================================================================================
