-------------------------------- MODULE Cursor --------------------------------
(***************************************************************************)
(* What a reader of EStream (lib/estream/estream.h) may rely on: it stands *)
(* at a position of the input, a call collects the elements behind it in   *)
(* their order and without a gap, and returns them; unget() steps back by  *)
(* one.  A call that throws loses what it had collected.                   *)
(***************************************************************************)
EXTENDS Integers, Sequences

CONSTANT Thrown

VARIABLES
    input,     \* all the elements of the stream
    position,  \* how many of them were consumed
    held,      \* what the call in progress has collected
    last       \* what the last call returned, or Thrown

cursor_vars == <<input, position, held, last>>

CursorInit == position = 0 /\ held = <<>> /\ last = <<>>

NextEls(n) == SubSeq(input, position + 1, position + n)

Collect(n) == /\ position + n <= Len(input)
              /\ position' = position + n
              /\ held' = held \o NextEls(n)
              /\ UNCHANGED <<input, last>>

Deliver(n) == /\ position + n <= Len(input)
              /\ position' = position + n
              /\ last' = held \o NextEls(n) /\ held' = <<>>
              /\ UNCHANGED input

Look == /\ held = <<>> /\ position < Len(input)
        /\ last' = NextEls(1)
        /\ UNCHANGED <<input, position, held>>

StepBack == /\ held = <<>> /\ position > 0
            /\ position' = position - 1 /\ last' = <<>>
            /\ UNCHANGED <<input, held>>

(* The elements that had arrived when the call failed may be lost.         *)
Throw(n) == /\ position + n <= Len(input)
            /\ position' = position + n
            /\ held' = <<>> /\ last' = Thrown
            /\ UNCHANGED input

CursorNext ==
    \/ \E n \in 0..(Len(input) - position) : Collect(n) \/ Deliver(n) \/ Throw(n)
    \/ Look \/ StepBack

CursorSpec == CursorInit /\ [][CursorNext]_cursor_vars
=============================================================================
