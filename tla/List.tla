-------------------------------- MODULE List --------------------------------
(***************************************************************************)
(* What Array promises its users: a finite sequence into which elements    *)
(* are put and from which they are taken at a position, without buffers    *)
(* or capacities.                                                          *)
(***************************************************************************)
EXTENDS Integers, Sequences, SequencesExt

CONSTANTS Elements, MaxAdded

VARIABLE content

(* els is put before position p, counted from 0; what was there moves up.  *)
PutIn(p, els) ==
    content' = SubSeq(content, 1, p) \o els \o SubSeq(content, p + 1, Len(content))

(* n elements from position p on are taken out; what follows moves down.   *)
TakeOut(p, n) ==
    /\ p + n <= Len(content)
    /\ content' = SubSeq(content, 1, p) \o SubSeq(content, p + n + 1, Len(content))

Assign(p, el) == content' = [content EXCEPT ![p + 1] = el]

(* Sorting only moves elements. *)
Arrange ==
    \E p \in Surjection(DOMAIN content, DOMAIN content) :
       content' = [i \in DOMAIN content |-> content[p[i]]]

ListInit == content \in BoundedSeq(Elements, MaxAdded)

ListNext ==
    \/ \E p \in 0..Len(content), els \in BoundedSeq(Elements, MaxAdded) : PutIn(p, els)
    \/ \E p \in 0..Len(content), n \in 0..Len(content) : TakeOut(p, n)
    \/ \E p \in 0..(Len(content) - 1), el \in Elements : Assign(p, el)
    \/ Arrange

ListSpec == ListInit /\ [][ListNext]_content
=============================================================================
