---------------------------- MODULE BoundedFIFO ----------------------------
(***************************************************************************)
(* What a queue between two threads promises: a bounded first-in-first-out *)
(* list.  `items' is its content and `out' the entry handed out last.      *)
(***************************************************************************)
EXTENDS Naturals, Sequences

CONSTANTS
  Entries,   \* what may be queued
  Capacity,  \* how many entries fit
  NoEntry    \* value of out before anything was taken

VARIABLES items, out

Init ==
  /\ items = << >>
  /\ out = NoEntry

Put(e) ==
  /\ Len(items) < Capacity
  /\ items' = Append(items, e)
  /\ UNCHANGED out

Take ==
  /\ items # << >>
  /\ out' = Head(items)
  /\ items' = Tail(items)

Next == Take \/ \E e \in Entries : Put(e)

Spec == Init /\ [][Next]_<<items, out>>

=============================================================================
