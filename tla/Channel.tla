------------------------------ MODULE Channel ------------------------------
(***************************************************************************)
(* What a pipe promises one writer and one reader: a bounded first-in,     *)
(* first-out queue of bytes.  The k-th byte written is the number k.       *)
(***************************************************************************)
EXTENDS Naturals, Sequences

CONSTANT Capacity

VARIABLES
  chan,  \* the bytes written and not yet read
  sent   \* how many bytes were written

vars == <<chan, sent>>

Init == chan = <<>> /\ sent = 0

Put ==
  /\ Len(chan) < Capacity
  /\ chan' = Append(chan, sent)
  /\ sent' = sent + 1

Get ==
  /\ chan # <<>>
  /\ chan' = Tail(chan)
  /\ UNCHANGED sent

Next == Put \/ Get

Spec == Init /\ [][Next]_vars

=============================================================================
