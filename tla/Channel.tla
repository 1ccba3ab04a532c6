-------------------------------- MODULE Channel --------------------------------
(***************************************************************************)
(* What a connection promises to the two programs at its ends: packets     *)
(* arrive once, whole and in the order in which they were sent, until the  *)
(* connection breaks.  A broken connection promises nothing.               *)
(***************************************************************************)
EXTENDS Naturals, Sequences

VARIABLES sent,       \* packets in the order of Send
          received,   \* packets in the order in which they were handed to the program
          broken

cvars == <<sent, received, broken>>

Init == sent = <<>> /\ received = <<>> /\ broken = FALSE

Grows(old, new) == Len(new) = Len(old) + 1 /\ SubSeq(new, 1, Len(old)) = old

\* What the connection cannot carry breaks it.
Send == Grows(sent, sent') /\ broken' \in {broken, TRUE} /\ UNCHANGED received

Receive ==
    /\ Len(received) < Len(sent)
    /\ received' = Append(received, sent[Len(received) + 1])
    /\ UNCHANGED <<sent, broken>>

Break == broken' = TRUE /\ UNCHANGED <<sent, received>>

ReceiveAnything == broken /\ Grows(received, received') /\ UNCHANGED <<sent, broken>>

Next == Send \/ Receive \/ Break \/ ReceiveAnything

Spec == Init /\ [][Next]_cvars
=============================================================================
