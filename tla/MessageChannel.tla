--------------------------- MODULE MessageChannel ---------------------------
(***************************************************************************)
(* What the message layer promises: the messages of one end reach the      *)
(* other unaltered, in their order, each once; of application data, which  *)
(* has no messages, the bytes do.  An item is a message or such a byte.    *)
(***************************************************************************)
EXTENDS Naturals, Sequences

VARIABLES offered,  \* the items given to one end to send
          taken     \* the items the other end has handed out

Init == offered = <<>> /\ taken = <<>>

Offer ==
    /\ \E i \in 1..Len(offered') : offered = SubSeq(offered', 1, i - 1)
    /\ UNCHANGED taken

Take ==
    /\ \E i \in 1..Len(offered) :
        /\ i > Len(taken)
        /\ taken' = SubSeq(offered, 1, i)
    /\ taken = SubSeq(taken', 1, Len(taken))
    /\ UNCHANGED offered

Next == Offer \/ Take

Spec == Init /\ [][Next]_<<offered, taken>>
=============================================================================
