----------------------------- MODULE AuthStream -----------------------------
(***************************************************************************)
(* What two cipher contexts made from one key promise the ends of a        *)
(* connection: the receiving end is handed the buffers the sending end     *)
(* sealed, each at most once and in the order they were sealed, and        *)
(* nothing else, whatever happens to the packets in between.               *)
(***************************************************************************)
EXTENDS Naturals, Sequences

CONSTANT Msgs           \* what an end can seal

VARIABLES
    given,              \* the buffers handed to the sending end, in order
    taken               \* the buffers the receiving end handed up, in order

vars == <<given, taken>>

Init == given = << >> /\ taken = << >>

Give(m) == given' = Append(given, m) /\ UNCHANGED taken

\* The receiving end hands up the oldest buffer it has not handed up yet.
Take ==
    /\ Len(taken) < Len(given)
    /\ taken' = Append(taken, given[Len(taken) + 1])
    /\ UNCHANGED given

Next == (\E m \in Msgs : Give(m)) \/ Take

Spec == Init /\ [][Next]_vars
=============================================================================
