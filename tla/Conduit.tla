------------------------------ MODULE Conduit ------------------------------
(***************************************************************************)
(* What either direction of the relay promises: bytes come out as they     *)
(* went in -- none lost, none twice, none out of turn -- until it stops.   *)
(***************************************************************************)
EXTENDS Sequences, Naturals

VARIABLES in,   \* everything put in at the one end
          out   \* everything that came out at the other

Begins(s, t) == Len(s) <= Len(t) /\ s = SubSeq(t, 1, Len(s))

Init == in = <<>> /\ out = <<>>

Put  == Len(in') = Len(in) + 1 /\ Begins(in, in') /\ UNCHANGED out
Take == out' # out /\ Begins(out, out') /\ Begins(out', in) /\ UNCHANGED in

Spec == Init /\ [][Put \/ Take]_<<in, out>>
=============================================================================
