---------------------------- MODULE OutputWindow ----------------------------
(***************************************************************************)
(* What the output ring promises whoever reads by offset: a window on the  *)
(* tail of everything the session ever wrote, as long as the ring's        *)
(* capacity once it has filled, and never trimmed to what somebody read.   *)
(***************************************************************************)
EXTENDS Integers

CONSTANT RingCap   \* bytes retained
VARIABLES base,    \* offset of the oldest byte retained
          end      \* offset one past the newest, so the total ever written

Init == base = 0 /\ end = 0

(* More output arrives; the oldest bytes go, only as many as have to.       *)
Write ==
  /\ end' \in Nat /\ end' > end
  /\ base' = IF end' - RingCap > base THEN end' - RingCap ELSE base

Spec == Init /\ [][Write]_<<base, end>>
=============================================================================
