-------------------------- MODULE RelayProperties --------------------------
(* What the relay promises whoever sits on either side of it.               *)
EXTENDS Relay

(* Both directions keep the order and lose nothing on the way (Pump's       *)
(* fill-only-when-empty, the short writes of drain_to), whatever the other  *)
(* direction, the worker and the peers do in between.                       *)
Output == INSTANCE Conduit WITH in <- said, out <- out
Input == INSTANCE Conduit WITH in <- typed, out <- got
BytesAreRelayed == Output!Spec /\ Input!Spec

(* Neither direction is ended ahead of its last byte.  A relay that ends    *)
(* well has written all the daemon said, unless whoever read stdout left:   *)
(* finish waits for the worker.  One that gave up saw no batch delivered    *)
(* for the whole STDOUT_FLUSH_TIMEOUT.  And the half-close follows all of   *)
(* what stdin held.                                                         *)
NothingIsCutShort ==
  /\ relay.result = "ok" => out = said \/ stdout.end = "left"
  /\ relay.result = "TimedOut" => quiet >= Window
  /\ relay.halfClosed /\ stdin.end = "hup" /\ daemon # "closed" => got \o up = typed

(* A stalled stdout holds up the session's output and nothing else: what    *)
(* was typed arrives while the daemon is there to read it.                  *)
MaxKeys == CHOOSE k \in {l.keys : l \in Loads} : \A l \in Loads : l.keys <= k
InputArrives ==
  \A n \in 1 .. MaxKeys :
    Len(typed) >= n ~> \/ Len(got) >= n \/ Over \/ daemon = "closed"
                       \/ stdin.end = "nval" \/ relay.pc = "flush"

(* The loop never spins: however its descriptors end or latch an error, it  *)
(* comes to sleep in poll(2), or to its end (spinning, the masks of relay). *)
ComesToRest == <>[](Over \/ (At("poll") /\ Ready = {}))

(* The relay's end.  The last flush always ends, with the worker's status   *)
(* or given up on once stdout has stopped, even one that answers POLLOUT    *)
(* and then EAGAIN for ever; and a session that closes ends its relay while *)
(* somebody reads stdout and nobody else fills it.                          *)
RelayEnds ==
  /\ At("flush") ~> Over
  /\ (stdout.mode = "blocking" /\ []<>(unread = 0)) => (daemon # "open" ~> Over)

(* tests/attach.rs has it that a session's close does not leave the relay   *)
(* waiting for ever on an open stdout that no longer drains.                *)
CloseAloneEndsTheRelay == daemon # "open" ~> Over
=============================================================================
