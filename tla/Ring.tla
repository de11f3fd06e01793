-------------------------------- MODULE Ring --------------------------------
(***************************************************************************)
(* The output ring with its contents, and the pump that reads it (ring.rs; *)
(* pump_output in daemon.rs and send_output in conn.rs).  The deque hands  *)
(* its contents out as two halves, split wherever its head happens to lie, *)
(* and the pump walks the two chunk by chunk while the client's queue has  *)
(* room, labelling every chunk with an offset.  A wrong label is a stream  *)
(* that is contiguous and wrong, which no client can detect.               *)
(*                                                                         *)
(* A push never comes between two chunks of one pump: both run on the one  *)
(* thread.                                                                 *)
(***************************************************************************)
EXTENDS Integers, Sequences

CONSTANTS
  Byte,             \* the values a byte of output can have
  Capacity,         \* Ring.capacity
  MaxRead,          \* bytes one read of the PTY returns
  MAX_OUTPUT_DATA,  \* bytes one Output frame carries
  Header,           \* bytes a frame costs besides
  MAX_PENDING_WRITE,
  MaxWritten        \* bound: bytes ever written

ASSUME RingAssumption ==
  /\ Capacity \in Nat \ {0}
  /\ MaxRead \in Nat /\ MAX_OUTPUT_DATA \in Nat \ {0} /\ Header \in Nat
  /\ MAX_PENDING_WRITE \in Nat
  /\ MaxWritten \in Nat

VARIABLES
  buf, base,        \* Ring
  sent,             \* Attached.sent_through
  queued,           \* Conn::queued
  walk,             \* half of the deque the pump is in, or "idle"
  skip, split,      \* where slices_from started, and where the deque splits
  cur,              \* how much of buf the walk has passed
  written,          \* history: every byte ever pushed
  out               \* history: every byte ever queued, with its label

vars == <<buf, base, sent, queued, walk, skip, split, cur, written, out>>
pumpVars == <<sent, queued, walk, skip, split, cur, out>>

SmallerOf(a, b) == IF a < b THEN a ELSE b
LargerOf(a, b) == IF a < b THEN b ELSE a
End == base + Len(buf)

Init ==
  /\ buf = <<>> /\ base = 0 /\ sent = 0 /\ queued = 0
  /\ walk = "idle" /\ skip = 0 /\ split = 0 /\ cur = 0
  /\ written = <<>> /\ out = {}

(* Ring::push: what no longer fits leaves the front of the buffer, and then *)
(* the front of the write itself.                                           *)
OverflowOfWrite(n) == LargerOf(0, n - Capacity)
Overflow(n) == LargerOf(0, Len(buf) + n - Capacity)
FromBuf(n) == SmallerOf(Overflow(n), Len(buf))
Pushed(data) ==
  SubSeq(buf, FromBuf(Len(data)) + 1, Len(buf)) \o
  SubSeq(data, Overflow(Len(data)) - FromBuf(Len(data)) + 1, Len(data))

Push(data) ==
  /\ walk = "idle"
  /\ buf' = Pushed(data)
  /\ base' = base + Overflow(Len(data))
  /\ written' = written \o data
  /\ UNCHANGED pumpVars

(* pump_output: a reader behind the window starts at its base, behind a Gap *)
(* that the queue pays for; then slices_from, once, at whatever split the   *)
(* deque has.                                                               *)
Skipped == LargerOf(sent, base) - base
StartPump ==
  /\ walk = "idle" /\ queued < MAX_PENDING_WRITE /\ sent < End
  /\ sent' = LargerOf(sent, base)
  /\ queued' = IF sent < base THEN queued + Header ELSE queued
  /\ skip' = Skipped
  /\ split' \in 0 .. Len(buf)
  /\ cur' = SmallerOf(skip', split') /\ walk' = "front"
  /\ UNCHANGED <<buf, base, written, out>>

(* A greeting moves the reader anywhere in the window (on_hello).           *)
Resume ==
  /\ walk = "idle" /\ sent' \in base .. End /\ queued' = 0
  /\ UNCHANGED <<buf, base, walk, skip, split, cur, written, out>>

(* The half the walk is in, as far as what buf holds reaches.               *)
PartEnd == IF walk = "front" THEN split ELSE Len(buf)
PartLeft == LargerOf(0, PartEnd - cur)

(* send_output, one chunk: the cap is asked again before each.              *)
Chunk == SmallerOf(MAX_OUTPUT_DATA, PartLeft)
SendChunk ==
  /\ walk # "idle" /\ PartLeft > 0 /\ queued < MAX_PENDING_WRITE
  /\ out' = out \cup {<<sent + i, buf[cur + i + 1]>> : i \in 0 .. Chunk - 1}
  /\ sent' = sent + Chunk /\ cur' = cur + Chunk
  /\ queued' = queued + Header + Chunk
  /\ UNCHANGED <<buf, base, walk, skip, split, written>>

(* The second half only behind the whole of the first, whose share of what  *)
(* was skipped is not skipped twice.                                        *)
BackStart == split + LargerOf(0, skip - split)
FrontShortToo == TRUE
FrontIsDone == PartLeft = 0
SecondHalf ==
  /\ walk = "front" /\ FrontIsDone
  /\ walk' = "back" /\ cur' = BackStart
  /\ UNCHANGED <<buf, base, sent, queued, skip, split, written, out>>

StopPump ==
  /\ \/ walk = "back" /\ PartLeft = 0
     \/ walk # "idle" /\ PartLeft > 0 /\ queued >= MAX_PENDING_WRITE
  /\ walk' = "idle" /\ skip' = 0 /\ split' = 0 /\ cur' = 0
  /\ UNCHANGED <<buf, base, sent, queued, written, out>>

(* The client takes what it will of its queue.                              *)
Drain ==
  /\ walk = "idle" /\ queued > 0
  /\ queued' \in 0 .. queued - 1
  /\ UNCHANGED <<buf, base, sent, walk, skip, split, cur, written, out>>

Reads == UNION {[1 .. n -> Byte] : n \in 0 .. MaxRead}

Next ==
  \/ \E data \in Reads : Len(written) + Len(data) <= MaxWritten /\ Push(data)
  \/ StartPump \/ SendChunk \/ SecondHalf \/ StopPump
  \/ Drain \/ Resume

Spec == Init /\ [][Next]_vars

-----------------------------------------------------------------------------
(* The ring's sizes, and what the walk stands on.                           *)
TypeOK ==
  /\ buf \in Seq(Byte) /\ written \in Seq(Byte)
  /\ base \in Nat /\ sent \in Nat /\ queued \in Nat
  /\ skip \in Nat /\ split \in Nat /\ cur \in Nat
  /\ walk \in {"idle", "front", "back"}
  /\ out \subseteq Nat \X Byte

(* The ring is a window on the tail of what was written, and as full as its *)
(* capacity lets it be (push's one overflow, split over buffer and write).  *)
HoldsTheTail ==
  /\ End = Len(written)
  /\ Len(buf) = SmallerOf(Capacity, Len(written))
  /\ \A i \in 1 .. Len(buf) : buf[i] = written[base + i]

(* Every byte that ever left for a client left under its own offset.        *)
LabelsAreTrue == \A p \in out : p[1] < Len(written) /\ p[2] = written[p[1] + 1]

(* The byte about to be sent is the one sent_through names, in either half; *)
(* a walk that starts on the second half has finished the first.            *)
WalkIsAligned ==
  /\ walk = "front" => /\ cur <= split /\ split <= Len(buf)
                       /\ cur < split => skip <= cur
                       /\ sent = base + LargerOf(cur, skip)
  /\ walk = "back" => cur <= Len(buf) /\ sent = base + cur

Window == INSTANCE OutputWindow WITH RingCap <- Capacity, end <- End

(* Seen by offset alone, the ring is the window the daemon is modelled on   *)
(* (push, slices_from): it slides forward, as far as output makes it and no *)
(* further, whatever has been read.                                         *)
IsAWindow == Window!Spec
=============================================================================
