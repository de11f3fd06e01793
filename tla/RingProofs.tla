----------------------------- MODULE RingProofs -----------------------------
(***************************************************************************)
(* Proofs about the output ring, for every capacity, chunk size and queue  *)
(* cap: its invariants hold, and by offset it implements OutputWindow.     *)
(***************************************************************************)
EXTENDS Ring, SequenceTheorems, TLAPS

(* The reader never gets past the newest byte; this is what keeps a walk    *)
(* inside the deque, and so every label inside the stream.                  *)
ReaderInStream == sent <= End

IInv == TypeOK /\ HoldsTheTail /\ LabelsAreTrue /\ WalkIsAligned /\ ReaderInStream

(* Ring::push retains exactly the tail of old contents and new data: the    *)
(* overflow is taken from the front of the two, wherever it falls.          *)
LEMMA PushedIsTheTail ==
  ASSUME TypeOK, NEW data \in Seq(Byte)
  PROVE  /\ Pushed(data) \in Seq(Byte)
         /\ Overflow(Len(data)) \in Nat
         /\ Len(Pushed(data)) = Len(buf) + Len(data) - Overflow(Len(data))
         /\ \A i \in 1 .. Len(Pushed(data)) :
              Pushed(data)[i] =
                IF i + Overflow(Len(data)) <= Len(buf) THEN buf[i + Overflow(Len(data))]
                ELSE data[i + Overflow(Len(data)) - Len(buf)]
<1> DEFINE n == Len(data)
           l == Len(buf)
           o == Overflow(n)
           b == FromBuf(n)
           kept == SubSeq(buf, b + 1, l)
           rest == SubSeq(data, o - b + 1, n)
           k == Len(kept)
           r == Len(rest)
<1>1. /\ l \in Nat /\ n \in Nat
      /\ \A i \in 1 .. l : buf[i] \in Byte
      /\ \A i \in 1 .. n : data[i] \in Byte
  BY LenProperties, ElementOfSeq DEF TypeOK
<1>2. /\ o = IF 0 < l + n - Capacity THEN l + n - Capacity ELSE 0
      /\ b = IF o < l THEN o ELSE l
  BY DEF Overflow, FromBuf, LargerOf, SmallerOf
<1>3. Pushed(data) = kept \o rest
  BY DEF Pushed
<1> HIDE DEF n, l, o, b
<1>4. /\ o \in Nat /\ b \in Nat /\ b <= o /\ b <= l /\ o - b <= n /\ o - b >= 0
      /\ o - b > 0 => b = l
  BY <1>1, <1>2, RingAssumption
<1>5. /\ kept \in Seq(Byte) /\ k = l - b
      /\ \A i \in 1 .. k : kept[i] = buf[b + i]
  <2>1. \A i \in b + 1 .. l : buf[i] \in Byte
    BY <1>1, <1>4
  <2> QED  BY <1>1, <1>4, <2>1, SubSeqProperties
<1>6. /\ rest \in Seq(Byte) /\ r = n - (o - b)
      /\ \A i \in 1 .. r : rest[i] = data[o - b + i]
  <2>1. \A i \in o - b + 1 .. n : data[i] \in Byte
    BY <1>1, <1>4
  <2> QED  BY <1>1, <1>4, <2>1, SubSeqProperties
<1>7. /\ kept \o rest \in Seq(Byte) /\ Len(kept \o rest) = k + r
      /\ \A i \in 1 .. k + r :
           (kept \o rest)[i] = IF i <= k THEN kept[i] ELSE rest[i - k]
  BY <1>5, <1>6, ConcatProperties
<1> HIDE DEF kept, rest, k, r
<1>8. k + r = l + n - o
  BY <1>1, <1>4, <1>5, <1>6
<1>9. ASSUME NEW i \in 1 .. l + n - o
      PROVE  Pushed(data)[i] = IF i + o <= l THEN buf[i + o] ELSE data[i + o - l]
  <2>1. CASE i <= k
    <3>1. i \in 1 .. k /\ i + o <= l /\ b + i = i + o
      BY <2>1, <1>1, <1>4, <1>5, <1>6
    <3> QED  BY <2>1, <3>1, <1>3, <1>5, <1>7, <1>8
  <2>2. CASE ~ (i <= k)
    <3>1. i - k \in 1 .. r /\ ~ (i + o <= l) /\ o - b + (i - k) = i + o - l
      BY <2>2, <1>1, <1>4, <1>5, <1>6
    <3> QED  BY <2>2, <3>1, <1>3, <1>6, <1>7, <1>8
  <2> QED  BY <2>1, <2>2
<1> QED  BY <1>3, <1>4, <1>7, <1>8, <1>9 DEF n, l, o

LEMMA ReadsAreSequences ==
  ASSUME NEW data \in Reads
  PROVE  data \in Seq(Byte)
BY RingAssumption DEF Reads

-----------------------------------------------------------------------------
(* One lemma per action of the module. *)

LEMMA InitEstablishesIInv == Init => IInv
<1> SUFFICES ASSUME Init PROVE IInv
  OBVIOUS
<1>1. Len(<<>>) = 0 /\ <<>> \in Seq(Byte)
  BY EmptySeq
<1> QED
  BY <1>1, RingAssumption
  DEF Init, IInv, TypeOK, HoldsTheTail, LabelsAreTrue, WalkIsAligned, ReaderInStream,
      End, SmallerOf

LEMMA PushKeepsIInv ==
  ASSUME IInv, NEW data \in Seq(Byte), Push(data)
  PROVE  IInv'
<1> DEFINE o == Overflow(Len(data))
           l == Len(buf)
           n == Len(data)
           w == Len(written)
           l2 == Len(buf')
           w2 == Len(written')
<1>1. /\ l \in Nat /\ n \in Nat /\ w \in Nat /\ base \in Nat /\ sent \in Nat
      /\ Capacity \in Nat \ {0} /\ o \in Nat
  BY LenProperties, RingAssumption, PushedIsTheTail DEF IInv, TypeOK
<1>2. o = IF 0 < l + n - Capacity THEN l + n - Capacity ELSE 0
  BY DEF Overflow, LargerOf
<1>3. /\ buf' \in Seq(Byte) /\ l2 = l + n - o
      /\ \A i \in 1 .. l2 :
           buf'[i] = IF i + o <= l THEN buf[i + o] ELSE data[i + o - l]
  BY PushedIsTheTail DEF IInv, Push
<1>4. base' = base + o /\ UNCHANGED pumpVars
  BY DEF Push
<1>5. /\ written' \in Seq(Byte) /\ w2 = w + n
      /\ \A i \in 1 .. w + n :
           written'[i] = IF i <= w THEN written[i] ELSE data[i - w]
  BY ConcatProperties DEF IInv, TypeOK, Push
<1>6. /\ base + l = w
      /\ l = IF Capacity < w THEN Capacity ELSE w
      /\ \A i \in 1 .. l : buf[i] = written[base + i]
  BY DEF IInv, HoldsTheTail, End, SmallerOf
<1>7. sent <= base + l
  BY DEF IInv, ReaderInStream, End
<1> HIDE DEF o, l, n, w, l2, w2
<1>8. TypeOK'
  BY <1>1, <1>3, <1>4, <1>5 DEF IInv, TypeOK, pumpVars
<1>9. base' + l2 = w2 /\ l2 = (IF Capacity < w2 THEN Capacity ELSE w2) /\ l2 \in Nat
  BY <1>1, <1>2, <1>3, <1>4, <1>5, <1>6
<1>10. ASSUME NEW i \in 1 .. l2
       PROVE  buf'[i] = written'[base' + i]
  <2> DEFINE k == base' + i
  <2>1. /\ i \in Nat /\ 1 <= i /\ i <= l + n - o
        /\ k = base + o + i /\ k \in 1 .. w + n
        /\ i + o <= l => k <= w /\ i + o \in 1 .. l /\ k = base + (i + o)
        /\ ~ (i + o <= l) => ~ (k <= w) /\ k - w = i + o - l
    BY <1>1, <1>3, <1>4, <1>6
  <2> HIDE DEF k
  <2>2. CASE i + o <= l
    <3>1. buf'[i] = buf[i + o] /\ buf[i + o] = written[k]
      BY <1>3, <1>6, <2>1, <2>2
    <3>2. written'[k] = written[k]
      BY <1>5, <2>1, <2>2
    <3> QED  BY <3>1, <3>2 DEF k
  <2>3. CASE ~ (i + o <= l)
    <3>1. buf'[i] = data[k - w]
      BY <1>3, <2>1, <2>3
    <3>2. written'[k] = data[k - w]
      BY <1>5, <2>1, <2>3
    <3> QED  BY <3>1, <3>2 DEF k
  <2> QED  BY <2>2, <2>3
<1>11. HoldsTheTail'
  BY <1>9, <1>10 DEF HoldsTheTail, End, SmallerOf, l2, w2
<1>12. LabelsAreTrue'
  <2> SUFFICES ASSUME NEW p \in out
               PROVE  p[1] < w2 /\ p[2] = written'[p[1] + 1]
    BY <1>4 DEF LabelsAreTrue, pumpVars, w2
  <2>1. p[1] \in Nat /\ p[1] < w /\ p[2] = written[p[1] + 1]
    BY DEF IInv, TypeOK, LabelsAreTrue, w
  <2>2. p[1] + 1 \in 1 .. w + n /\ p[1] + 1 <= w /\ p[1] < w2
    BY <1>1, <1>5, <2>1
  <2> QED  BY <2>1, <2>2, <1>5
<1>13. WalkIsAligned'
  BY <1>4 DEF Push, pumpVars, WalkIsAligned
<1>14. ReaderInStream'
  <2>1. sent' = sent /\ sent <= base' + l2
    BY SMTT(30), <1>1, <1>3, <1>4, <1>7 DEF pumpVars
  <2> QED  BY <2>1 DEF ReaderInStream, End, l2
<1> QED  BY <1>8, <1>11, <1>12, <1>13, <1>14 DEF IInv

(* The reader's actions leave the ring itself alone.                        *)
LEMMA ReaderKeepsTheTail ==
  ASSUME HoldsTheTail, UNCHANGED <<buf, base, written>>
  PROVE  HoldsTheTail'
BY DEF HoldsTheTail, End

LEMMA StartPumpKeepsIInv ==
  ASSUME IInv, StartPump
  PROVE  IInv'
<1>1. /\ Len(buf) \in Nat /\ base \in Nat /\ sent \in Nat /\ queued \in Nat
      /\ Header \in Nat /\ End = base + Len(buf)
  BY LenProperties, RingAssumption DEF IInv, TypeOK, End
<1>2. /\ sent' \in Nat /\ skip' \in Nat /\ split' \in Nat /\ cur' \in Nat /\ queued' \in Nat
      /\ sent' = base + skip' /\ skip' <= Len(buf) /\ split' <= Len(buf)
      /\ cur' <= split' /\ cur' <= skip' /\ (cur' < split' => cur' = skip')
      /\ walk' = "front"
  BY <1>1 DEF StartPump, Skipped, LargerOf, SmallerOf
<1>3. UNCHANGED <<buf, base, written, out>>
  BY DEF StartPump, Skipped
<1>4. TypeOK'
  BY <1>2, <1>3 DEF IInv, TypeOK
<1>5. LabelsAreTrue' /\ HoldsTheTail'
  BY <1>3, ReaderKeepsTheTail DEF IInv, LabelsAreTrue
<1>6. WalkIsAligned'
  BY <1>1, <1>2, <1>3 DEF WalkIsAligned, LargerOf
<1>7. ReaderInStream'
  BY <1>1, <1>2, <1>3 DEF ReaderInStream, End
<1> QED  BY <1>4, <1>5, <1>6, <1>7 DEF IInv

LEMMA SendChunkKeepsIInv ==
  ASSUME IInv, SendChunk
  PROVE  IInv'
<1> USE RingAssumption
<1>1. /\ Len(buf) \in Nat /\ base \in Nat /\ sent \in Nat /\ queued \in Nat /\ cur \in Nat
      /\ split \in Nat /\ skip \in Nat /\ Header \in Nat /\ MAX_OUTPUT_DATA \in Nat \ {0}
      /\ base + Len(buf) = Len(written)
  BY LenProperties DEF IInv, TypeOK, HoldsTheTail, End
<1>2. UNCHANGED <<buf, base, walk, skip, split, written>>
  BY DEF SendChunk
<1>3. /\ Chunk \in Nat \ {0} /\ cur + Chunk <= Len(buf) /\ sent = base + cur
      /\ walk = "front" => /\ skip <= cur /\ cur + Chunk <= split
                           /\ split <= Len(buf)
  <2>1. /\ PartEnd \in Nat /\ cur < PartEnd /\ PartEnd <= Len(buf)
        /\ walk = "front" => PartEnd = split
    <3>1. PartEnd \in Nat /\ cur < PartEnd
      BY <1>1 DEF SendChunk, PartLeft, PartEnd, LargerOf
    <3>2. walk \in {"front", "back"}
      BY DEF IInv, TypeOK, SendChunk
    <3> QED  BY <1>1, <3>1, <3>2 DEF IInv, WalkIsAligned, PartEnd
  <2>2. PartLeft = PartEnd - cur
    BY <1>1, <2>1 DEF PartLeft, LargerOf
  <2>3. Chunk \in Nat \ {0} /\ Chunk <= PartEnd - cur
    BY <1>1, <2>1, <2>2 DEF Chunk, SmallerOf
  <2>4. sent = base + cur /\ (walk = "front" => skip <= cur)
    BY <1>1, <2>1 DEF IInv, TypeOK, WalkIsAligned, SendChunk, LargerOf
  <2> HIDE DEF Chunk, PartEnd, PartLeft
  <2> QED  BY <1>1, <2>1, <2>3, <2>4
<1>4. sent' = sent + Chunk /\ cur' = cur + Chunk /\ queued' = queued + Header + Chunk
  BY DEF SendChunk
<1> HIDE DEF Chunk, PartEnd
<1>5. \A p \in out' \ out : /\ p \in Nat \X Byte
                            /\ p[1] < Len(written) /\ p[2] = written[p[1] + 1]
  <2> SUFFICES ASSUME NEW i \in 0 .. Chunk - 1
               PROVE  /\ sent + i \in Nat /\ buf[cur + i + 1] \in Byte
                      /\ sent + i < Len(written)
                      /\ buf[cur + i + 1] = written[sent + i + 1]
    BY DEF SendChunk
  <2>1. /\ i \in Nat /\ cur + i + 1 \in 1 .. Len(buf)
        /\ sent + i \in Nat /\ sent + i < Len(written)
    BY <1>1, <1>3
  <2>2. buf[cur + i + 1] \in Byte
    BY <2>1, ElementOfSeq DEF IInv, TypeOK
  <2>3. buf[cur + i + 1] = written[base + (cur + i + 1)]
    BY <2>1 DEF IInv, HoldsTheTail
  <2>4. base + (cur + i + 1) = sent + i + 1
    BY <1>1, <1>3, <2>1
  <2> QED  BY <2>1, <2>2, <2>3, <2>4
<1>6. TypeOK'
  <2>1. out' \subseteq Nat \X Byte
    BY <1>5 DEF IInv, TypeOK
  <2> QED  BY <1>1, <1>2, <1>3, <1>4, <2>1 DEF IInv, TypeOK
<1>7. HoldsTheTail'
  BY <1>2, ReaderKeepsTheTail DEF IInv
<1>8. LabelsAreTrue'
  BY <1>2, <1>5 DEF IInv, LabelsAreTrue
<1>9. WalkIsAligned'
  BY <1>1, <1>2, <1>3, <1>4 DEF WalkIsAligned, LargerOf
<1>10. ReaderInStream'
  BY <1>1, <1>2, <1>3, <1>4 DEF ReaderInStream, End
<1> QED  BY <1>6, <1>7, <1>8, <1>9, <1>10 DEF IInv

LEMMA SecondHalfKeepsIInv ==
  ASSUME IInv, SecondHalf
  PROVE  IInv'
<1>1. /\ Len(buf) \in Nat /\ base \in Nat /\ sent \in Nat /\ cur \in Nat
      /\ split \in Nat /\ skip \in Nat /\ sent <= base + Len(buf)
      /\ cur <= split /\ split <= Len(buf) /\ sent = base + LargerOf(cur, skip)
  BY LenProperties DEF IInv, TypeOK, WalkIsAligned, ReaderInStream, End, SecondHalf
<1>2. UNCHANGED <<buf, base, sent, queued, skip, split, written, out>> /\ walk' = "back"
  BY DEF SecondHalf
<1>3. cur = split
  BY <1>1 DEF SecondHalf, FrontIsDone, PartLeft, PartEnd, LargerOf
<1>4. cur' \in Nat /\ cur' <= Len(buf) /\ sent = base + cur'
  BY <1>1, <1>3 DEF SecondHalf, BackStart, LargerOf
<1>5. TypeOK'
  BY <1>2, <1>4 DEF IInv, TypeOK
<1>6. HoldsTheTail' /\ LabelsAreTrue' /\ ReaderInStream'
  BY <1>2, ReaderKeepsTheTail DEF IInv, LabelsAreTrue, ReaderInStream, End
<1>7. WalkIsAligned'
  BY <1>2, <1>4 DEF WalkIsAligned
<1> QED  BY <1>5, <1>6, <1>7 DEF IInv

LEMMA IdleActionsKeepIInv ==
  ASSUME IInv, StopPump \/ Drain \/ Resume
  PROVE  IInv'
<1>1. /\ UNCHANGED <<buf, base, written, out>> /\ walk' = "idle"
      /\ sent' \in Nat /\ sent' <= End
      /\ queued' \in Nat /\ skip' \in Nat /\ split' \in Nat /\ cur' \in Nat
  <2>1. /\ Len(buf) \in Nat /\ base \in Nat /\ End = base + Len(buf)
    BY LenProperties DEF IInv, TypeOK, End
  <2>2. CASE StopPump
    BY <2>2 DEF StopPump, IInv, TypeOK, ReaderInStream
  <2>3. CASE Drain
    BY <2>3 DEF Drain, IInv, TypeOK, ReaderInStream
  <2>4. CASE Resume
    BY <2>1, <2>4 DEF Resume, IInv, TypeOK
  <2> QED  BY <2>2, <2>3, <2>4
<1>2. TypeOK'
  BY <1>1 DEF IInv, TypeOK
<1>3. HoldsTheTail' /\ LabelsAreTrue' /\ ReaderInStream' /\ WalkIsAligned'
  BY <1>1, ReaderKeepsTheTail
  DEF IInv, LabelsAreTrue, ReaderInStream, End, WalkIsAligned
<1> QED  BY <1>2, <1>3 DEF IInv

LEMMA StutterKeepsIInv ==
  ASSUME IInv, UNCHANGED vars
  PROVE  IInv'
BY DEF IInv, TypeOK, HoldsTheTail, LabelsAreTrue, WalkIsAligned, ReaderInStream, vars,
       End

(* The inductive invariant.  None of its parts is inductive alone: a label  *)
(* is right because the walk is aligned and the ring holds the tail, and    *)
(* the walk stays in the deque because the reader is within the stream.     *)
THEOREM InductiveInvariant == Spec => []IInv
<1>1. IInv /\ [Next]_vars => IInv'
  <2> SUFFICES ASSUME IInv, [Next]_vars PROVE IInv'
    OBVIOUS
  <2>1. CASE \E data \in Reads : Len(written) + Len(data) <= MaxWritten /\ Push(data)
    BY <2>1, ReadsAreSequences, PushKeepsIInv
  <2>2. CASE StartPump
    BY <2>2, StartPumpKeepsIInv
  <2>3. CASE SendChunk
    BY <2>3, SendChunkKeepsIInv
  <2>4. CASE SecondHalf
    BY <2>4, SecondHalfKeepsIInv
  <2>5. CASE StopPump \/ Drain \/ Resume
    BY <2>5, IdleActionsKeepIInv
  <2>6. CASE UNCHANGED vars
    BY <2>6, StutterKeepsIInv
  <2> QED  BY <2>1, <2>2, <2>3, <2>4, <2>5, <2>6 DEF Next
<1> QED  BY InitEstablishesIInv, <1>1, PTL DEF Spec

(* Every byte handed to a client carries its own offset in everything the   *)
(* session ever wrote, through any split of the deque and any queue cap.    *)
THEOREM OutputIsTrue == Spec => []LabelsAreTrue
<1>1. IInv => LabelsAreTrue
  BY DEF IInv
<1> QED  BY InductiveInvariant, <1>1, PTL

(* The ring holds exactly the last Capacity bytes written, or all of them.  *)
THEOREM RingHoldsTheTail == Spec => []HoldsTheTail
<1>1. IInv => HoldsTheTail
  BY DEF IInv
<1> QED  BY InductiveInvariant, <1>1, PTL

(* Across the two halves the pump's place in the deque is sent_through's.   *)
THEOREM PumpIsAligned == Spec => []WalkIsAligned
<1>1. IInv => WalkIsAligned
  BY DEF IInv
<1> QED  BY InductiveInvariant, <1>1, PTL

(* The ring's lengths and offsets stay natural, and its contents bytes.     *)
THEOREM RingTypeCorrect == Spec => []TypeOK
<1>1. IInv => TypeOK
  BY DEF IInv
<1> QED  BY InductiveInvariant, <1>1, PTL

-----------------------------------------------------------------------------
(* A push moves the window as OutputWindow's Write does, an empty one not   *)
(* at all: the base only ever moves by what has to go.                      *)
LEMMA PushMovesTheWindow ==
  ASSUME IInv, NEW data \in Seq(Byte), Push(data)
  PROVE  [Window!Write]_<<base, End>>
<1> DEFINE o == Overflow(Len(data))
<1>1. /\ Len(buf) \in Nat /\ Len(data) \in Nat /\ base \in Nat /\ Capacity \in Nat \ {0}
      /\ Len(buf) <= Capacity /\ Len(written) \in Nat
      /\ o = LargerOf(0, Len(buf) + Len(data) - Capacity) /\ o \in Nat
  <2>1. Len(buf) \in Nat /\ Len(data) \in Nat /\ Len(written) \in Nat
    BY LenProperties DEF IInv, TypeOK
  <2> QED  BY <2>1, RingAssumption DEF IInv, TypeOK, HoldsTheTail, SmallerOf, Overflow, LargerOf
<1>2. Len(buf') = Len(buf) + Len(data) - o
  BY PushedIsTheTail DEF IInv, Push
<1>3. base' = base + o
  BY DEF Push
<1> HIDE DEF o
<1>4. End' = End + Len(data) /\ End = base + Len(buf) /\ End' = base' + Len(buf')
  BY <1>1, <1>2, <1>3 DEF End
<1>5. CASE Len(data) = 0
  BY <1>1, <1>3, <1>4, <1>5 DEF LargerOf
<1>6. CASE Len(data) > 0
  <2>1. End' \in Nat /\ End' > End
    BY <1>1, <1>4, <1>6
  <2>2. base' = IF End' - Capacity > base THEN End' - Capacity ELSE base
    BY <1>1, <1>2, <1>3, <1>4 DEF LargerOf
  <2> QED  BY <2>1, <2>2 DEF Window!Write
<1> QED  BY <1>1, <1>5, <1>6

(* The ring with its bytes and its reader is, by offset, OutputWindow       *)
(* (IsAWindow; Ring::push).                                                 *)
THEOREM RingImplementsWindow == Spec => IsAWindow
<1>1. Init => Window!Init
  BY EmptySeq DEF Init, Window!Init, End
<1>2. IInv /\ [Next]_vars => [Window!Write]_<<base, End>>
  <2> SUFFICES ASSUME IInv, [Next]_vars PROVE [Window!Write]_<<base, End>>
    OBVIOUS
  <2>1. CASE \E data \in Reads : Len(written) + Len(data) <= MaxWritten /\ Push(data)
    BY <2>1, ReadsAreSequences, PushMovesTheWindow
  <2>2. CASE UNCHANGED <<buf, base>>
    BY <2>2 DEF End
  <2> QED
    BY <2>1, <2>2
    DEF Next, StartPump, Skipped, SendChunk, SecondHalf, StopPump, Drain, Resume, vars
<1> QED
  BY InductiveInvariant, <1>1, <1>2, PTL DEF Spec, IsAWindow, Window!Spec
=============================================================================
