-------------------------- MODULE TranscriptProofs --------------------------
(***************************************************************************)
(* Proofs about what the daemon owes its client, for every number of       *)
(* clients and connections and every cap: it never sleeps with something   *)
(* left to do that nothing would remind it of; and what it tells of the    *)
(* output has no hole, and an end only where the output ends.              *)
(***************************************************************************)
EXTENDS DaemonProofs, WellFoundedInduction

-----------------------------------------------------------------------------
(* What a pass leaves behind *)

(* Handler s has had its turn: in the pass that is under way, or in the     *)
(* last one.                                                                *)
HadItsTurn(s) == pc = Waiting \/ pc \in s + 1 .. 12

(* Each handler leaves nothing of its own to do, and none behind it brings  *)
(* any back: a frame that was not decoded, an end or a repaint that was not *)
(* sent, a client that has all there is and will say no more.               *)
Undecoded(k) == HasFrame(k) \/ (k.eof /\ k.rx # <<>>)
AllDecoded ==
  HadItsTurn(8) /\ reading = "no" /\ client # NoConn /\ Undecoded(conn[client]) => Saturated
AllPumped ==
  HadItsTurn(10) /\ client # NoConn /\ att.sent >= end =>
    /\ TerminalEnd => att.endSent
    /\ att.repaintDue => att.ctrlL /\ Saturated /\ ~closed
AllTold ==
  HadItsTurn(11) /\ client # NoConn /\ att.endSent /\ conn[client].eof =>
    Queued(conn[client]) > 0

(* Input waits for a terminal that is there; and a decode loop runs only in *)
(* the handlers that read.                                                  *)
InputHasATerminal ==
  /\ client # NoConn => pty
  /\ pendIn # <<>> => pty /\ ~closed
ReadersRead == reading # "no" => pc \in 1 .. 9

PassInv == AllDecoded /\ AllPumped /\ AllTold /\ InputHasATerminal /\ ReadersRead

(* Saturated is about a queue that is not empty. *)
LEMMA FullIsNotEmpty ==
  ASSUME Saturated
  PROVE  pendIn # <<>>
<1>1. MaxPendingInput \in Nat \ {0} /\ Len(<<>>) = 0
  BY BoundsAssumption
<1> QED  BY <1>1 DEF Saturated

LEMMA PassInvIsEnough ==
  ASSUME PassInv
  PROVE  SleepsOwingNothing
<1> SUFFICES ASSUME pc = Waiting, client # NoConn
             PROVE  /\ Undecoded(conn[client]) => Saturated /\ pty /\ ~closed
                    /\ att.sent >= end => (TerminalEnd => att.endSent)
                    /\ att.sent >= end /\ att.repaintDue => att.ctrlL /\ Saturated /\ ~closed
                    /\ att.endSent /\ conn[client].eof => Queued(conn[client]) > 0
  BY DEF SleepsOwingNothing, Undecoded
<1>1. reading = "no"
  BY DEF PassInv, ReadersRead, Waiting
<1>2. HadItsTurn(8) /\ HadItsTurn(10) /\ HadItsTurn(11)
  BY DEF HadItsTurn
<1> QED  BY <1>1, <1>2, FullIsNotEmpty
         DEF PassInv, AllDecoded, AllPumped, AllTold, InputHasATerminal

(* A handler that ran has had those before it run or found them idle.       *)
LEMMA TurnsInOrder ==
  ASSUME IInv, PassInv, NEW s \in 9 .. 12, pc \in 1 .. s, reading = "no",
         \A t \in pc .. s - 1 : ~Work(t), client # NoConn
  PROVE  Undecoded(conn[client]) => Saturated
<1>1. CASE pc \in 9 .. 12
  BY <1>1 DEF PassInv, AllDecoded, HadItsTurn
<1>2. CASE pc \notin 9 .. 12
  <2>1. ~Work(8)
    BY <1>2
  <2>2. conn[client].rx \in Seq(ClientFrame)
    BY DEF IInv, TypeOK, ConnectionsOK, Connection, NoConn
  <2>3. Saturated \/ ~(Len(conn[client].rx) > 0)
    BY <2>1 DEF Work, InputBacklog, Buffered
  <2>4. conn[client].rx # <<>> => Len(conn[client].rx) > 0
    BY <2>2
  <2> QED  BY <2>3, <2>4 DEF Undecoded, HasFrame
<1> QED  BY <1>1, <1>2

LEMMA PumpedInOrder ==
  ASSUME IInv, PassInv, NEW s \in 11 .. 12, pc \in 1 .. s, reading = "no",
         \A t \in pc .. s - 1 : ~Work(t), client # NoConn, att.sent >= end
  PROVE  /\ TerminalEnd => att.endSent
         /\ att.repaintDue => att.ctrlL /\ Saturated /\ ~closed
<1>1. CASE pc \in 11 .. 12
  BY <1>1 DEF PassInv, AllPumped, HadItsTurn
<1>2. CASE pc \notin 11 .. 12
  <2>1. ~Work(10)
    BY <1>2
  <2> QED  BY <2>1 DEF Work, PumpHasWork
<1> QED  BY <1>1, <1>2

(* Early in a pass nothing has been promised.                               *)
LEMMA EarlyInAPass ==
  ASSUME pc' \in 1 .. 14, pc' \in 9 .. 12 => pc' = 9 /\ reading' # "no",
         InputHasATerminal', ReadersRead'
  PROVE  PassInv'
<1>1. ~HadItsTurn(10)' /\ ~HadItsTurn(11)' /\ (HadItsTurn(8)' => reading' # "no")
  BY DEF HadItsTurn, Waiting
<1> QED  BY <1>1 DEF PassInv, AllDecoded, AllPumped, AllTold

-----------------------------------------------------------------------------
(* What the world does in between *)

(* Whatever is none of the daemon's doing leaves it and its client's queues *)
(* as they were.                                                            *)
Undisturbed ==
  /\ UNCHANGED <<pc, reading, client, pty, closed, outcome, pendIn, end, att, ready, pending>>
  /\ client # NoConn =>
       /\ conn'[client].rx = conn[client].rx /\ conn'[client].eof = conn[client].eof
       /\ conn'[client].tx = conn[client].tx

LEMMA ClientIsHeld ==
  ASSUME IInv, client # NoConn
  PROVE  client \in Conns /\ conn[client].pos = "held" /\ conn[client] \in Connection
<1>1. client \in Conns /\ conn \in [Conns -> Connection]
  BY DEF IInv, TypeOK, ConnectionsOK
<1> QED  BY <1>1 DEF IInv, NoConnectionLeaks

LEMMA DialLeavesTheClient ==
  ASSUME IInv, client # NoConn, NEW c \in Oldest(Unused), NEW who, NEW hello, NEW up,
         Dial(c, who, hello, up)
  PROVE  conn'[client] = conn[client]
<1>1. c \in Conns /\ conn[c].pos = "free" /\ conn \in [Conns -> Connection]
  BY DEF Oldest, Unused, IInv, TypeOK, ConnectionsOK
<1>2. c # client
  BY <1>1, ClientIsHeld
<1> QED  BY <1>1, <1>2, ClientIsHeld DEF Dial

LEMMA WorldDisturbsNothing ==
  ASSUME IInv, ShellStep \/ ClientStep \/ Tick \/ SigTerm \/ UNCHANGED vars
  PROVE  Undisturbed
<1>1. CASE ShellStep \/ Tick \/ SigTerm \/ UNCHANGED vars
  BY <1>1 DEF ShellStep, ChildWrite, ChildRead, ChildExit, SlaveClose, Tick, IdleDeadline,
         PendingDeadline, OutcomeGrace, AcceptBackoff, TimeOnly, SigTerm, vars, daemonVars,
         loopVars, ringVars, inVars, termVars, attVars, Undisturbed
<1>2. CASE ClientStep
  <2>1. UNCHANGED <<pc, reading, client, pty, closed, outcome, pendIn, end, att, ready, pending>>
    BY <1>2 DEF ClientStep, Probe, Connect, Type, Say, ClientRead, HangsUp, Outside, Unasked,
           daemonVars, loopVars, ringVars, inVars, termVars, attVars
  <2>2. ASSUME client # NoConn
        PROVE  /\ conn'[client].rx = conn[client].rx /\ conn'[client].eof = conn[client].eof
               /\ conn'[client].tx = conn[client].tx
    <3>1. client \in Conns /\ conn[client] \in Connection /\ conn \in [Conns -> Connection]
      BY <2>2, ClientIsHeld DEF IInv, TypeOK, ConnectionsOK
    <3>2. CASE Probe
      BY <2>2, <3>2, DialLeavesTheClient DEF Probe
    <3>3. ASSUME NEW a \in Clients, Connect(a)
          PROVE  conn'[client] = conn[client]
      BY <2>2, <3>3, DialLeavesTheClient DEF Connect
    <3>4. ASSUME NEW a \in Clients, Type(a)
          PROVE  /\ conn'[client].rx = conn[client].rx /\ conn'[client].eof = conn[client].eof
                 /\ conn'[client].tx = conn[client].tx
      <4>1. PICK u : conn' = [conn EXCEPT ![cli[a].conn].up = u]
        BY <3>4 DEF Type
      <4> QED  BY <3>1, <4>1 DEF Connection
    <3>5. ASSUME NEW a \in Clients, Say(a)
          PROVE  /\ conn'[client].rx = conn[client].rx /\ conn'[client].eof = conn[client].eof
                 /\ conn'[client].tx = conn[client].tx
      <4>1. PICK t \in ClientSays, w \in Sizes :
              conn' = [conn EXCEPT ![cli[a].conn] = Spoken(@, t, w)]
        BY <3>5 DEF Say
      <4>2. /\ Spoken(conn[client], t, w).rx = conn[client].rx
            /\ Spoken(conn[client], t, w).eof = conn[client].eof
            /\ Spoken(conn[client], t, w).tx = conn[client].tx
        BY <3>1 DEF Spoken, Connection
      <4>3. CASE cli[a].conn = client
        BY <3>1, <4>1, <4>2, <4>3
      <4>4. CASE cli[a].conn # client
        BY <3>1, <4>1, <4>4
      <4> QED  BY <4>3, <4>4
    <3>6. ASSUME NEW a \in Clients, ClientRead(a)
          PROVE  /\ conn'[client].rx = conn[client].rx /\ conn'[client].eof = conn[client].eof
                 /\ conn'[client].tx = conn[client].tx
      <4>1. conn' = [conn EXCEPT ![cli[a].conn].down = <<>>]
        BY <3>6 DEF ClientRead
      <4> QED  BY <3>1, <4>1 DEF Connection
    <3>7. ASSUME NEW c \in Conns, HangsUp(c)
          PROVE  /\ conn'[client].rx = conn[client].rx /\ conn'[client].eof = conn[client].eof
                 /\ conn'[client].tx = conn[client].tx
      BY <3>1, <3>7 DEF HangsUp, Connection
    <3> QED  BY <1>2, <3>2, <3>3, <3>4, <3>5, <3>6, <3>7 DEF ClientStep
  <2> QED  BY <2>1, <2>2 DEF Undisturbed
<1> QED  BY <1>1, <1>2

LEMMA UndisturbedKeepsThePass ==
  ASSUME PassInv, Undisturbed
  PROVE  PassInv'
<1>1. UNCHANGED <<pc, reading, client, pty, closed, outcome, pendIn, end, att>>
  BY DEF Undisturbed
<1>2. client # NoConn => (Undecoded(conn[client])' <=> Undecoded(conn[client]))
                          /\ Queued(conn[client])' = Queued(conn[client])
                          /\ conn'[client].eof = conn[client].eof
  BY DEF Undisturbed, Undecoded, HasFrame, Queued
<1>3. AllDecoded'
  BY <1>1, <1>2 DEF PassInv, AllDecoded, HadItsTurn, Saturated
<1>4. AllPumped'
  BY <1>1 DEF PassInv, AllPumped, HadItsTurn, Saturated, TerminalEnd
<1>5. AllTold'
  BY <1>1, <1>2 DEF PassInv, AllTold, HadItsTurn
<1>6. InputHasATerminal' /\ ReadersRead'
  BY <1>1 DEF PassInv, InputHasATerminal, ReadersRead
<1> QED  BY <1>3, <1>4, <1>5, <1>6 DEF PassInv

(* A poll that fails leaves no pass behind. *)
LEMMA PollFailsKeepsThePass ==
  ASSUME PassInv, PollFails
  PROVE  PassInv'
<1>1. pc' = 13 /\ UNCHANGED <<reading, client, pty, closed, pendIn>>
  BY DEF PollFails, Stopping, attVars, termVars, inVars
<1>2. reading = "no"
  BY DEF PassInv, ReadersRead, PollFails, Waiting
<1>3. InputHasATerminal' /\ ReadersRead'
  BY <1>1, <1>2 DEF PassInv, InputHasATerminal, ReadersRead
<1> QED  BY <1>1, <1>3, EarlyInAPass

-----------------------------------------------------------------------------
(* What the handlers leave behind *)

LEMMA InputKeepsItsTerminal ==
  ASSUME IInv, PassInv, DaemonStep
  PROVE  InputHasATerminal'
<1>1. InputHasATerminal
  BY DEF PassInv
<1>2. CASE Poll \/ EndPass \/ Shutdown
  BY <1>1, <1>2 DEF Poll, EndPass, Shutdown, InputHasATerminal, attVars, inVars, termVars
<1>3. CASE ReadPty \/ HangUp
  BY <1>1, <1>3 DEF ReadPty, HangUp, Reject, Drop, InputHasATerminal, inVars, termVars
<1>4. CASE ApplyWin \/ CollectOutcome \/ Accept
  BY <1>1, <1>4 DEF ApplyWin, CollectOutcome, Accept, InputHasATerminal, attVars, inVars, termVars
<1>5. CASE WritePty
  <2>1. pty /\ pendIn # <<>> /\ client' = client /\ pty' = pty /\ closed' = closed
    BY <1>5 DEF WritePty, At, Work, attVars, termVars
  <2> QED  BY <1>1, <2>1 DEF InputHasATerminal
<1>6. CASE ReadClient \/ WriteClient
  BY <1>1, <1>6 DEF ReadClient, FillClient, WriteClient, Drop, InputHasATerminal, inVars, termVars
<1>7. CASE DecodeEnds
  BY <1>1, <1>7 DEF DecodeEnds, Reject, Drop, InputHasATerminal, inVars, termVars
<1>8. CASE Decode
  <2>1. client # NoConn /\ pty' = pty /\ closed' = closed /\ client' \in {client, NoConn}
    BY <1>8 DEF Decode, MoreToDecode, HandleFrame, OnInput, Reject, Drop, termVars
  <2>2. pendIn' = pendIn \/ ~closed
    BY <1>8 DEF Decode, HandleFrame, OnInput, inVars
  <2> QED  BY <1>1, <2>1, <2>2 DEF InputHasATerminal
<1>9. CASE ReadPending
  <2>1. UNCHANGED <<pty, closed, pendIn>>
    BY <1>9 DEF ReadPending, inVars, termVars
  <2>2. client' \in {client, NoConn}
    BY <1>9 DEF ReadPending, FillClient, Drop
  <2> QED  BY <1>1, <2>1, <2>2 DEF InputHasATerminal
<1>10. CASE Greet
  <2>1. UNCHANGED <<closed, pendIn>>
    BY <1>10 DEF Greet, inVars
  <2>2. (client' = client /\ pty' = pty) \/ pty' = TRUE \/ (client' = NoConn /\ pty' = pty)
    BY <1>10 DEF Greet, OnHello
  <2> QED  BY <1>1, <2>1, <2>2 DEF InputHasATerminal
<1>11. CASE PumpOutput
  <2>1. UNCHANGED <<client, pty, closed>> /\ client # NoConn
    BY <1>11 DEF PumpOutput, At, Work, termVars
  <2>2. pendIn' = pendIn \/ ~closed
    BY <1>11 DEF PumpOutput
  <2> QED  BY <1>1, <2>1, <2>2 DEF InputHasATerminal
<1> QED  BY <1>2, <1>3, <1>4, <1>5, <1>6, <1>7, <1>8, <1>9, <1>10, <1>11 DEF DaemonStep

(* How far each step takes the pass, and whether it reads on.               *)
LEMMA PassGoesOn ==
  ASSUME IInv, PassInv, DaemonStep
  PROVE  /\ ReadersRead'
         /\ \/ EndPass \/ CollectOutcome \/ PumpOutput \/ WriteClient
            \/ DecodeEnds
            \/ pc' \in 1 .. 14 /\ (pc' \in 9 .. 12 => pc' = 9 /\ reading' # "no")
            \/ ReadClient /\ client' = NoConn /\ pc' \in 1 .. 9 /\ reading' = "no"
            \/ Decode /\ pc' \in 1 .. 9 /\ reading' # "no"
<1>1. ReadersRead /\ pc \in 0 .. 14
  BY DEF PassInv, IInv, TypeOK, LoopOK, Exited
<1>2. CASE Poll \/ Shutdown
  BY <1>1, <1>2 DEF Poll, Shutdown, ReadersRead, Waiting, Stopping, Exited
<1>3. CASE EndPass
  BY <1>1, <1>3 DEF EndPass, ReadersRead
<1>4. CASE ReadPty \/ HangUp \/ ApplyWin \/ WritePty \/ Accept
  BY <1>4 DEF ReadPty, HangUp, ApplyWin, WritePty, Accept, At, ReadersRead
<1>5. CASE CollectOutcome \/ PumpOutput \/ WriteClient
  BY <1>5 DEF CollectOutcome, PumpOutput, WriteClient, At, ReadersRead
<1>6. CASE ReadClient
  <2>1. pc' \in 1 .. 9
    BY <1>1, <1>6 DEF ReadClient, At, ReadersRead
  <2>2. (reading' = "no" /\ client' = NoConn) \/ reading' = "decode"
    BY <1>6 DEF ReadClient, FillClient, Drop
  <2> QED  BY <1>6, <2>1, <2>2 DEF ReadersRead
<1>7. CASE Decode
  BY <1>1, <1>7 DEF Decode, ReadersRead
<1>8. CASE DecodeEnds
  BY <1>1, <1>8 DEF DecodeEnds, ReadersRead
<1>9. CASE ReadPending
  BY <1>9 DEF ReadPending, At, ReadersRead
<1>10. CASE Greet
  <2>1. pc = 5 /\ pc' = pc
    BY <1>10 DEF Greet, IInv, SnapshotHolds
  <2> QED  BY <2>1 DEF ReadersRead
<1> QED  BY <1>2, <1>3, <1>4, <1>5, <1>6, <1>7, <1>8, <1>9, <1>10 DEF DaemonStep

LEMMA DecodeEndsKeepsThePass ==
  ASSUME IInv, PassInv, DecodeEnds
  PROVE  AllDecoded' /\ AllPumped' /\ AllTold'
<1>1. pc' = pc /\ pc \in 1 .. 9
  BY DEF DecodeEnds, PassInv, ReadersRead
<1>2. ~HadItsTurn(10)' /\ ~HadItsTurn(11)'
  BY <1>1 DEF HadItsTurn, Waiting
<1>3. ASSUME client' # NoConn, Undecoded(conn'[client'])
      PROVE  Saturated'
  <2>1. ~Truncated /\ conn' = conn /\ client' = client /\ pendIn' = pendIn
    BY <1>3 DEF DecodeEnds, Reject, Drop, inVars
  <2>2. ~MoreToDecode
    BY DEF DecodeEnds
  <2>3. conn[client].rx \in Seq(ClientFrame)
    BY <1>3, <2>1, ClientIsHeld DEF Connection
  <2>4. conn[client].rx # <<>> => Len(conn[client].rx) > 0
    BY <2>3
  <2>5. Saturated
    BY <1>3, <2>1, <2>2, <2>4 DEF Truncated, MoreToDecode, Undecoded, Buffered
  <2> QED  BY <2>1, <2>5 DEF Saturated
<1> QED  BY <1>2, <1>3 DEF AllDecoded, AllPumped, AllTold

LEMMA EndPassKeepsThePass ==
  ASSUME IInv, PassInv, EndPass
  PROVE  AllDecoded' /\ AllPumped' /\ AllTold'
<1>1. pc \in 1 .. 12 /\ reading = "no" /\ reading' = reading /\ \A s \in pc .. 11 : ~Work(s)
  BY DEF EndPass
<1>2. UNCHANGED <<client, att, pendIn, closed, outcome, end>>
  BY DEF EndPass, inVars, termVars, ringVars
<1>3. client # NoConn => conn'[client] = conn[client]
  <2> SUFFICES ASSUME client # NoConn PROVE conn'[client] = conn[client]
    OBVIOUS
  <2>1. client # pending /\ client \in Conns /\ conn \in [Conns -> Connection]
    BY ClientIsHeld DEF IInv, NoConnectionLeaks, TypeOK, ConnectionsOK
  <2>2. conn' = conn \/ conn' = [conn EXCEPT ![pending] = Closed(@)]
    BY DEF EndPass
  <2> QED  BY <2>1, <2>2
<1>4. AllDecoded'
  <2>1. client # NoConn => (Undecoded(conn[client]) => Saturated)
    BY <1>1, TurnsInOrder
  <2> QED  BY <1>2, <1>3, <2>1 DEF AllDecoded, Saturated
<1>5. AllPumped'
  <2>1. client # NoConn /\ att.sent >= end =>
          /\ TerminalEnd => att.endSent
          /\ att.repaintDue => att.ctrlL /\ Saturated /\ ~closed
    BY <1>1, PumpedInOrder
  <2> QED  BY <1>2, <2>1 DEF AllPumped, TerminalEnd, Saturated
<1>6. AllTold'
  <2>1. client # NoConn /\ att.endSent /\ conn[client].eof => Queued(conn[client]) > 0
    <3>1. CASE pc = 12
      BY <3>1 DEF PassInv, AllTold, HadItsTurn
    <3>2. CASE pc # 12
      <4>1. ~Work(11)
        BY <1>1, <3>2
      <4> QED  BY <4>1 DEF Work
    <3> QED  BY <3>1, <3>2
  <2> QED  BY <1>2, <1>3, <2>1 DEF AllTold
<1> QED  BY <1>4, <1>5, <1>6

LEMMA CollectOutcomeKeepsThePass ==
  ASSUME IInv, PassInv, CollectOutcome
  PROVE  AllDecoded' /\ AllPumped' /\ AllTold'
<1>1. /\ pc \in 1 .. 9 /\ reading = "no" /\ reading' = reading /\ \A t \in pc .. 8 : ~Work(t)
      /\ pc' = 10 /\ UNCHANGED <<client, conn, pendIn>>
  BY DEF CollectOutcome, At, attVars, inVars
<1>2. ~HadItsTurn(10)' /\ ~HadItsTurn(11)'
  BY <1>1 DEF HadItsTurn, Waiting
<1>3. client # NoConn => (Undecoded(conn[client]) => Saturated)
  BY <1>1, TurnsInOrder
<1> QED  BY <1>1, <1>2, <1>3 DEF AllDecoded, AllPumped, AllTold, Saturated

LEMMA WriteClientKeepsThePass ==
  ASSUME IInv, PassInv, WriteClient
  PROVE  AllDecoded' /\ AllPumped' /\ AllTold'
<1>1. /\ pc \in 1 .. 11 /\ reading = "no" /\ reading' = reading /\ \A t \in pc .. 10 : ~Work(t)
      /\ client # NoConn
      /\ UNCHANGED <<pendIn, closed, outcome, end>>
  BY DEF WriteClient, At, Work, inVars, termVars, ringVars
<1>2. CASE client' = NoConn
  BY <1>2 DEF AllDecoded, AllPumped, AllTold
<1>3. CASE client' # NoConn
  <2> DEFINE k == Flushed(conn[client])
  <2>1. /\ conn' = [conn EXCEPT ![client] = k] /\ client' = client /\ att' = att
        /\ ~(att.endSent /\ k.eof /\ Queued(k) = 0)
    BY <1>3 DEF WriteClient, Drop
  <2>2. client \in Conns /\ conn \in [Conns -> Connection] /\ conn[client] \in Connection
    BY <1>1, ClientIsHeld DEF IInv, TypeOK, ConnectionsOK
  <2>3. k.rx = conn[client].rx /\ k.eof = conn[client].eof /\ k \in Connection
    BY <2>2, FlushedIsConnection DEF Flushed, Written, Connection
  <2> HIDE DEF k
  <2>4. conn'[client] = k
    BY <2>1, <2>2
  <2>5. Undecoded(conn[client]) => Saturated
    BY <1>1, TurnsInOrder
  <2>6. att.sent >= end => /\ TerminalEnd => att.endSent
                           /\ att.repaintDue => att.ctrlL /\ Saturated /\ ~closed
    BY <1>1, PumpedInOrder
  <2>7. Queued(k) \in Nat
    BY <2>3 DEF Queued, Connection
  <2>8. AllDecoded'
    BY <1>1, <2>1, <2>3, <2>4, <2>5 DEF AllDecoded, Undecoded, HasFrame, Saturated
  <2>9. AllPumped'
    BY <1>1, <2>1, <2>6 DEF AllPumped, Saturated, TerminalEnd
  <2>10. AllTold'
    BY <2>1, <2>4, <2>7 DEF AllTold
  <2> QED  BY <2>8, <2>9, <2>10
<1> QED  BY <1>2, <1>3

LEMMA PumpKeepsThePass ==
  ASSUME IInv, PassInv, PumpOutput
  PROVE  AllDecoded' /\ AllPumped' /\ AllTold'
<1> DEFINE exits    == TerminalEnd /\ ~att.endSent /\ Streamed.sent >= end
           repaints == (att.repaintDue \/ Streamed.gap) /\ Streamed.sent >= end
<1>1. /\ pc \in 1 .. 10 /\ reading = "no" /\ reading' = reading /\ pc' = 11
      /\ \A t \in pc .. 9 : ~Work(t)
      /\ client # NoConn /\ client' = client
      /\ UNCHANGED <<closed, outcome, end>>
  BY DEF PumpOutput, At, Work, termVars, ringVars
<1>2. /\ pendIn' = IF repaints /\ ~RepaintHeld /\ ~closed /\ att.ctrlL
                   THEN Append(pendIn, CtrlL) ELSE pendIn
      /\ att' = [att EXCEPT !.sent = Streamed.sent, !.endSent = @ \/ exits,
                   !.repaintDue = (@ \/ Streamed.gap) /\ ~(repaints /\ ~RepaintHeld)]
  BY DEF PumpOutput
<1>3. /\ client \in Conns /\ conn \in [Conns -> Connection] /\ att \in Attachment
      /\ pendIn \in Seq(Nat \cup {CtrlL})
  BY <1>1, ClientIsHeld DEF IInv, TypeOK, ConnectionsOK, StreamsOK
<1>4. /\ att'.sent = Streamed.sent /\ att'.endSent = (att.endSent \/ exits)
      /\ att'.repaintDue = ((att.repaintDue \/ Streamed.gap) /\ ~(repaints /\ ~RepaintHeld))
      /\ att'.ctrlL = att.ctrlL
  <2> HIDE DEF exits, repaints
  <2> QED  BY <1>2, <1>3 DEF Attachment
<1>5. conn'[client].rx = conn[client].rx /\ conn'[client].eof = conn[client].eof
  <2>1. PICK t : conn' = [conn EXCEPT ![client].tx = t]
    BY DEF PumpOutput
  <2> QED  BY <1>3, <2>1 DEF Connection
<1>6. Saturated => Saturated'
  <2>1. CtrlL \in Nat \cup {CtrlL}
    OBVIOUS
  <2>2. Len(Append(pendIn, CtrlL)) = Len(pendIn) + 1 /\ Len(pendIn) \in Nat
    BY <1>3, <2>1, AppendProperties, LenProperties
  <2>3. Len(pendIn') >= Len(pendIn)
    BY <1>2, <2>2
  <2>4. MaxPendingInput \in Nat /\ Len(pendIn') \in Nat
    BY <1>2, <2>2, BoundsAssumption
  <2> QED  BY <2>2, <2>3, <2>4 DEF Saturated
<1>7. AllDecoded'
  <2>1. Undecoded(conn[client]) => Saturated
    BY <1>1, TurnsInOrder
  <2>2. Undecoded(conn'[client]) <=> Undecoded(conn[client])
    BY <1>5 DEF Undecoded, HasFrame
  <2> QED  BY <1>1, <1>6, <2>1, <2>2 DEF AllDecoded
<1>8. AllPumped'
  <2> SUFFICES ASSUME att'.sent >= end'
               PROVE  /\ TerminalEnd' => att'.endSent
                      /\ att'.repaintDue => att'.ctrlL /\ Saturated' /\ ~closed'
    BY DEF AllPumped
  <2>1. Streamed.sent >= end
    BY <1>1, <1>4
  <2>2. TerminalEnd' => att'.endSent
    BY <1>1, <1>4, <2>1 DEF TerminalEnd
  <2>3. att'.repaintDue => RepaintHeld
    BY <1>4, <2>1
  <2> QED  BY <1>1, <1>4, <1>6, <2>2, <2>3 DEF RepaintHeld
<1>9. ~HadItsTurn(11)'
  BY <1>1 DEF HadItsTurn, Waiting
<1> QED  BY <1>7, <1>8, <1>9 DEF AllTold

LEMMA HandlersKeepThePass ==
  ASSUME IInv, PassInv, DaemonStep
  PROVE  PassInv'
<1>1. InputHasATerminal' /\ ReadersRead'
  BY InputKeepsItsTerminal, PassGoesOn
<1>2. CASE EndPass \/ CollectOutcome \/ PumpOutput \/ WriteClient \/ DecodeEnds
  BY <1>1, <1>2, EndPassKeepsThePass, CollectOutcomeKeepsThePass, PumpKeepsThePass,
     WriteClientKeepsThePass, DecodeEndsKeepsThePass DEF PassInv
<1>3. CASE pc' \in 1 .. 14 /\ (pc' \in 9 .. 12 => pc' = 9 /\ reading' # "no")
  BY <1>1, <1>3, EarlyInAPass
<1>4. CASE client' = NoConn
  BY <1>1, <1>4 DEF PassInv, AllDecoded, AllPumped, AllTold
<1>5. CASE pc' \in 1 .. 9 /\ reading' # "no"
  BY <1>1, <1>5, EarlyInAPass
<1> QED  BY <1>2, <1>3, <1>4, <1>5, PassGoesOn

LEMMA PassStarts == Init => PassInv
BY DEF Init, PassInv, AllDecoded, AllPumped, AllTold, InputHasATerminal, ReadersRead

(* The daemon never goes to sleep with a frame it could decode, an Exit or  *)
(* a repaint that is due, or a half-closed client that has everything:      *)
(* whatever handler brought that about, one behind it in the same pass saw  *)
(* to it (poll_once, watch_for, poll_timeout).                              *)
THEOREM DaemonSleepsOwingNothing == Spec => []SleepsOwingNothing
<1>1. Init => PassInv
  BY PassStarts
<1>2. IInv /\ PassInv /\ [Next]_vars => PassInv'
  BY HandlersKeepThePass, WorldDisturbsNothing, UndisturbedKeepsThePass,
     PollFailsKeepsThePass DEF Next
<1>3. PassInv => SleepsOwingNothing
  BY PassInvIsEnough
<1> QED  BY <1>1, <1>2, <1>3, InductiveInvariant, PTL DEF Spec

-----------------------------------------------------------------------------
(* What is said of the output *)

(* What the daemon answers that moves nobody's place and promises no end.   *)
Aside(f) == f.type \in {"InputAck", "Pong"} \cup Refusals

(* A client that stood at x when s was all it had still to hear: what comes *)
(* next may be anything but a hole, and in the end it stands at z.          *)
Continues(f, x, ahead) ==
  /\ f.type = "Output" => f.at = x
  /\ f.type = "Gap" => f.at > x
  /\ Positional(f) /\ f.at < x => ahead
Chained(s, x, ahead) ==
  \A i \in 1 .. Len(s) : \A y \in Places(x, s, i - 1) : Continues(s[i], y, ahead)
StandsAt(s, x, z) == \A y \in Places(x, s, Len(s)) : y = z

(* All of it was output, and an Exit is at its end.                         *)
IsWithin(s, n) == \A i \in 1 .. Len(s) : Positional(s[i]) => After(s[i]) <= n
ExitIsLast(s, n) ==
  \A i \in 1 .. Len(s) : s[i].type = "Exit" =>
    /\ s[i].at = n
    /\ \A j \in i + 1 .. Len(s) : ~Positional(s[j])
    /\ \A y \in Places(n, s, i) : y = n
HasExit(s) == \E i \in 1 .. Len(s) : s[i].type = "Exit"
IsTrue(s, n, isOver) == IsWithin(s, n) /\ ExitIsLast(s, n) /\ (HasExit(s) => isOver)

(* A connection nothing was said on: nobody has greeted on it yet.          *)
Ungreeted(c) == conn[c].pos \in {"free", "backlog"} \/ c = pending
Reachable(x) == x <= end \/ x > MaxOut

TerminalIsRead == base <= end /\ (closed /\ pc \in 0 .. 1 => ~ready["pty"])
SaidIsTrue ==
  \A c \in Conns :
    /\ Ungreeted(c) => Words(conn[c]) = <<>>
    /\ IsTrue(Words(conn[c]), end, closed)
ClientIsFollowed ==
  client # NoConn =>
    /\ att.sent <= end /\ StandsAt(Words(conn[client]), att.sent, att.sent)
    /\ HasExit(Words(conn[client])) => att.endSent
    /\ att.endSent => closed /\ att.sent = end
ProgramsStand ==
  /\ \A c \in Conns : Reachable(conn[c].hello.out)
  /\ \A a \in Clients :
       /\ Reachable(cli[a].got)
       /\ cli[a].conn # NoConn =>
            /\ conn[cli[a].conn].own = a /\ conn[cli[a].conn].pos # "free"
            /\ Ungreeted(cli[a].conn) => cli[a].got = conn[cli[a].conn].hello.out
ProgramsFollow ==
  \A a \in Clients, c \in Conns : Using(a, c) =>
    /\ Chained(Words(conn[c]), cli[a].got, conn[c].hello.out > MaxOut)
    /\ c = client => StandsAt(Words(conn[c]), cli[a].got, att.sent)

Transcript == TerminalIsRead /\ SaidIsTrue /\ ClientIsFollowed /\ ProgramsStand /\ ProgramsFollow

-----------------------------------------------------------------------------
(* Sequences of frames *)

LEMMA PlaceIs ==
  ASSUME NEW x, NEW s, NEW i \in Nat, NEW y
  PROVE  y \in Places(x, s, i) <=>
           \/ y = x /\ \A j \in 1 .. i : ~Positional(s[j])
           \/ \E j \in 1 .. i : /\ Positional(s[j]) /\ y = After(s[j])
                                /\ \A k \in j + 1 .. i : ~Positional(s[k])
<1> DEFINE P == {j \in 1 .. i : Positional(s[j])}
<1>1. Places(x, s, i) = IF P = {} THEN {x} ELSE {After(s[j]) : j \in LastOf(P)}
  BY DEF Places
<1>2. \A j \in 1 .. i : j \in LastOf(P) <=> Positional(s[j]) /\ \A k \in j + 1 .. i : ~Positional(s[k])
  BY DEF LastOf
<1>3. P = {} <=> \A j \in 1 .. i : ~Positional(s[j])
  OBVIOUS
<1>4. LastOf(P) \subseteq 1 .. i /\ (LastOf(P) # {} => P # {})
  BY DEF LastOf
<1> HIDE DEF P
<1> QED  BY <1>1, <1>2, <1>3, <1>4

(* A bounded set of indices has a last one, so there is always a place.     *)
LEMMA LastIsThere ==
  ASSUME NEW n \in Nat, NEW P \in SUBSET (1 .. n), P # {}
  PROVE  LastOf(P) # {}
<1> DEFINE Less == {ss \in Nat \X Nat : ss[1] < ss[2]}
           S == {n - j : j \in P}
<1>1. IsWellFoundedOn(Less, Nat)
  BY NatLessThanWellFounded DEF OpToRel
<1>2. S \in SUBSET Nat /\ S # {}
  <2>1. \A j \in P : n - j \in Nat
    OBVIOUS
  <2> QED  BY <2>1
<1> HIDE DEF Less, S
<1>3. PICK x \in S : \A y \in S : <<y, x>> \notin Less
  BY <1>1, <1>2, WFMin
<1>4. PICK i \in P : x = n - i
  BY <1>3 DEF S
<1>5. ASSUME NEW j \in P PROVE j <= i
  <2>1. n - j \in S /\ i \in 1 .. n /\ j \in 1 .. n
    BY DEF S
  <2>2. ~(n - j < x) /\ x \in Nat /\ n - j \in Nat
    BY <1>2, <1>3, <2>1 DEF Less
  <2> QED  BY <1>4, <2>1, <2>2
<1> QED  BY <1>5 DEF LastOf

LEMMA PlaceIsThere ==
  ASSUME NEW x, NEW s, NEW i \in Nat
  PROVE  Places(x, s, i) # {}
<1> DEFINE P == {j \in 1 .. i : Positional(s[j])}
<1>1. P # {} => LastOf(P) # {}
  BY LastIsThere
<1> QED  BY <1>1 DEF Places

(* t says the first n frames of s, and then nothing of any weight.          *)
Echo(s, t, n) ==
  /\ n \in 0 .. Len(s) /\ n <= Len(t)
  /\ \A i \in 1 .. n : t[i] = s[i]
  /\ \A i \in n + 1 .. Len(t) : Aside(t[i])

LEMMA AsidesAreNothing ==
  ASSUME NEW f, Aside(f)
  PROVE  ~Positional(f) /\ f.type # "Exit" /\ \A x, ahead : Continues(f, x, ahead)
BY DEF Aside, Positional, Continues, Refusals

LEMMA EchoPlaces ==
  ASSUME NEW s \in Seq(ServerFrame), NEW t \in Seq(ServerFrame), NEW n, Echo(s, t, n),
         NEW x, NEW i \in 0 .. Len(t), NEW y \in Places(x, t, i)
  PROVE  /\ i <= n => y \in Places(x, s, i)
         /\ n <= i => y \in Places(x, s, n)
<1>1. Len(s) \in Nat /\ Len(t) \in Nat /\ n \in Nat /\ i \in Nat
  BY LenProperties DEF Echo
<1>2. \/ y = x /\ \A j \in 1 .. i : ~Positional(t[j])
      \/ \E j \in 1 .. i : /\ Positional(t[j]) /\ y = After(t[j])
                           /\ \A k \in j + 1 .. i : ~Positional(t[k])
  BY <1>1, PlaceIs
<1>3. \A j \in 1 .. n : t[j] = s[j]
  BY DEF Echo
<1>4. \A j \in n + 1 .. Len(t) : ~Positional(t[j])
  BY AsidesAreNothing DEF Echo
<1>5. CASE i <= n
  <2>1. \/ y = x /\ \A j \in 1 .. i : ~Positional(s[j])
        \/ \E j \in 1 .. i : /\ Positional(s[j]) /\ y = After(s[j])
                             /\ \A k \in j + 1 .. i : ~Positional(s[k])
    BY <1>1, <1>2, <1>3, <1>5
  <2> QED  BY <1>1, <1>5, <2>1, PlaceIs
<1>6. CASE n <= i
  <2>1. \/ y = x /\ \A j \in 1 .. n : ~Positional(s[j])
        \/ \E j \in 1 .. n : /\ Positional(s[j]) /\ y = After(s[j])
                             /\ \A k \in j + 1 .. n : ~Positional(s[k])
    <3>1. CASE y = x /\ \A j \in 1 .. i : ~Positional(t[j])
      BY <1>1, <1>3, <1>6, <3>1
    <3>2. ASSUME NEW j \in 1 .. i, Positional(t[j]), y = After(t[j]),
                 \A k \in j + 1 .. i : ~Positional(t[k])
          PROVE  /\ j \in 1 .. n /\ Positional(s[j]) /\ y = After(s[j])
                 /\ \A k \in j + 1 .. n : ~Positional(s[k])
      <4>1. j \in 1 .. n
        BY <1>1, <1>4, <3>2
      <4> QED  BY SMTT(30), <1>1, <1>3, <1>6, <3>2, <4>1
    <3> QED  BY <1>2, <3>1, <3>2
  <2>2. y \in Places(x, s, n)
    BY <1>1, <2>1, PlaceIs
  <2>3. i <= n => i = n
    BY <1>1, <1>6
  <2> QED  BY <2>2, <2>3
<1> QED  BY <1>1, <1>5, <1>6

LEMMA EchoSays ==
  ASSUME NEW s \in Seq(ServerFrame), NEW t \in Seq(ServerFrame), NEW n, Echo(s, t, n), NEW e
  PROVE  /\ \A x, ahead : Chained(s, x, ahead) => Chained(t, x, ahead)
         /\ \A x, z : n = Len(s) /\ StandsAt(s, x, z) => StandsAt(t, x, z)
         /\ IsWithin(s, e) => IsWithin(t, e)
         /\ ExitIsLast(s, e) => ExitIsLast(t, e)
         /\ HasExit(t) => HasExit(s)
<1>1. Len(s) \in Nat /\ Len(t) \in Nat /\ n \in 0 .. Len(s) /\ n <= Len(t)
  BY LenProperties DEF Echo
<1>2. /\ \A i \in 1 .. n : t[i] = s[i]
      /\ \A i \in 1 .. Len(t) : i \in 1 .. n \/ Aside(t[i])
      /\ \A i \in 1 .. n : i \in 1 .. Len(s) /\ i - 1 \in 0 .. Len(t) /\ i - 1 <= n
                             /\ i \in 0 .. Len(t) /\ i <= n
  BY <1>1 DEF Echo
<1>3. ASSUME NEW x, NEW ahead, Chained(s, x, ahead)
      PROVE  Chained(t, x, ahead)
  <2> SUFFICES ASSUME NEW i \in 1 .. Len(t), NEW y \in Places(x, t, i - 1)
               PROVE  Continues(t[i], y, ahead)
    BY DEF Chained
  <2>1. CASE i \in 1 .. n
    <3>1. y \in Places(x, s, i - 1)
      BY <1>2, <2>1, EchoPlaces
    <3> QED  BY <1>2, <1>3, <2>1, <3>1 DEF Chained
  <2> QED  BY <1>2, <2>1, AsidesAreNothing
<1>4. ASSUME NEW x, NEW z, n = Len(s), StandsAt(s, x, z)
      PROVE  StandsAt(t, x, z)
  <2> SUFFICES ASSUME NEW y \in Places(x, t, Len(t))
               PROVE  y = z
    BY DEF StandsAt
  <2>1. Len(t) \in 0 .. Len(t)
    BY <1>1
  <2>2. y \in Places(x, s, n)
    BY <1>1, <2>1, EchoPlaces
  <2> QED  BY <1>4, <2>2 DEF StandsAt
<1>5. IsWithin(s, e) => IsWithin(t, e)
  BY <1>2, AsidesAreNothing DEF IsWithin
<1>6. ASSUME ExitIsLast(s, e)
      PROVE  ExitIsLast(t, e)
  <2> SUFFICES ASSUME NEW i \in 1 .. Len(t), t[i].type = "Exit"
               PROVE  /\ t[i].at = e
                      /\ \A j \in i + 1 .. Len(t) : ~Positional(t[j])
                      /\ \A y \in Places(e, t, i) : y = e
    BY DEF ExitIsLast
  <2>1. i \in 1 .. n /\ s[i] = t[i] /\ i \in 1 .. Len(s)
    BY <1>2, AsidesAreNothing
  <2>2. /\ s[i].at = e /\ \A j \in i + 1 .. Len(s) : ~Positional(s[j])
        /\ \A y \in Places(e, s, i) : y = e
    BY <1>6, <2>1 DEF ExitIsLast
  <2>3. ASSUME NEW j \in i + 1 .. Len(t)
        PROVE  ~Positional(t[j])
    <3>1. j \in 1 .. Len(t) /\ (j \in 1 .. n => j \in i + 1 .. Len(s))
      BY <1>1, <2>1
    <3> QED  BY <1>2, <2>2, <3>1, AsidesAreNothing
  <2>4. ASSUME NEW y \in Places(e, t, i)
        PROVE  y = e
    BY <1>2, <2>1, <2>2, EchoPlaces
  <2> QED  BY <2>1, <2>2, <2>3, <2>4
<1>7. HasExit(t) => HasExit(s)
  BY <1>2, AsidesAreNothing DEF HasExit
<1> QED  BY <1>3, <1>4, <1>5, <1>6, <1>7

LEMMA EchoOfAnEcho ==
  ASSUME NEW s \in Seq(ServerFrame), NEW t \in Seq(ServerFrame), NEW u \in Seq(ServerFrame),
         NEW n, NEW m, Echo(s, t, n), Echo(t, u, m)
  PROVE  IF n < m THEN Echo(s, u, n) ELSE Echo(s, u, m)
<1>1. /\ Len(s) \in Nat /\ Len(t) \in Nat /\ Len(u) \in Nat
      /\ n \in 0 .. Len(s) /\ n <= Len(t) /\ m \in 0 .. Len(t) /\ m <= Len(u)
  BY LenProperties DEF Echo
<1>2. /\ \A i \in 1 .. n : t[i] = s[i]
      /\ \A i \in n + 1 .. Len(t) : Aside(t[i])
      /\ \A i \in 1 .. m : u[i] = t[i]
      /\ \A i \in m + 1 .. Len(u) : Aside(u[i])
  BY DEF Echo
<1>3. CASE n < m
  <2>1. ASSUME NEW i \in n + 1 .. Len(u)
        PROVE  Aside(u[i])
    <3>1. i \in m + 1 .. Len(u) \/ (i \in 1 .. m /\ i \in n + 1 .. Len(t))
      BY <1>1, <1>3
    <3> QED  BY <1>2, <3>1
  <2>2. n <= Len(u) /\ \A i \in 1 .. n : u[i] = s[i]
    BY <1>1, <1>2, <1>3
  <2> QED  BY <1>1, <1>3, <2>1, <2>2 DEF Echo
<1>4. CASE ~(n < m)
  <2>1. m \in 0 .. Len(s) /\ \A i \in 1 .. m : u[i] = s[i]
    BY <1>1, <1>2, <1>4
  <2> QED  BY <1>1, <1>2, <1>4, <2>1 DEF Echo
<1> QED  BY <1>3, <1>4

-----------------------------------------------------------------------------
(* What the calls of Conn tell *)

(* A connection goes from `k` to `l`: on one that stays, what was being     *)
(* said still is, and what is added is an aside; on one that is closed, it  *)
(* may be cut short first.                                                  *)
Tells(k, l) ==
  /\ l.own = k.own /\ l.hello = k.hello /\ (l.peer # "gone" => k.peer # "gone")
  /\ l.pos \in {"free", "backlog"} => k.pos = l.pos
  /\ k.pos = "closed" => l.pos = "closed"
  /\ \E n \in Nat : /\ Echo(Words(k), Words(l), n)
                    /\ l.pos # "closed" => n = Len(Words(k))

LEMMA WordsAreFrames ==
  ASSUME NEW k \in Connection
  PROVE  /\ k.down \in Seq(ServerFrame) /\ k.tx \in Seq(ServerFrame)
         /\ Words(k) \in Seq(ServerFrame) /\ Len(Words(k)) \in Nat
<1>1. k.down \in Seq(ServerFrame) /\ k.tx \in Seq(ServerFrame)
  BY DEF Connection
<1>2. Words(k) \in Seq(ServerFrame)
  BY <1>1, ConcatProperties DEF Words
<1> QED  BY <1>1, <1>2, LenProperties

LEMMA TellsOn ==
  ASSUME NEW k \in Connection, NEW l \in Connection, NEW j \in Connection,
         Tells(k, l), Tells(l, j)
  PROVE  Tells(k, j)
<1>1. PICK n \in Nat : Echo(Words(k), Words(l), n) /\ (l.pos # "closed" => n = Len(Words(k)))
  BY DEF Tells
<1>2. PICK m \in Nat : Echo(Words(l), Words(j), m) /\ (j.pos # "closed" => m = Len(Words(l)))
  BY DEF Tells
<1>3. n <= Len(Words(l)) /\ Len(Words(l)) \in Nat
  BY <1>1, WordsAreFrames DEF Echo
<1>4. IF n < m THEN Echo(Words(k), Words(j), n) ELSE Echo(Words(k), Words(j), m)
  BY <1>1, <1>2, WordsAreFrames, EchoOfAnEcho
<1>5. j.pos # "closed" => l.pos # "closed"
  BY DEF Tells
<1>6. \E p \in Nat : Echo(Words(k), Words(j), p) /\ (j.pos # "closed" => p = Len(Words(k)))
  <2>1. CASE n < m
    BY <1>1, <1>4, <1>5, <2>1
  <2>2. CASE ~ (n < m)
    <3>1. j.pos # "closed" => m = n
      BY <1>2, <1>3, <2>2
    <3> QED  BY <1>1, <1>4, <1>5, <2>2, <3>1
  <2> QED  BY <2>1, <2>2
<1>7. /\ j.own = k.own /\ j.hello = k.hello /\ (j.peer # "gone" => k.peer # "gone")
      /\ j.pos \in {"free", "backlog"} => k.pos = j.pos
      /\ k.pos = "closed" => j.pos = "closed"
  BY DEF Tells
<1> QED  BY <1>6, <1>7 DEF Tells

LEMMA SaysTheSame ==
  ASSUME NEW k \in Connection, NEW l, l.own = k.own, l.hello = k.hello,
         l.peer # "gone" => k.peer # "gone",
         l.pos = k.pos \/ (k.pos = "backlog" /\ l.pos = "held"), Words(l) = Words(k)
  PROVE  Tells(k, l)
<1>1. Echo(Words(k), Words(l), Len(Words(k))) /\ Len(Words(k)) \in Nat
  BY WordsAreFrames DEF Echo
<1> QED  BY <1>1 DEF Tells

LEMMA NothingTells ==
  ASSUME NEW k \in Connection
  PROVE  Tells(k, k)
BY SaysTheSame

LEMMA ServerFramesAssociate ==
  ASSUME NEW s \in Seq(ServerFrame), NEW t \in Seq(ServerFrame), NEW u \in Seq(ServerFrame)
  PROVE  (s \o t) \o u = s \o (t \o u)
OBVIOUS

LEMMA AppendsToAll ==
  ASSUME NEW s \in Seq(ServerFrame), NEW t \in Seq(ServerFrame), NEW f \in ServerFrame
  PROVE  s \o Append(t, f) = Append(s \o t, f)
OBVIOUS

LEMMA BeginningEchoes ==
  ASSUME NEW s \in Seq(ServerFrame), NEW t \in Seq(ServerFrame)
  PROVE  Echo(s \o t, s, Len(s))
<1>1. /\ Len(s \o t) = Len(s) + Len(t)
      /\ \A i \in 1 .. Len(s) + Len(t) :
           (s \o t)[i] = IF i <= Len(s) THEN s[i] ELSE t[i - Len(s)]
  BY ConcatProperties
<1> DEFINE u == s \o t
<1>2. /\ Len(u) = Len(s) + Len(t)
      /\ \A i \in 1 .. Len(s) + Len(t) : u[i] = IF i <= Len(s) THEN s[i] ELSE t[i - Len(s)]
  BY <1>1
<1>3. Len(s) \in Nat /\ Len(t) \in Nat
  BY LenProperties
<1> HIDE DEF u
<1>4. \A i \in 1 .. Len(s) : s[i] = u[i]
  BY <1>2, <1>3
<1>5. Len(s) \in 0 .. Len(u) /\ Len(s) <= Len(s)
  BY <1>2, <1>3
<1>6. \A i \in Len(s) + 1 .. Len(s) : Aside(s[i])
  BY <1>3
<1>7. Echo(u, s, Len(s))
  BY <1>4, <1>5, <1>6 DEF Echo
<1> QED  BY <1>7 DEF u

LEMMA SentTells ==
  ASSUME NEW k \in Connection, NEW f \in ServerFrame, Aside(f)
  PROVE  Tells(k, Sent(k, f))
<1> DEFINE l == Sent(k, f)
           s == Words(k)
<1>1. /\ l.own = k.own /\ l.hello = k.hello /\ l.peer = k.peer /\ l.pos = k.pos
      /\ l.down = k.down /\ l.tx = Append(k.tx, f)
  BY DEF Sent, Connection
<1>2. Words(l) = Append(s, f)
  BY <1>1, WordsAreFrames, AppendsToAll DEF Words
<1>3. s \in Seq(ServerFrame) /\ Len(s) \in Nat
  BY WordsAreFrames
<1> HIDE DEF l, s
<1>4. /\ Len(Append(s, f)) = Len(s) + 1
      /\ \A i \in 1 .. Len(s) : Append(s, f)[i] = s[i]
      /\ Append(s, f)[Len(s) + 1] = f
  BY <1>3
<1>5. \A i \in Len(s) + 1 .. Len(s) + 1 : i = Len(s) + 1
  BY <1>3
<1>6. Echo(s, Append(s, f), Len(s))
  BY <1>3, <1>4, <1>5 DEF Echo
<1> QED  BY <1>1, <1>2, <1>3, <1>6 DEF Tells, l, s

LEMMA WrittenTells ==
  ASSUME NEW k \in Connection, NEW w \in 0 .. Queued(k)
  PROVE  Tells(k, Written(k, w)) /\ Words(Written(k, w)) = Words(k)
<1> DEFINE l == Written(k, w)
           gone == SubSeq(k.tx, 1, w)
<1>1. /\ l.own = k.own /\ l.hello = k.hello /\ l.peer = k.peer /\ l.pos = k.pos
      /\ l.down = k.down \o gone /\ l.tx = DropFirst(k.tx, w)
  BY DEF Written, Connection
<1>2. /\ k.down \in Seq(ServerFrame) /\ k.tx \in Seq(ServerFrame) /\ w \in 0 .. Len(k.tx)
      /\ Len(k.tx) \in Nat /\ w \in Nat
  BY WordsAreFrames, LenProperties DEF Queued
<1>3. gone \in Seq(ServerFrame) /\ DropFirst(k.tx, w) \in Seq(ServerFrame)
  BY <1>2, TakeFirstIsSeq, DropFirstIsSeq
<1>4. gone \o DropFirst(k.tx, w) = k.tx
  BY <1>2, TakenAndLeft
<1> HIDE DEF l, gone
<1>a. (k.down \o gone) \o DropFirst(k.tx, w) = k.down \o (gone \o DropFirst(k.tx, w))
  BY <1>2, <1>3, ServerFramesAssociate
<1>5. Words(l) = k.down \o (gone \o DropFirst(k.tx, w))
  BY <1>1, <1>a, Zenon DEF Words
<1>6. Words(l) = Words(k)
  BY <1>4, <1>5 DEF Words
<1> QED  BY <1>1, <1>6, SaysTheSame DEF l

LEMMA FlushedTells ==
  ASSUME NEW k \in Connection
  PROVE  Tells(k, Flushed(k)) /\ Words(Flushed(k)) = Words(k)
BY RoomIsNat, WrittenTells DEF Flushed

LEMMA ClosedTells ==
  ASSUME NEW k \in Connection
  PROVE  Tells(k, Closed(k))
<1> DEFINE l == Closed(k)
<1>1. /\ l.own = k.own /\ l.hello = k.hello /\ l.peer = k.peer /\ l.pos = "closed"
      /\ l.down = k.down /\ l.tx = <<>>
  BY DEF Closed, Connection
<1> HIDE DEF l
<1>2. k.down \in Seq(ServerFrame) /\ k.tx \in Seq(ServerFrame)
      /\ Len(k.down) \in Nat /\ Len(k.tx) \in Nat
  BY WordsAreFrames, LenProperties
<1>3. Words(l) = k.down
  BY <1>1, <1>2, ConcatEmptySeq DEF Words
<1>4. Echo(k.down \o k.tx, k.down, Len(k.down))
  BY <1>2, BeginningEchoes
<1>5. Echo(Words(k), Words(l), Len(k.down))
  BY <1>3, <1>4, Zenon DEF Words
<1> QED  BY <1>1, <1>2, <1>5 DEF Tells, l

LEMMA FinalFlushTells ==
  ASSUME NEW k \in Connection, NEW f \in FinalFlushes(k)
  PROVE  Tells(k, f)
<1>1. CASE f = Closed(k)
  BY <1>1, ClosedTells
<1>2. CASE f # Closed(k)
  <2>1. PICK w \in SmallerOf(Room(k), Queued(k)) .. Queued(k) : f = Closed(Written(k, w))
    BY <1>2 DEF FinalFlushes
  <2>2. w \in 0 .. Queued(k)
    BY <2>1, RoomIsNat
  <2>3. Tells(k, Written(k, w)) /\ Written(k, w) \in Connection
    BY <2>2, WrittenTells, WrittenIsConnection
  <2>4. Tells(Written(k, w), f) /\ f \in Connection
    BY <2>1, <2>3, ClosedTells, ClosedIsConnection
  <2> QED  BY <2>3, <2>4, TellsOn
<1> QED  BY <1>1, <1>2

LEMMA FilledTells ==
  ASSUME NEW k \in Connection
  PROVE  Tells(k, Filled(k)) /\ Words(Filled(k)) = Words(k)
<1>1. CASE Buffered(k) >= MaxPendingRead
  BY <1>1, NothingTells DEF Filled
<1>2. CASE ~ (Buffered(k) >= MaxPendingRead)
  <2> DEFINE n == SmallerOf(SmallerOf(FillMax, MaxPendingRead - Buffered(k)), Len(k.up))
             l == Filled(k)
  <2>1. l = [k EXCEPT !.rx = @ \o SubSeq(k.up, 1, n), !.up = DropFirst(@, n),
                      !.eof = k.up = <<>> /\ k.peer # "open"]
    BY <1>2 DEF Filled
  <2> HIDE DEF n, l
  <2>2. /\ l.own = k.own /\ l.hello = k.hello /\ l.peer = k.peer /\ l.pos = k.pos
        /\ l.down = k.down /\ l.tx = k.tx
    BY <2>1 DEF Connection
  <2>3. Words(l) = Words(k)
    BY <2>2 DEF Words
  <2> QED  BY <2>2, <2>3, SaysTheSame DEF l
<1> QED  BY <1>1, <1>2

-----------------------------------------------------------------------------
(* What a step tells on every connection *)

(* On a connection that is not the client's, and stays, nothing is said.    *)
TellsTo(cn) ==
  /\ cn \in [Conns -> Connection]
  /\ \A c \in Conns :
       /\ Tells(conn[c], cn[c])
       /\ c # client /\ cn[c].pos # "closed" => Words(cn[c]) = Words(conn[c])

LEMMA StayingTells ==
  ASSUME TypeOK
  PROVE  TellsTo(conn) /\ client \in Conns \cup {NoConn} /\ pending \in Conns \cup {NoConn}
<1>1. /\ conn \in [Conns -> Connection]
      /\ client \in Conns \cup {NoConn} /\ pending \in Conns \cup {NoConn}
  BY DEF TypeOK, ConnectionsOK
<1> QED  BY <1>1, NothingTells DEF TellsTo

LEMMA ReplacedTells ==
  ASSUME TypeOK, NEW cn, TellsTo(cn), NEW c \in Conns \cup {NoConn}, NEW k,
         c \in Conns => /\ k \in Connection /\ Tells(cn[c], k)
                        /\ c = client \/ k.pos = "closed" \/ Words(k) = Words(cn[c])
  PROVE  TellsTo([cn EXCEPT ![c] = k])
<1>1. conn \in [Conns -> Connection] /\ cn \in [Conns -> Connection]
  BY DEF TypeOK, ConnectionsOK, TellsTo
<1>2. CASE c \in Conns
  <2>1. [cn EXCEPT ![c] = k] \in [Conns -> Connection]
    BY <1>1, <1>2
  <2>2. ASSUME NEW d \in Conns, d # c
        PROVE  [cn EXCEPT ![c] = k][d] = cn[d]
    BY <1>1, <2>2
  <2>3. [cn EXCEPT ![c] = k][c] = k
    BY <1>1, <1>2
  <2>4. Tells(conn[c], cn[c]) /\ Tells(cn[c], k) /\ k \in Connection
    BY <1>2 DEF TellsTo
  <2>5. Tells(conn[c], k)
    BY <1>1, <1>2, <2>4, TellsOn
  <2>6. c # client /\ k.pos # "closed" => Words(k) = Words(conn[c])
    <3>1. k.pos # "closed" => cn[c].pos # "closed"
      BY <2>4 DEF Tells
    <3> QED  BY <1>2, <3>1 DEF TellsTo
  <2> QED  BY <2>1, <2>2, <2>3, <2>5, <2>6 DEF TellsTo
<1>3. CASE c \notin Conns
  <2>1. [cn EXCEPT ![c] = k] = cn
    BY <1>1, <1>3
  <2> QED  BY <2>1
<1> QED  BY <1>2, <1>3

LEMMA TellTells ==
  ASSUME TypeOK, NEW cn, TellsTo(cn), NEW f \in ServerFrame, Aside(f)
  PROVE  TellsTo(Tell(cn, f))
<1> DEFINE k == Sent(cn[client], f)
<1>1. Tell(cn, f) = [cn EXCEPT ![client] = k] /\ client \in Conns \cup {NoConn}
  BY DEF Tell, TypeOK, ConnectionsOK
<1>2. client \in Conns => k \in Connection /\ Tells(cn[client], k)
  <2>1. client \in Conns => cn[client] \in Connection
    BY DEF TellsTo
  <2> QED  BY <2>1, SentIsConnection, SentTells
<1> HIDE DEF k
<1>3. TellsTo([cn EXCEPT ![client] = k])
  BY <1>1, <1>2, ReplacedTells
<1> QED  BY <1>1, <1>3, Zenon

LEMMA DropTells ==
  ASSUME TypeOK, NEW cn, TellsTo(cn), Drop(cn)
  PROVE  TellsTo(conn')
<1> DEFINE k == Closed(Flushed(cn[client]))
<1>1. conn' = [cn EXCEPT ![client] = k] /\ client \in Conns \cup {NoConn}
  BY DEF Drop, TypeOK, ConnectionsOK
<1>2. client \in Conns => k \in Connection /\ Tells(cn[client], k)
  <2> SUFFICES ASSUME client \in Conns
               PROVE  k \in Connection /\ Tells(cn[client], k)
    OBVIOUS
  <2>1. cn[client] \in Connection
    BY DEF TellsTo
  <2>2. Flushed(cn[client]) \in Connection /\ k \in Connection
    BY <2>1, FlushedIsConnection, ClosedIsConnection
  <2>3. Tells(cn[client], Flushed(cn[client])) /\ Tells(Flushed(cn[client]), k)
    BY <2>1, <2>2, FlushedTells, ClosedTells
  <2> HIDE DEF k
  <2> QED  BY <2>1, <2>2, <2>3, TellsOn
<1> HIDE DEF k
<1>3. TellsTo([cn EXCEPT ![client] = k])
  BY <1>1, <1>2, ReplacedTells
<1> QED  BY <1>1, <1>3, Zenon

LEMMA RefusalsAreAsides ==
  ASSUME NEW code \in Refusals
  PROVE  SF(code, 0, 0) \in ServerFrame /\ Aside(SF(code, 0, 0))
<1>1. SF(code, 0, 0) \in ServerFrame
  BY ServerFrames DEF ServerFrameTypes
<1> QED  BY <1>1 DEF SF, Aside

LEMMA RejectTells ==
  ASSUME TypeOK, NEW cn, TellsTo(cn), NEW code \in Refusals, Reject(cn, code)
  PROVE  TellsTo(conn')
<1>1. TellsTo(Tell(cn, SF(code, 0, 0)))
  BY RefusalsAreAsides, TellTells
<1> QED  BY <1>1, DropTells DEF Reject

LEMMA DismissTells ==
  ASSUME TypeOK, NEW cn, TellsTo(cn), pending \in Conns,
         NEW k \in Connection, Tells(cn[pending], k), k.pos = "closed", Dismiss(cn, k)
  PROVE  TellsTo(conn')
<1>1. conn' = [cn EXCEPT ![pending] = k]
  BY DEF Dismiss
<1> QED  BY <1>1, ReplacedTells

LEMMA RejectPendingTells ==
  ASSUME TypeOK, NEW cn, TellsTo(cn), pending \in Conns,
         NEW code \in Refusals, RejectPending(cn, code)
  PROVE  TellsTo(conn')
<1> DEFINE s == Sent(cn[pending], SF(code, 0, 0))
<1>1. PICK k \in FinalFlushes(s) : Dismiss(cn, k)
  BY DEF RejectPending
<1>2. cn[pending] \in Connection
  BY DEF TellsTo
<1>3. s \in Connection /\ Tells(cn[pending], s)
  BY <1>2, RefusalsAreAsides, SentIsConnection, SentTells
<1> HIDE DEF s
<1>4. k \in Connection /\ k.pos = "closed" /\ Tells(s, k)
  BY <1>1, <1>3, FinalFlushesClose, FinalFlushTells
<1>5. Tells(cn[pending], k)
  BY <1>2, <1>3, <1>4, TellsOn
<1> QED  BY <1>1, <1>4, <1>5, DismissTells

LEMMA FillClientTells ==
  ASSUME TypeOK, NEW cn, TellsTo(cn), NEW next, FillClient(cn, next)
  PROVE  /\ TellsTo(conn')
         /\ client' = NoConn \/ UNCHANGED <<client, att>>
<1>1. CASE Drop(cn)
  BY <1>1, DropTells DEF Drop
<1>2. CASE /\ conn' = [cn EXCEPT ![client] = IF @.eof THEN @ ELSE Filled(@)]
           /\ UNCHANGED <<client, att>>
  <2> DEFINE k == IF cn[client].eof THEN cn[client] ELSE Filled(cn[client])
  <2>1. conn' = [cn EXCEPT ![client] = k] /\ client \in Conns \cup {NoConn}
    BY <1>2 DEF TypeOK, ConnectionsOK
  <2>2. client \in Conns => k \in Connection /\ Tells(cn[client], k)
    <3>1. client \in Conns => cn[client] \in Connection
      BY DEF TellsTo
    <3> QED  BY <3>1, FilledIsConnection, FilledTells, NothingTells
  <2> HIDE DEF k
  <2>3. TellsTo([cn EXCEPT ![client] = k])
    BY <2>1, <2>2, ReplacedTells
  <2> QED  BY <1>2, <2>1, <2>3, Zenon
<1> QED  BY <1>1, <1>2 DEF FillClient

(* Frames leave the decoder, or the socket, and nothing is said. *)
LEMMA TakenTells ==
  ASSUME TypeOK, NEW cn, TellsTo(cn), NEW c \in Conns, cn[c].rx # <<>>
  PROVE  TellsTo([cn EXCEPT ![c].rx = Tail(@)])
<1> DEFINE l == [cn[c] EXCEPT !.rx = Tail(@)]
           t == [cn EXCEPT ![c].rx = Tail(@)]
<1>1. cn \in [Conns -> Connection] /\ cn[c] \in Connection
  BY DEF TellsTo
<1>2. t \in [Conns -> Connection] /\ t = [cn EXCEPT ![c] = l]
  BY <1>1, TakenIsConnection
<1>3. l \in Connection
  <2>1. l = t[c]
    BY <1>1, <1>2
  <2> QED  BY <1>2, <2>1
<1>4. /\ l.own = cn[c].own /\ l.hello = cn[c].hello /\ l.peer = cn[c].peer
      /\ l.pos = cn[c].pos /\ l.down = cn[c].down /\ l.tx = cn[c].tx
  BY <1>1 DEF Connection
<1> HIDE DEF l, t
<1>5. Words(l) = Words(cn[c])
  BY <1>4 DEF Words
<1>6. Tells(cn[c], l)
  BY <1>1, <1>4, <1>5, SaysTheSame
<1>7. TellsTo([cn EXCEPT ![c] = l])
  BY <1>3, <1>5, <1>6, ReplacedTells
<1> QED  BY <1>2, <1>7 DEF t

-----------------------------------------------------------------------------
(* The terminal *)

(* Output only grows, and not once the terminal is closed.                  *)
OutputGrows == end' \in Nat /\ end' >= end /\ (closed => closed' /\ end' = end)

(* What the snapshot says of the terminal is used before it can be wrong:   *)
(* every other handler is behind the one that reads it.                     *)
LEMMA OthersLeaveTheTerminal ==
  ASSUME IInv, [Next]_vars, ~ReadPty, ~Poll, ~EndPass
  PROVE  /\ UNCHANGED <<closed, base, end>>
         /\ pc' \notin 0 .. 1 \/ UNCHANGED <<pc, ready>>
<1>1. CASE Shutdown
  BY <1>1 DEF Shutdown, ringVars, termVars, Exited
<1>2. CASE HangUp
  BY <1>2 DEF HangUp, At, ringVars, termVars
<1>3. CASE ApplyWin
  BY <1>3 DEF ApplyWin, At, ringVars, termVars
<1>4. CASE WritePty
  BY <1>4 DEF WritePty, At, ringVars, termVars
<1>5. CASE CollectOutcome
  BY <1>5 DEF CollectOutcome, At, ringVars
<1>6. CASE ReadClient
  BY <1>6 DEF ReadClient, At, ringVars, termVars
<1>7. CASE Decode \/ DecodeEnds
  BY <1>7 DEF Decode, DecodeEnds, ringVars, termVars
<1>8. CASE Accept
  BY <1>8 DEF Accept, At, ringVars, termVars
<1>9. CASE ReadPending
  BY <1>9 DEF ReadPending, At, ringVars, termVars
<1>10. CASE Greet
  BY <1>10 DEF Greet, ringVars
<1>11. CASE PumpOutput
  BY <1>11 DEF PumpOutput, At, ringVars, termVars
<1>12. CASE WriteClient
  BY <1>12 DEF WriteClient, At, ringVars, termVars
<1>13. CASE ShellStep
  BY <1>13 DEF ShellStep, ChildWrite, ChildRead, ChildExit, SlaveClose, daemonVars, loopVars,
         ringVars, termVars
<1>14. CASE ClientStep
  <2>1. UNCHANGED daemonVars
    BY <1>14 DEF ClientStep, Probe, Connect, Type, Say, ClientRead, HangsUp, Outside, Unasked
  <2> QED  BY <2>1 DEF daemonVars, loopVars, ringVars, termVars
<1>15. CASE Tick
  BY <1>15 DEF Tick, IdleDeadline, PendingDeadline, OutcomeGrace, AcceptBackoff, TimeOnly,
         loopVars, ringVars, termVars
<1>16. CASE SigTerm \/ PollFails
  BY <1>16 DEF SigTerm, PollFails, Stopping, daemonVars, loopVars, ringVars, termVars
<1>17. CASE UNCHANGED vars
  BY <1>17 DEF vars, daemonVars, loopVars, ringVars, termVars
<1> QED
  BY <1>1, <1>2, <1>3, <1>4, <1>5, <1>6, <1>7, <1>8, <1>9, <1>10, <1>11, <1>12, <1>13,
     <1>14, <1>15, <1>16, <1>17
  DEF Next, DaemonStep

LEMMA StepsReadTheTerminal ==
  ASSUME IInv, TerminalIsRead, [Next]_vars
  PROVE  TerminalIsRead' /\ OutputGrows
<1>1. base \in Nat /\ end \in Nat /\ base <= end
  BY DEF IInv, TypeOK, StreamsOK, TerminalIsRead
<1>2. CASE ReadPty
  <2>1. ~closed /\ pc' = 2
    BY <1>2 DEF ReadPty, At, Work, TerminalIsRead
  <2>2. CASE Push(ptyOut)
    <3>1. ptyOut \in Nat
      BY BoundsAssumption DEF IInv, TypeOK, TerminalOK
    <3>2. end' \in Nat /\ end' >= end /\ base' <= end'
      BY <1>1, <2>2, <3>1, BoundsAssumption DEF Push, LargerOf
    <3> QED  BY <2>1, <3>2 DEF TerminalIsRead, OutputGrows
  <2>3. CASE UNCHANGED <<base, end>>
    BY <1>1, <2>1, <2>3 DEF TerminalIsRead, OutputGrows
  <2> QED  BY <1>2, <2>2, <2>3 DEF ReadPty, ringVars
<1>3. CASE Poll
  <2>1. UNCHANGED <<base, end, closed>> /\ pc = 0
    BY <1>3 DEF Poll, ringVars, termVars, Waiting
  <2>2. closed /\ ~ready["pty"] => ~ready'["pty"]
    BY <1>3 DEF Poll, Snapshot, IInv, TypeOK, LoopOK
  <2> QED  BY <1>1, <2>1, <2>2 DEF TerminalIsRead, OutputGrows
<1>4. CASE EndPass
  <2>1. UNCHANGED <<base, end, closed>>
    BY <1>4 DEF EndPass, ringVars, termVars
  <2>2. ~ready'["pty"]
    BY <1>4 DEF EndPass, IInv, TypeOK, LoopOK
  <2> QED  BY <1>1, <2>1, <2>2 DEF TerminalIsRead, OutputGrows
<1>5. CASE ~ReadPty /\ ~Poll /\ ~EndPass
  <2>1. /\ UNCHANGED <<closed, base, end>>
        /\ pc' \notin 0 .. 1 \/ UNCHANGED <<pc, ready>>
    BY <1>5, OthersLeaveTheTerminal
  <2> QED  BY <1>1, <2>1 DEF TerminalIsRead, OutputGrows
<1> QED  BY <1>2, <1>3, <1>4, <1>5

-----------------------------------------------------------------------------
(* What the handlers tell *)

(* A step that gives no program a new place in the output: those that use a *)
(* connection use it on, and the client, if it stays, is owed what it was.  *)
Ordinary ==
  /\ TellsTo(conn')
  /\ \/ client' = NoConn
     \/ client' = client /\ att'.sent = att.sent /\ att'.endSent = att.endSent
  /\ pending' \in {NoConn, pending} \cup Backlog
  /\ \A a \in Clients : cli'[a].conn = cli[a].conn /\ cli'[a].got = cli[a].got

LEMMA IdleHandlersAreOrdinary ==
  ASSUME IInv, Poll \/ ApplyWin \/ WritePty \/ CollectOutcome
  PROVE  Ordinary
<1>1. UNCHANGED <<conn, client, att, pending, cli>>
  BY DEF Poll, ApplyWin, WritePty, CollectOutcome, attVars
<1>2. TellsTo(conn)
  BY StayingTells DEF IInv
<1> QED  BY <1>1, <1>2 DEF Ordinary, TellsTo

LEMMA EndPassIsOrdinary ==
  ASSUME IInv, EndPass
  PROVE  Ordinary
<1>1. TypeOK /\ TellsTo(conn) /\ pending \in Conns \cup {NoConn}
  BY StayingTells DEF IInv
<1>2. TellsTo(conn')
  <2>1. CASE conn' = conn
    BY <1>1, <2>1
  <2>2. CASE conn' = [conn EXCEPT ![pending] = Closed(@)]
    <3> DEFINE k == Closed(conn[pending])
    <3>1. pending \in Conns => conn[pending] \in Connection
      BY <1>1 DEF TellsTo
    <3>2. pending \in Conns => k \in Connection /\ Tells(conn[pending], k) /\ k.pos = "closed"
      BY <3>1, ClosedIsConnection, ClosedTells
    <3>3. conn' = [conn EXCEPT ![pending] = k]
      BY <2>2
    <3> HIDE DEF k
    <3>4. TellsTo([conn EXCEPT ![pending] = k])
      BY <1>1, <3>2, ReplacedTells
    <3> QED  BY <3>3, <3>4, Zenon
  <2> QED  BY <2>1, <2>2 DEF EndPass
<1>3. UNCHANGED <<client, att, cli>> /\ pending' \in {NoConn, pending}
  BY DEF EndPass
<1> QED  BY <1>2, <1>3 DEF Ordinary

LEMMA ShutdownIsOrdinary ==
  ASSUME IInv, Shutdown
  PROVE  Ordinary
<1>1. TypeOK /\ conn \in [Conns -> Connection] /\ client \in Conns \cup {NoConn}
  BY DEF IInv, TypeOK, ConnectionsOK
<1>2. PICK k \in IF client = NoConn THEN {FreeConn} ELSE FinalFlushes(conn[client]) :
        conn' = [c \in Conns |-> IF c = client THEN k
                                 ELSE IF conn[c].pos \in {"held", "backlog"}
                                 THEN Closed(conn[c]) ELSE conn[c]]
  BY DEF Shutdown
<1>3. ASSUME NEW c \in Conns
      PROVE  /\ conn'[c] \in Connection /\ Tells(conn[c], conn'[c])
             /\ c # client /\ conn'[c].pos # "closed" => Words(conn'[c]) = Words(conn[c])
  <2>1. conn[c] \in Connection
    BY <1>1
  <2>2. CASE c = client
    <3>1. client # NoConn
      BY <2>2 DEF Conns, NoConn
    <3>2. k \in FinalFlushes(conn[c]) /\ conn'[c] = k
      BY <1>2, <2>2, <3>1
    <3> QED  BY <2>1, <2>2, <3>2, FinalFlushesClose, FinalFlushTells
  <2>3. CASE conn'[c] = Closed(conn[c])
    BY <2>1, <2>3, ClosedIsConnection, ClosedTells
  <2>4. CASE conn'[c] = conn[c]
    BY <2>1, <2>4, NothingTells
  <2> QED  BY <1>2, <2>2, <2>3, <2>4
<1>4. conn' = [c \in Conns |-> conn'[c]]
  BY <1>2
<1>5. TellsTo(conn')
  BY <1>3, <1>4 DEF TellsTo
<1>6. client' = NoConn /\ pending' = NoConn /\ UNCHANGED cli
  BY DEF Shutdown
<1> QED  BY <1>5, <1>6 DEF Ordinary

LEMMA LosingTheClientIsOrdinary ==
  ASSUME IInv, HangUp \/ ReadPty \/ DecodeEnds
  PROVE  Ordinary
<1>1. TypeOK /\ TellsTo(conn) /\ "Internal" \in Refusals /\ "Protocol" \in Refusals
  BY StayingTells DEF IInv, Refusals
<1>2. UNCHANGED <<pending, cli>>
  BY DEF HangUp, ReadPty, DecodeEnds
<1>3. CASE Drop(conn)
  BY <1>1, <1>2, <1>3, DropTells DEF Ordinary, Drop
<1>4. ASSUME NEW code \in Refusals, Reject(conn, code) PROVE Ordinary
  <2>1. client' = NoConn
    BY <1>4 DEF Reject, Drop
  <2> QED  BY <1>1, <1>2, <1>4, <2>1, RejectTells DEF Ordinary
<1>5. CASE UNCHANGED <<conn, client, att>>
  BY <1>1, <1>2, <1>5 DEF Ordinary, TellsTo
<1>6. \/ Drop(conn) \/ Reject(conn, "Internal") \/ Reject(conn, "Protocol")
      \/ UNCHANGED <<conn, client, att>>
  BY DEF HangUp, ReadPty, DecodeEnds
<1> QED  BY <1>1, <1>3, <1>4, <1>5, <1>6

LEMMA ReadClientIsOrdinary ==
  ASSUME IInv, ReadClient
  PROVE  Ordinary
<1>1. TypeOK /\ TellsTo(conn)
  BY StayingTells DEF IInv
<1>2. FillClient(conn, "decode") /\ UNCHANGED <<pending, cli>>
  BY DEF ReadClient
<1>3. TellsTo(conn') /\ (client' = NoConn \/ UNCHANGED <<client, att>>)
  BY <1>1, <1>2, FillClientTells
<1> QED  BY <1>2, <1>3 DEF Ordinary

LEMMA WriteClientIsOrdinary ==
  ASSUME IInv, WriteClient
  PROVE  Ordinary
<1>1. TypeOK /\ TellsTo(conn) /\ client \in Conns \cup {NoConn} /\ UNCHANGED <<pending, cli>>
  BY StayingTells DEF IInv, WriteClient
<1>2. CASE Drop(conn)
  BY <1>1, <1>2, DropTells DEF Ordinary, Drop
<1>3. CASE conn' = [conn EXCEPT ![client] = Flushed(conn[client])] /\ UNCHANGED <<client, att>>
  <2> DEFINE k == Flushed(conn[client])
  <2>1. client \in Conns => conn[client] \in Connection
    BY <1>1 DEF TellsTo
  <2>2. client \in Conns => k \in Connection /\ Tells(conn[client], k)
    BY <2>1, FlushedIsConnection, FlushedTells
  <2> HIDE DEF k
  <2>3. TellsTo([conn EXCEPT ![client] = k])
    BY <1>1, <2>2, ReplacedTells
  <2>4. TellsTo(conn')
    BY <1>3, <2>3, Zenon DEF k
  <2> QED  BY <1>1, <1>3, <2>4 DEF Ordinary
<1> QED  BY <1>2, <1>3 DEF WriteClient

LEMMA AcceptIsOrdinary ==
  ASSUME IInv, Accept
  PROVE  Ordinary
<1>1. TypeOK /\ TellsTo(conn) /\ conn \in [Conns -> Connection] /\ UNCHANGED <<client, att, cli>>
  BY StayingTells DEF IInv, Accept, TypeOK, ConnectionsOK
<1>2. CASE UNCHANGED <<conn, pending>>
  BY <1>1, <1>2 DEF Ordinary, TellsTo
<1>3. ASSUME NEW c \in Oldest(Backlog),
             conn' = [conn EXCEPT ![c].pos = "held"] \/ conn' = [conn EXCEPT ![c] = Closed(@)],
             pending' \in {c, pending}
      PROVE  Ordinary
  <2>1. c \in Conns /\ c \in Backlog /\ conn[c] \in Connection /\ conn[c].pos = "backlog"
    BY <1>1 DEF Oldest, Backlog
  <2> DEFINE h == [conn[c] EXCEPT !.pos = "held"]
  <2>2. h \in Connection /\ Tells(conn[c], h) /\ Words(h) = Words(conn[c])
    <3>1. h \in Connection
      BY <2>1 DEF Connection
    <3>2. /\ h.own = conn[c].own /\ h.hello = conn[c].hello /\ h.peer = conn[c].peer
          /\ h.tx = conn[c].tx /\ h.down = conn[c].down /\ h.pos = "held"
      BY <2>1 DEF Connection
    <3> HIDE DEF h
    <3>3. Words(h) = Words(conn[c])
      BY <3>2 DEF Words
    <3> QED  BY <2>1, <3>1, <3>2, <3>3, SaysTheSame
  <2>3. /\ Closed(conn[c]) \in Connection /\ Tells(conn[c], Closed(conn[c]))
        /\ Closed(conn[c]).pos = "closed"
    BY <2>1, ClosedIsConnection, ClosedTells
  <2>4. PICK k \in {h, Closed(conn[c])} : conn' = [conn EXCEPT ![c] = k]
    BY <1>3
  <2> HIDE DEF h
  <2>5. /\ k \in Connection /\ Tells(conn[c], k)
        /\ k.pos = "closed" \/ Words(k) = Words(conn[c])
    BY <2>2, <2>3, <2>4
  <2>6. TellsTo([conn EXCEPT ![c] = k])
    BY <1>1, <2>1, <2>5, ReplacedTells
  <2>7. TellsTo(conn')
    BY <2>4, <2>6, Zenon
  <2> QED  BY <1>1, <1>3, <2>1, <2>7 DEF Ordinary
<1>4. \/ UNCHANGED <<conn, pending>>
      \/ \E c \in Oldest(Backlog) :
           /\ conn' = [conn EXCEPT ![c].pos = "held"] \/ conn' = [conn EXCEPT ![c] = Closed(@)]
           /\ pending' \in {c, pending}
  BY DEF Accept
<1> QED  BY <1>2, <1>3, <1>4

LEMMA DecodeIsOrdinary ==
  ASSUME IInv, Decode
  PROVE  Ordinary
<1> DEFINE f == Head(conn[client].rx)
           cn == [conn EXCEPT ![client].rx = Tail(@)]
<1>1. /\ TypeOK /\ TellsTo(conn) /\ client \in Conns /\ conn[client].rx # <<>>
      /\ HandleFrame(f, cn) /\ UNCHANGED <<pending, cli>> /\ inApplied \in Nat
      /\ conn \in [Conns -> Connection]
  BY StayingTells DEF IInv, TypeOK, ConnectionsOK, StreamsOK, Decode, MoreToDecode, HasFrame
<1>2. f \in ClientFrame /\ TellsTo(cn)
  BY <1>1, TakenIsConnection, TakenTells
<1> HIDE DEF f, cn
<1>3. CASE Drop(cn)
  BY <1>1, <1>2, <1>3, DropTells DEF Ordinary, Drop
<1>4. ASSUME NEW code \in Refusals, Reject(cn, code) PROVE Ordinary
  <2>1. client' = NoConn
    BY <1>4 DEF Reject, Drop
  <2> QED  BY <1>1, <1>2, <1>4, <2>1, RejectTells DEF Ordinary
<1>5. CASE conn' = cn /\ UNCHANGED <<client, att>>
  BY <1>1, <1>2, <1>5 DEF Ordinary, TellsTo
<1>6. ASSUME NEW g \in ServerFrame, Aside(g), conn' = Tell(cn, g), UNCHANGED <<client, att>>
      PROVE  Ordinary
  <2>1. TellsTo(Tell(cn, g))
    BY <1>1, <1>2, <1>6, TellTells
  <2>2. TellsTo(conn')
    BY <1>6, <2>1, Zenon
  <2> QED  BY <1>1, <1>6, <2>2 DEF Ordinary
<1>7. SF("Pong", 0, 0) \in ServerFrame /\ Aside(SF("Pong", 0, 0))
  BY ServerFrames DEF ServerFrameTypes, SF, Aside
<1>8. SF("InputAck", AppliedThrough(f), 0) \in ServerFrame
      /\ Aside(SF("InputAck", AppliedThrough(f), 0))
  <2>1. AppliedThrough(f) \in Nat
    BY <1>1, <1>2, InputsHaveEnds DEF AppliedThrough, LargerOf, EndOf
  <2> QED  BY <2>1, ServerFrames DEF ServerFrameTypes, SF, Aside
<1>9. "InputGap" \in Refusals /\ "Protocol" \in Refusals
  BY DEF Refusals
<1>10. \/ Drop(cn) \/ Reject(cn, "InputGap") \/ Reject(cn, "Protocol")
       \/ conn' = cn /\ UNCHANGED <<client, att>>
       \/ conn' = Tell(cn, SF("Pong", 0, 0)) /\ UNCHANGED <<client, att>>
       \/ conn' = Tell(cn, SF("InputAck", AppliedThrough(f), 0)) /\ UNCHANGED <<client, att>>
  BY <1>1 DEF HandleFrame, OnInput
<1> QED  BY <1>3, <1>4, <1>5, <1>6, <1>7, <1>8, <1>9, <1>10

LEMMA ReadPendingIsOrdinary ==
  ASSUME IInv, ReadPending
  PROVE  Ordinary
<1> DEFINE k == Filled(conn[pending])
           cn == [conn EXCEPT ![pending] = k]
           taken == [cn EXCEPT ![pending].rx = Tail(@)]
<1>1. /\ TypeOK /\ TellsTo(conn) /\ UNCHANGED cli
      /\ pending \in Conns /\ conn[pending] \in Connection
  BY StayingTells
  DEF IInv, TypeOK, ConnectionsOK, ReadPending, SnapshotHolds, At, Work, NoConn
<1>2. k \in Connection /\ Tells(conn[pending], k) /\ Words(k) = Words(conn[pending])
  BY <1>1, FilledIsConnection, FilledTells
<1> HIDE DEF k
<1>3. TellsTo(cn) /\ cn[pending] = k
  <2>1. cn[pending] = k
    BY <1>1 DEF TellsTo
  <2> QED  BY <1>1, <1>2, <2>1, ReplacedTells
<1>4. k.rx # <<>> => TellsTo(taken)
  <2> HIDE DEF cn
  <2> QED  BY <1>1, <1>3, TakenTells
<1>5. Closed(k) \in Connection /\ Tells(k, Closed(k)) /\ Closed(k).pos = "closed"
  BY <1>2, ClosedIsConnection, ClosedTells
<1>6. "Protocol" \in Refusals /\ "Version" \in Refusals
  BY DEF Refusals
<1>7. \/ Dismiss(cn, Closed(k)) /\ UNCHANGED <<client, att>>
      \/ conn' = cn /\ UNCHANGED <<client, att, pending>>
      \/ RejectPending(cn, "Protocol") /\ UNCHANGED <<client, att>>
      \/ k.rx # <<>> /\ RejectPending(taken, "Version") /\ UNCHANGED <<client, att>>
      \/ k.rx # <<>> /\ FillClient(taken, "drain") /\ UNCHANGED pending
      \/ k.rx # <<>> /\ conn' = taken /\ UNCHANGED <<client, att, pending>>
  BY DEF ReadPending, HasFrame, k
<1> HIDE DEF cn, taken
<1>8. /\ TellsTo(conn') /\ (client' = NoConn \/ UNCHANGED <<client, att>>)
      /\ pending' \in {NoConn, pending}
  <2>1. CASE Dismiss(cn, Closed(k)) /\ UNCHANGED <<client, att>>
    BY <1>1, <1>3, <1>5, <2>1, DismissTells DEF Dismiss
  <2>2. CASE conn' = cn /\ UNCHANGED <<client, att, pending>>
    BY <1>3, <2>2
  <2>3. CASE RejectPending(cn, "Protocol") /\ UNCHANGED <<client, att>>
    <3>1. pending' = NoConn
      BY <2>3 DEF RejectPending, Dismiss
    <3> QED  BY <1>1, <1>3, <1>6, <2>3, <3>1, RejectPendingTells
  <2>4. CASE k.rx # <<>> /\ RejectPending(taken, "Version") /\ UNCHANGED <<client, att>>
    <3>1. pending' = NoConn
      BY <2>4 DEF RejectPending, Dismiss
    <3> QED  BY <1>1, <1>4, <1>6, <2>4, <3>1, RejectPendingTells
  <2>5. CASE k.rx # <<>> /\ FillClient(taken, "drain") /\ UNCHANGED pending
    BY <1>1, <1>4, <2>5, FillClientTells
  <2>6. CASE k.rx # <<>> /\ conn' = taken /\ UNCHANGED <<client, att, pending>>
    BY <1>4, <2>6
  <2> QED  BY <1>7, <2>1, <2>2, <2>3, <2>4, <2>5, <2>6
<1> QED  BY <1>1, <1>8 DEF Ordinary

LEMMA EvictionTells ==
  ASSUME IInv, NEW cn \in Evictions
  PROVE  TellsTo(cn)
<1>1. TypeOK /\ TellsTo(conn) /\ client \in Conns \cup {NoConn}
  BY StayingTells DEF IInv
<1>2. CASE cn = conn
  BY <1>1, <1>2
<1>3. CASE cn # conn
  <2> DEFINE s == Sent(conn[client], SF("Takeover", 0, 0))
  <2>1. PICK k \in FinalFlushes(s) : cn = [conn EXCEPT ![client] = k]
    BY <1>3 DEF Evictions
  <2>2. "Takeover" \in Refusals
    BY DEF Refusals
  <2>3. ASSUME client \in Conns
        PROVE  k \in Connection /\ Tells(conn[client], k)
    <3>1. conn[client] \in Connection
      BY <1>1, <2>3 DEF TellsTo
    <3>2. s \in Connection /\ Tells(conn[client], s)
      BY <2>2, <3>1, RefusalsAreAsides, SentIsConnection, SentTells
    <3> HIDE DEF s
    <3>3. k \in Connection /\ Tells(s, k)
      BY <2>1, <3>2, FinalFlushesClose, FinalFlushTells
    <3> QED  BY <3>1, <3>2, <3>3, TellsOn
  <2> HIDE DEF s
  <2>4. TellsTo([conn EXCEPT ![client] = k])
    BY <1>1, <2>3, ReplacedTells
  <2> QED  BY <2>1, <2>4, Zenon
<1> QED  BY <1>2, <1>3

(* A greeting is answered on a connection nothing was said on, the          *)
(* incumbent being gone.                                                    *)
Welcome(c) == SF("HelloOk", ResumeFrom(conn[c].hello), inApplied)
Promoted(cn) ==
  /\ TellsTo(cn) /\ cn[pending] = conn[pending]
  /\ conn' = [cn EXCEPT ![pending] = Sent(conn[pending], Welcome(pending))]
  /\ client' = pending /\ pending' = NoConn
  /\ att'.sent = ResumeFrom(conn[pending].hello) /\ ~att'.endSent
  /\ UNCHANGED <<cli, base, end, closed>>

LEMMA GreetPromotes ==
  ASSUME IInv, Greet
  PROVE  \/ Ordinary
         \/ pending \in Conns /\ \E cn \in Evictions : Promoted(cn)
<1>1. /\ TypeOK /\ TellsTo(conn) /\ UNCHANGED <<cli, base, end, closed>>
      /\ pending \in Conns /\ pending # NoConn /\ conn[pending] \in Connection
  BY StayingTells
  DEF IInv, TypeOK, ConnectionsOK, Greet, SnapshotHolds, NoConn, ringVars
<1>2. CASE RejectPending(conn, "AlreadyAttached") /\ UNCHANGED <<client, att>>
  <2>1. "AlreadyAttached" \in Refusals
    BY DEF Refusals
  <2>2. pending' = NoConn
    BY <1>2 DEF RejectPending, Dismiss
  <2>3. TellsTo(conn')
    BY <1>1, <1>2, <2>1, RejectPendingTells
  <2> QED  BY <1>1, <1>2, <2>2, <2>3 DEF Ordinary
<1>3. ASSUME NEW cn \in Evictions, OnHello(cn)
      PROVE  Ordinary \/ Promoted(cn)
  <2>1. TellsTo(cn) /\ cn[pending] = conn[pending] /\ cn \in [Conns -> Connection]
    BY <1>1, EvictionTells, EvictionsLeaveThePending DEF IInv, TypeOK
  <2>2. CASE /\ client' = pending /\ att' = Greeted(conn[pending].hello)
             /\ conn' = [cn EXCEPT ![pending] = Sent(@, Welcome(pending))]
    <3>1. conn' = [cn EXCEPT ![pending] = Sent(conn[pending], Welcome(pending))]
      BY <1>1, <2>1, <2>2
    <3>2. att'.sent = ResumeFrom(conn[pending].hello) /\ ~att'.endSent
      BY <2>2 DEF Greeted
    <3>3. pending' = NoConn
      BY <1>3 DEF OnHello
    <3> QED  BY <1>1, <2>1, <2>2, <3>1, <3>2, <3>3 DEF Promoted
  <2>3. CASE /\ client' = NoConn
             /\ conn' = [cn EXCEPT ![pending] =
                           Closed(Flushed(Sent(@, SF("Internal", 0, 0))))]
    <3> DEFINE r == Sent(cn[pending], SF("Internal", 0, 0))
               k == Closed(Flushed(r))
    <3>1. "Internal" \in Refusals /\ cn[pending] \in Connection
      BY <1>1, <2>1 DEF Refusals
    <3>2. r \in Connection /\ Tells(cn[pending], r)
      BY <3>1, RefusalsAreAsides, SentIsConnection, SentTells
    <3>3. conn' = [cn EXCEPT ![pending] = k]
      BY <1>1, <2>1, <2>3
    <3> HIDE DEF r
    <3>4. Flushed(r) \in Connection /\ Tells(r, Flushed(r))
      BY <3>2, FlushedIsConnection, FlushedTells
    <3>5. k \in Connection /\ Tells(Flushed(r), k) /\ k.pos = "closed"
      BY <3>4, ClosedIsConnection, ClosedTells
    <3> HIDE DEF k
    <3>6. Tells(cn[pending], Flushed(r))
      BY <3>1, <3>2, <3>4, TellsOn
    <3>7. Tells(cn[pending], k)
      BY <3>1, <3>4, <3>5, <3>6, TellsOn
    <3>8. TellsTo([cn EXCEPT ![pending] = k])
      BY <1>1, <2>1, <3>5, <3>7, ReplacedTells
    <3>9. TellsTo(conn')
      BY <3>3, <3>8, Zenon
    <3>10. pending' = NoConn
      BY <1>3 DEF OnHello
    <3> QED  BY <1>1, <2>3, <3>9, <3>10 DEF Ordinary
  <2> QED  BY <1>3, <2>2, <2>3 DEF OnHello, Welcome
<1>4. \/ RejectPending(conn, "AlreadyAttached") /\ UNCHANGED <<client, att>>
      \/ \E cn \in Evictions : OnHello(cn)
  BY DEF Greet
<1> QED  BY <1>1, <1>2, <1>3, <1>4

-----------------------------------------------------------------------------
(* What the world tells *)

(* A change of one connection that says nothing on it.                      *)
LEMMA UnsaidIsOrdinary ==
  ASSUME IInv, NEW c \in Conns, NEW k \in Connection, conn' = [conn EXCEPT ![c] = k],
         k.own = conn[c].own, k.hello = conn[c].hello, k.pos = conn[c].pos,
         k.peer # "gone" => conn[c].peer # "gone",
         k.tx = conn[c].tx, k.down = conn[c].down,
         UNCHANGED <<client, att, pending>>,
         \A a \in Clients : cli'[a].conn = cli[a].conn /\ cli'[a].got = cli[a].got
  PROVE  Ordinary
<1>1. TypeOK /\ TellsTo(conn) /\ conn[c] \in Connection
  BY StayingTells DEF IInv, TypeOK, ConnectionsOK
<1>2. Words(k) = Words(conn[c])
  BY DEF Words
<1>3. Tells(conn[c], k)
  BY <1>1, <1>2, SaysTheSame
<1>4. TellsTo([conn EXCEPT ![c] = k])
  BY <1>1, <1>2, <1>3, ReplacedTells
<1>5. TellsTo(conn')
  BY <1>4, Zenon
<1> QED  BY <1>5 DEF Ordinary

LEMMA SayIsOrdinary ==
  ASSUME IInv, NEW a \in Clients, Type(a) \/ Say(a)
  PROVE  Ordinary
<1> DEFINE c == cli[a].conn
<1>1. /\ conn \in [Conns -> Connection] /\ cli \in [Clients -> Program]
      /\ UNCHANGED <<client, att, pending>>
  BY DEF IInv, TypeOK, ConnectionsOK, ProgramsOK, Type, Say, Outside, Unasked, daemonVars, attVars
<1>2. c \in Conns /\ conn[c] \in Connection /\ conn'[c] \in Connection
  <2>1. IInv'
    BY TypeKeepsIInv, SayKeepsIInv
  <2>2. c \in Conns
    BY <1>1 DEF Type, Say, CanSay, Program
  <2> QED  BY <1>1, <2>1, <2>2 DEF IInv, TypeOK, ConnectionsOK
<1>3. conn' = [conn EXCEPT ![c] = conn'[c]]
  BY <1>1, <1>2 DEF Type, Say
<1>4. /\ conn'[c].own = conn[c].own /\ conn'[c].hello = conn[c].hello
      /\ conn'[c].pos = conn[c].pos /\ conn[c].peer # "gone"
      /\ conn'[c].tx = conn[c].tx /\ conn'[c].down = conn[c].down
  <2>1. conn[c].peer # "gone"
    BY DEF Type, Say, CanSay
  <2>2. CASE Type(a)
    <3>1. PICK u : conn' = [conn EXCEPT ![c].up = u]
      BY <2>2 DEF Type
    <3> QED  BY <1>1, <1>2, <2>1, <3>1 DEF Connection
  <2>3. CASE Say(a)
    <3>1. PICK t \in ClientSays, w \in Sizes : conn' = [conn EXCEPT ![c] = Spoken(@, t, w)]
      BY <2>3 DEF Say
    <3>2. conn'[c] = Spoken(conn[c], t, w)
      BY <1>1, <1>2, <3>1
    <3> HIDE DEF c
    <3> QED  BY <1>2, <2>1, <3>2 DEF Spoken, Connection
  <2> QED  BY <2>2, <2>3
<1>5. \A b \in Clients : cli'[b].conn = cli[b].conn /\ cli'[b].got = cli[b].got
  <2>1. CASE Type(a)
    <3>1. PICK u : cli' = [cli EXCEPT ![a].next = u]
      BY <2>1 DEF Type
    <3> QED  BY <1>1, <3>1 DEF Program
  <2>2. CASE Say(a)
    BY <2>2 DEF Say
  <2> QED  BY <2>1, <2>2
<1> DEFINE k == conn'[c]
<1> HIDE DEF c
<1>6. k \in Connection /\ conn' = [conn EXCEPT ![c] = k]
  BY <1>2, <1>3
<1>7. /\ k.own = conn[c].own /\ k.hello = conn[c].hello /\ k.pos = conn[c].pos
      /\ (k.peer # "gone" => conn[c].peer # "gone")
      /\ k.tx = conn[c].tx /\ k.down = conn[c].down
  BY <1>4
<1> HIDE DEF k
<1> QED  BY <1>1, <1>2, <1>5, <1>6, <1>7, UnsaidIsOrdinary

LEMMA WorldIsOrdinary ==
  ASSUME IInv,
         \/ ShellStep \/ Tick \/ SigTerm \/ PollFails \/ UNCHANGED vars
         \/ \E c \in Conns : HangsUp(c)
         \/ \E a \in Clients : Type(a) \/ Say(a)
  PROVE  Ordinary
<1>1. conn \in [Conns -> Connection] /\ TellsTo(conn)
  BY StayingTells DEF IInv, TypeOK, ConnectionsOK
<1>2. CASE ShellStep \/ Tick \/ SigTerm \/ PollFails \/ UNCHANGED vars
  <2>1. UNCHANGED <<client, att, pending, conn, cli>>
    BY <1>2 DEF ShellStep, ChildWrite, ChildRead, ChildExit, SlaveClose, Tick, IdleDeadline,
           PendingDeadline, OutcomeGrace, AcceptBackoff, TimeOnly, SigTerm, PollFails, vars,
           daemonVars, attVars
  <2> QED  BY <1>1, <2>1 DEF Ordinary, TellsTo
<1>3. ASSUME NEW c \in Conns, HangsUp(c) PROVE Ordinary
  <2> DEFINE k == [conn[c] EXCEPT !.peer = "gone"]
  <2>1. conn' = [conn EXCEPT ![c] = k] /\ UNCHANGED <<client, att, pending, cli>>
    BY <1>3 DEF HangsUp, Unasked, daemonVars, attVars
  <2>2. conn[c] \in Connection
    BY <1>1
  <2>3. /\ k \in Connection
        /\ k.own = conn[c].own /\ k.hello = conn[c].hello /\ k.pos = conn[c].pos
        /\ k.peer = "gone" /\ k.tx = conn[c].tx /\ k.down = conn[c].down
    BY <2>2 DEF Connection
  <2> HIDE DEF k
  <2> QED  BY <2>1, <2>3, UnsaidIsOrdinary
<1> QED  BY <1>2, <1>3, SayIsOrdinary

-----------------------------------------------------------------------------
(* What was told stays true *)

LEMMA PlacesAfter ==
  ASSUME NEW f \in ServerFrame
  PROVE  After(f) \in Nat
BY DEF ServerFrame, After

LEMMA StaysTrue ==
  ASSUME IInv, OutputGrows, NEW k \in Connection, NEW l \in Connection, Tells(k, l),
         IsTrue(Words(k), end, closed)
  PROVE  IsTrue(Words(l), end', closed')
<1> DEFINE s == Words(k)
           t == Words(l)
<1>1. s \in Seq(ServerFrame) /\ t \in Seq(ServerFrame) /\ Len(t) \in Nat
  BY WordsAreFrames
<1>2. PICK n : Echo(s, t, n)
  BY DEF Tells
<1>3. IsWithin(s, end) /\ ExitIsLast(s, end) /\ (HasExit(s) => closed)
  BY DEF IsTrue
<1>4. end \in Nat /\ end' \in Nat /\ end <= end' /\ (closed => closed' /\ end' = end)
  BY DEF IInv, TypeOK, StreamsOK, OutputGrows
<1>5. \A i \in 1 .. Len(t) : After(t[i]) \in Nat
  BY <1>1, ElementOfSeq, PlacesAfter
<1> HIDE DEF s, t
<1>6. IsWithin(t, end) /\ ExitIsLast(t, end) /\ (HasExit(t) => HasExit(s))
  BY <1>1, <1>2, <1>3, EchoSays
<1>7. IsWithin(t, end')
  BY <1>4, <1>5, <1>6 DEF IsWithin
<1>8. ExitIsLast(t, end')
  <2>1. CASE HasExit(t)
    BY <1>3, <1>4, <1>6, <2>1
  <2>2. CASE ~HasExit(t)
    BY <2>2 DEF HasExit, ExitIsLast
  <2> QED  BY <2>1, <2>2
<1> QED  BY <1>3, <1>4, <1>6, <1>7, <1>8 DEF IsTrue, t

LEMMA StaysReachable ==
  ASSUME IInv, OutputGrows, NEW x \in Int, Reachable(x)
  PROVE  x <= end' \/ x > MaxOut
BY BoundsAssumption DEF IInv, TypeOK, StreamsOK, OutputGrows, Reachable

LEMMA OrdinaryKeepsWhatWasSaid ==
  ASSUME IInv, IInv', SaidIsTrue, OutputGrows, Ordinary
  PROVE  SaidIsTrue' /\ \A c \in Conns : Ungreeted(c)' => Ungreeted(c)
<1> SUFFICES ASSUME NEW c \in Conns
             PROVE  /\ Ungreeted(c)' => Words(conn'[c]) = <<>> /\ Ungreeted(c)
                    /\ IsTrue(Words(conn'[c]), end', closed')
  BY DEF SaidIsTrue
<1>1. /\ conn[c] \in Connection /\ conn'[c] \in Connection /\ Tells(conn[c], conn'[c])
      /\ c # client /\ conn'[c].pos # "closed" => Words(conn'[c]) = Words(conn[c])
  BY DEF IInv, TypeOK, ConnectionsOK, Ordinary, TellsTo
<1>2. IsTrue(Words(conn'[c]), end', closed')
  BY <1>1, StaysTrue DEF SaidIsTrue
<1>3. ASSUME Ungreeted(c)'
      PROVE  Words(conn'[c]) = <<>> /\ Ungreeted(c)
  <2>1. conn'[c].pos \in {"free", "backlog"} \/ c = pending'
    BY <1>3 DEF Ungreeted
  <2>2. c = pending' => conn'[c].pos = "held" /\ c # NoConn
    BY DEF IInv, NoConnectionLeaks, Conns, NoConn
  <2>3. Ungreeted(c)
    <3>1. CASE conn'[c].pos \in {"free", "backlog"}
      BY <1>1, <3>1 DEF Tells, Ungreeted
    <3>2. CASE c = pending'
      BY <2>2, <3>2 DEF Ordinary, Ungreeted, Backlog
    <3> QED  BY <2>1, <3>1, <3>2
  <2>4. c # client
    BY <2>3 DEF IInv, NoConnectionLeaks, Ungreeted, Conns, NoConn
  <2>5. conn'[c].pos # "closed"
    BY <2>1, <2>2
  <2> QED  BY <1>1, <2>3, <2>4, <2>5 DEF SaidIsTrue
<1> QED  BY <1>2, <1>3

LEMMA OrdinaryKeepsTheTranscript ==
  ASSUME IInv, IInv', Transcript, TerminalIsRead', OutputGrows, Ordinary
  PROVE  Transcript'
<1>1. SaidIsTrue' /\ \A c \in Conns : Ungreeted(c)' => Ungreeted(c)
  BY OrdinaryKeepsWhatWasSaid DEF Transcript
<1>2. \A c \in Conns :
        /\ conn[c] \in Connection /\ conn'[c] \in Connection /\ Tells(conn[c], conn'[c])
  BY DEF IInv, TypeOK, ConnectionsOK, Ordinary, TellsTo
<1>3. ASSUME client' # NoConn
      PROVE  /\ client' = client /\ att'.sent = att.sent /\ att'.endSent = att.endSent
             /\ client \in Conns
             /\ \A x, z : StandsAt(Words(conn[client]), x, z)
                            => StandsAt(Words(conn'[client]), x, z)
             /\ HasExit(Words(conn'[client])) => HasExit(Words(conn[client]))
  <2>1. /\ client' = client /\ att'.sent = att.sent /\ att'.endSent = att.endSent
        /\ client \in Conns /\ conn'[client].pos = "held"
    BY <1>3 DEF Ordinary, IInv, TypeOK, ConnectionsOK, NoConnectionLeaks
  <2>2. /\ conn[client] \in Connection /\ conn'[client] \in Connection
        /\ Tells(conn[client], conn'[client])
    BY <1>2, <2>1
  <2>3. PICK n : Echo(Words(conn[client]), Words(conn'[client]), n) /\ n = Len(Words(conn[client]))
    BY <2>1, <2>2 DEF Tells
  <2>4. Words(conn[client]) \in Seq(ServerFrame) /\ Words(conn'[client]) \in Seq(ServerFrame)
    BY <2>2, WordsAreFrames
  <2> QED  BY <2>1, <2>3, <2>4, EchoSays
<1>4. ClientIsFollowed'
  <2> SUFFICES ASSUME client' # NoConn
               PROVE  /\ att'.sent <= end'
                      /\ StandsAt(Words(conn'[client']), att'.sent, att'.sent)
                      /\ HasExit(Words(conn'[client'])) => att'.endSent
                      /\ att'.endSent => closed' /\ att'.sent = end'
    BY DEF ClientIsFollowed
  <2>1. /\ client # NoConn /\ att.sent <= end
        /\ StandsAt(Words(conn[client]), att.sent, att.sent)
        /\ HasExit(Words(conn[client])) => att.endSent
        /\ att.endSent => closed /\ att.sent = end
    BY <1>3 DEF Transcript, ClientIsFollowed
  <2>2. /\ att.sent \in Nat /\ end \in Nat /\ end' \in Nat /\ end <= end'
        /\ closed => closed' /\ end' = end
    BY DEF IInv, TypeOK, StreamsOK, ConnectionsOK, Attachment, OutputGrows
  <2> QED  BY <1>3, <2>1, <2>2
<1>5. ProgramsStand'
  <2>1. ASSUME NEW c \in Conns
        PROVE  /\ conn'[c].hello.out <= end' \/ conn'[c].hello.out > MaxOut
               /\ conn'[c].hello = conn[c].hello
    <3>1. conn'[c].hello = conn[c].hello /\ conn[c].hello.out \in Int
      BY <1>2 DEF Tells, Connection, Hello, RESUME_FROM_START
    <3> QED  BY <3>1, StaysReachable DEF Transcript, ProgramsStand
  <2>2. ASSUME NEW a \in Clients
        PROVE  /\ cli'[a].got <= end' \/ cli'[a].got > MaxOut
               /\ cli'[a].conn # NoConn =>
                    /\ conn'[cli'[a].conn].own = a /\ conn'[cli'[a].conn].pos # "free"
                    /\ Ungreeted(cli[a].conn)' => cli'[a].got = conn'[cli'[a].conn].hello.out
    <3>1. cli[a].got \in Int /\ cli[a].conn \in Conns \cup {NoConn}
          /\ cli'[a].conn = cli[a].conn /\ cli'[a].got = cli[a].got
      BY DEF IInv, TypeOK, ProgramsOK, Program, RESUME_FROM_START, Ordinary
    <3>2. cli'[a].got <= end' \/ cli'[a].got > MaxOut
      BY <3>1, StaysReachable DEF Transcript, ProgramsStand
    <3>3. ASSUME cli[a].conn # NoConn
          PROVE  /\ conn'[cli[a].conn].own = a /\ conn'[cli[a].conn].pos # "free"
                 /\ Ungreeted(cli[a].conn)' => cli[a].got = conn'[cli[a].conn].hello.out
      <4>1. cli[a].conn \in Conns
        BY <3>1, <3>3
      <4>2. /\ conn[cli[a].conn].own = a /\ conn[cli[a].conn].pos # "free"
            /\ Ungreeted(cli[a].conn) => cli[a].got = conn[cli[a].conn].hello.out
        BY <3>3 DEF Transcript, ProgramsStand
      <4>3. Tells(conn[cli[a].conn], conn'[cli[a].conn])
        BY <1>2, <4>1
      <4>4. /\ conn'[cli[a].conn].own = conn[cli[a].conn].own
            /\ conn'[cli[a].conn].hello = conn[cli[a].conn].hello
            /\ conn'[cli[a].conn].pos = "free" => conn[cli[a].conn].pos = "free"
        BY <4>3 DEF Tells
      <4>5. Ungreeted(cli[a].conn)' => Ungreeted(cli[a].conn)
        <5>1. PICK c \in Conns : c = cli[a].conn
          BY <4>1
        <5>2. cli'[a].conn = c
          BY <3>1, <5>1
        <5> QED  BY <1>1, <5>1, <5>2 DEF Ungreeted
      <4> QED  BY <4>2, <4>4, <4>5
    <3> QED  BY <3>1, <3>2, <3>3
  <2> QED  BY <2>1, <2>2 DEF ProgramsStand, Reachable
<1>6. ProgramsFollow'
  <2> SUFFICES ASSUME NEW a \in Clients, NEW c \in Conns, cli'[a].conn = c, conn'[c].peer # "gone"
               PROVE  /\ Chained(Words(conn'[c]), cli'[a].got, conn'[c].hello.out > MaxOut)
                      /\ c = client' => StandsAt(Words(conn'[c]), cli'[a].got, att'.sent)
    BY DEF ProgramsFollow, Using
  <2>1. /\ conn[c] \in Connection /\ conn'[c] \in Connection /\ Tells(conn[c], conn'[c])
        /\ cli[a].conn = c /\ cli'[a].got = cli[a].got
    BY <1>2 DEF Ordinary
  <2>2. Using(a, c) /\ conn'[c].hello = conn[c].hello
    BY <2>1 DEF Using, Tells
  <2>3. PICK n : Echo(Words(conn[c]), Words(conn'[c]), n)
    BY <2>1 DEF Tells
  <2>4. Words(conn[c]) \in Seq(ServerFrame) /\ Words(conn'[c]) \in Seq(ServerFrame)
    BY <2>1, WordsAreFrames
  <2>5. Chained(Words(conn'[c]), cli[a].got, conn[c].hello.out > MaxOut)
    BY <2>2, <2>3, <2>4, EchoSays DEF Transcript, ProgramsFollow
  <2>6. c = client' => StandsAt(Words(conn'[c]), cli[a].got, att.sent)
    <3>1. client # NoConn => (c = client => StandsAt(Words(conn[c]), cli[a].got, att.sent))
      BY <2>2 DEF Transcript, ProgramsFollow
    <3>2. c # NoConn
      BY DEF Conns, NoConn
    <3> QED  BY <1>3, <3>1, <3>2
  <2>7. c = client' => att'.sent = att.sent
    BY <1>3 DEF Conns, NoConn
  <2> QED  BY <2>1, <2>2, <2>5, <2>6, <2>7
<1> QED  BY <1>1, <1>4, <1>5, <1>6 DEF Transcript

-----------------------------------------------------------------------------
(* One thing said after another *)

Joins(s, t, u) ==
  /\ Len(s) \in Nat /\ Len(t) \in Nat /\ Len(u) = Len(s) + Len(t)
  /\ \A i \in 1 .. Len(s) : u[i] = s[i]
  /\ \A i \in 1 .. Len(t) : u[Len(s) + i] = t[i]

LEMMA ConcatJoins ==
  ASSUME NEW s \in Seq(ServerFrame), NEW t \in Seq(ServerFrame)
  PROVE  Joins(s, t, s \o t)
<1> DEFINE u == s \o t
<1>1. /\ Len(u) = Len(s) + Len(t)
      /\ \A i \in 1 .. Len(s) + Len(t) : u[i] = IF i <= Len(s) THEN s[i] ELSE t[i - Len(s)]
  BY ConcatProperties
<1>2. Len(s) \in Nat /\ Len(t) \in Nat
  BY LenProperties
<1> HIDE DEF u
<1>3. \A i \in 1 .. Len(s) : u[i] = s[i]
  BY <1>1, <1>2
<1>4. ASSUME NEW i \in 1 .. Len(t) PROVE u[Len(s) + i] = t[i]
  <2>1. /\ Len(s) + i \in 1 .. Len(s) + Len(t) /\ ~(Len(s) + i <= Len(s))
        /\ Len(s) + i - Len(s) = i
    BY <1>2
  <2> QED  BY <1>1, <2>1
<1>5. Joins(s, t, u)
  BY <1>1, <1>2, <1>3, <1>4 DEF Joins
<1> QED  BY <1>5 DEF u

LEMMA PlacesInTheFirst ==
  ASSUME NEW s, NEW t, NEW u, Joins(s, t, u), NEW x, NEW i \in 0 .. Len(s), NEW y
  PROVE  y \in Places(x, u, i) <=> y \in Places(x, s, i)
<1>1. i \in Nat /\ Len(s) \in Nat /\ \A j \in 1 .. i : u[j] = s[j]
  BY DEF Joins
<1>2. (\A j \in 1 .. i : ~Positional(u[j])) <=> (\A j \in 1 .. i : ~Positional(s[j]))
  BY <1>1
<1>3. ASSUME NEW j \in 1 .. i
      PROVE  (/\ Positional(u[j]) /\ y = After(u[j])
              /\ \A k \in j + 1 .. i : ~Positional(u[k]))
             <=>
             (/\ Positional(s[j]) /\ y = After(s[j])
              /\ \A k \in j + 1 .. i : ~Positional(s[k]))
  <2>1. \A k \in j + 1 .. i : k \in 1 .. i
    BY <1>1
  <2> QED  BY <1>1, <2>1
<1> QED  BY <1>1, <1>2, <1>3, PlaceIs

(* Who stands at z after the first hears the second from there.             *)
LEMMA PlacesInTheSecond ==
  ASSUME NEW s, NEW t, NEW u, Joins(s, t, u), NEW x, NEW i \in 0 .. Len(t), NEW y
  PROVE  /\ \A z : StandsAt(s, x, z) /\ y \in Places(x, u, Len(s) + i) => y \in Places(z, t, i)
         /\ \A z : z \in Places(x, s, Len(s)) /\ y \in Places(z, t, i)
                     => y \in Places(x, u, Len(s) + i)
<1> DEFINE n == Len(s)
<1>1. /\ i \in Nat /\ n \in Nat /\ n + i \in Nat
      /\ \A j \in 1 .. n : u[j] = s[j]
      /\ \A j \in 1 .. i : u[n + j] = t[j]
  <2>1. Len(s) \in Nat /\ Len(t) \in Nat /\ i \in Nat
    BY DEF Joins
  <2>2. \A j \in 1 .. i : j \in 1 .. Len(t)
    BY <2>1
  <2> QED  BY <2>1, <2>2 DEF Joins
<1> HIDE DEF n
<1>2. ASSUME NEW j \in 1 .. n + i
      PROVE  j \in 1 .. n \/ (j - n \in 1 .. i /\ n + (j - n) = j)
  BY <1>1
<1>3. \A j \in 1 .. n : j \in 1 .. n + i
  BY <1>1
<1>4. \A j \in 1 .. i : n + j \in 1 .. n + i
  BY <1>1
<1>5. ASSUME NEW z, StandsAt(s, x, z), y \in Places(x, u, n + i)
      PROVE  y \in Places(z, t, i)
  <2>1. \/ y = x /\ \A j \in 1 .. n + i : ~Positional(u[j])
        \/ \E j \in 1 .. n + i : /\ Positional(u[j]) /\ y = After(u[j])
                                 /\ \A k \in j + 1 .. n + i : ~Positional(u[k])
    BY <1>1, <1>5, PlaceIs
  <2>2. ASSUME \A j \in 1 .. i : ~Positional(u[n + j]), y \in Places(x, s, n)
        PROVE  y \in Places(z, t, i)
    <3>1. y = z
      BY <1>5, <2>2 DEF StandsAt, n
    <3>2. \A j \in 1 .. i : ~Positional(t[j])
      BY <1>1, <2>2
    <3> QED  BY <1>1, <3>1, <3>2, PlaceIs
  <2>3. CASE y = x /\ \A j \in 1 .. n + i : ~Positional(u[j])
    <3>1. \A j \in 1 .. n : ~Positional(s[j])
      BY <1>1, <1>3, <2>3
    <3>2. y \in Places(x, s, n)
      BY <1>1, <2>3, <3>1, PlaceIs
    <3> QED  BY <1>4, <2>2, <2>3, <3>2
  <2>4. ASSUME NEW j \in 1 .. n + i, Positional(u[j]), y = After(u[j]),
               \A k \in j + 1 .. n + i : ~Positional(u[k])
        PROVE  y \in Places(z, t, i)
    <3>1. CASE j \in 1 .. n
      <4>1. ASSUME NEW k \in j + 1 .. n PROVE ~Positional(s[k])
        <5>1. k \in j + 1 .. n + i /\ k \in 1 .. n
          BY <1>1, <3>1
        <5> QED  BY <1>1, <2>4, <5>1
      <4>2. y \in Places(x, s, n)
        BY <1>1, <2>4, <3>1, <4>1, PlaceIs
      <4>3. ASSUME NEW k \in 1 .. i PROVE ~Positional(u[n + k])
        <5>1. n + k \in j + 1 .. n + i
          BY <1>1, <3>1
        <5> QED  BY <2>4, <5>1
      <4> QED  BY <2>2, <4>2, <4>3
    <3>2. CASE j - n \in 1 .. i /\ n + (j - n) = j
      <4>1. PICK m \in 1 .. i : n + m = j
        BY <3>2
      <4>2. ASSUME NEW k \in m + 1 .. i PROVE ~Positional(t[k])
        <5>1. k \in 1 .. i /\ n + k \in j + 1 .. n + i
          BY <1>1, <4>1
        <5> QED  BY <1>1, <2>4, <5>1
      <4>3. Positional(t[m]) /\ y = After(t[m])
        BY <1>1, <2>4, <4>1
      <4> QED  BY <1>1, <4>2, <4>3, PlaceIs
    <3> QED  BY <1>2, <3>1, <3>2
  <2> QED  BY <2>1, <2>3, <2>4
<1>6. ASSUME NEW z \in Places(x, s, n), y \in Places(z, t, i)
      PROVE  y \in Places(x, u, n + i)
  <2>1. \/ y = z /\ \A j \in 1 .. i : ~Positional(t[j])
        \/ \E j \in 1 .. i : /\ Positional(t[j]) /\ y = After(t[j])
                             /\ \A k \in j + 1 .. i : ~Positional(t[k])
    BY <1>1, <1>6, PlaceIs
  <2>2. ASSUME NEW m \in 1 .. i, Positional(t[m]), y = After(t[m]),
               \A k \in m + 1 .. i : ~Positional(t[k])
        PROVE  y \in Places(x, u, n + i)
    <3>1. ASSUME NEW k \in n + m + 1 .. n + i PROVE ~Positional(u[k])
      <4>1. k - n \in m + 1 .. i /\ k - n \in 1 .. i /\ n + (k - n) = k
        BY <1>1
      <4> QED  BY <1>1, <2>2, <4>1
    <3>2. n + m \in 1 .. n + i /\ Positional(u[n + m]) /\ y = After(u[n + m])
      BY <1>1, <1>4, <2>2
    <3> QED  BY <1>1, <3>1, <3>2, PlaceIs
  <2>3. ASSUME y = z, \A j \in 1 .. i : ~Positional(t[j])
        PROVE  y \in Places(x, u, n + i)
    <3>1. \/ z = x /\ \A j \in 1 .. n : ~Positional(s[j])
          \/ \E j \in 1 .. n : /\ Positional(s[j]) /\ z = After(s[j])
                               /\ \A k \in j + 1 .. n : ~Positional(s[k])
      BY <1>1, <1>6, PlaceIs
    <3>2. ASSUME NEW k \in 1 .. n + i, ~(k \in 1 .. n)
          PROVE  ~Positional(u[k])
      <4>1. k - n \in 1 .. i /\ n + (k - n) = k
        BY <1>1, <3>2
      <4> QED  BY <1>1, <2>3, <4>1
    <3>3. CASE z = x /\ \A j \in 1 .. n : ~Positional(s[j])
      <4>1. \A k \in 1 .. n + i : ~Positional(u[k])
        BY <1>1, <3>2, <3>3
      <4> QED  BY <1>1, <2>3, <3>3, <4>1, PlaceIs
    <3>4. ASSUME NEW j \in 1 .. n, Positional(s[j]), z = After(s[j]),
                 \A k \in j + 1 .. n : ~Positional(s[k])
          PROVE  y \in Places(x, u, n + i)
      <4>1. ASSUME NEW k \in j + 1 .. n + i PROVE ~Positional(u[k])
        <5>1. k \in 1 .. n + i /\ (k \in 1 .. n => k \in j + 1 .. n)
          BY <1>1
        <5> QED  BY <1>1, <3>2, <3>4, <5>1
      <4>2. j \in 1 .. n + i /\ Positional(u[j]) /\ y = After(u[j])
        BY <1>1, <1>3, <2>3, <3>4
      <4> QED  BY <1>1, <4>1, <4>2, PlaceIs
    <3> QED  BY <3>1, <3>3, <3>4
  <2> QED  BY <2>1, <2>2, <2>3
<1> QED  BY <1>5, <1>6 DEF n

LEMMA ChainedTogether ==
  ASSUME NEW s, NEW t, NEW u, Joins(s, t, u), NEW x, NEW z, NEW ahead,
         Chained(s, x, ahead), StandsAt(s, x, z), Chained(t, z, ahead)
  PROVE  Chained(u, x, ahead)
<1> SUFFICES ASSUME NEW i \in 1 .. Len(u), NEW y \in Places(x, u, i - 1)
             PROVE  Continues(u[i], y, ahead)
  BY DEF Chained
<1>1. Len(s) \in Nat /\ Len(t) \in Nat /\ Len(u) = Len(s) + Len(t)
  BY DEF Joins
<1>2. CASE i \in 1 .. Len(s)
  <2>1. i - 1 \in 0 .. Len(s) /\ u[i] = s[i]
    BY <1>1, <1>2 DEF Joins
  <2>2. y \in Places(x, s, i - 1)
    BY <2>1, PlacesInTheFirst
  <2> QED  BY <1>2, <2>1, <2>2 DEF Chained
<1>3. CASE i \notin 1 .. Len(s)
  <2>1. PICK m \in 1 .. Len(t) : i = Len(s) + m
    <3>1. i - Len(s) \in 1 .. Len(t) /\ i = Len(s) + (i - Len(s))
      BY <1>1, <1>3
    <3> QED  BY <3>1
  <2>2. m - 1 \in 0 .. Len(t) /\ i - 1 = Len(s) + (m - 1) /\ u[i] = t[m]
    BY <1>1, <2>1 DEF Joins
  <2>3. y \in Places(z, t, m - 1)
    BY <2>2, PlacesInTheSecond
  <2> QED  BY <2>2, <2>3 DEF Chained
<1> QED  BY <1>2, <1>3

LEMMA StandsTogether ==
  ASSUME NEW s, NEW t, NEW u, Joins(s, t, u), NEW x, NEW z, NEW w,
         StandsAt(s, x, z), StandsAt(t, z, w)
  PROVE  StandsAt(u, x, w)
<1> SUFFICES ASSUME NEW y \in Places(x, u, Len(u)) PROVE y = w
  BY DEF StandsAt
<1>1. Len(t) \in 0 .. Len(t) /\ Len(u) = Len(s) + Len(t)
  BY DEF Joins
<1>2. y \in Places(z, t, Len(t))
  BY <1>1, PlacesInTheSecond
<1> QED  BY <1>2 DEF StandsAt

(* What is left to hear, once the first was heard.                          *)
LEMMA TheRestIsHeard ==
  ASSUME NEW s, NEW t, NEW u, Joins(s, t, u), NEW x, NEW z \in Places(x, s, Len(s))
  PROVE  /\ \A ahead : Chained(u, x, ahead) => Chained(t, z, ahead)
         /\ \A w : StandsAt(u, x, w) => StandsAt(t, z, w)
<1>1. Len(s) \in Nat /\ Len(t) \in Nat /\ Len(u) = Len(s) + Len(t)
  BY DEF Joins
<1>2. ASSUME NEW ahead, Chained(u, x, ahead), NEW i \in 1 .. Len(t),
             NEW y \in Places(z, t, i - 1)
      PROVE  Continues(t[i], y, ahead)
  <2>1. /\ i - 1 \in 0 .. Len(t) /\ Len(s) + i \in 1 .. Len(u)
        /\ Len(s) + i - 1 = Len(s) + (i - 1) /\ u[Len(s) + i] = t[i]
    BY <1>1 DEF Joins
  <2>2. y \in Places(x, u, Len(s) + (i - 1))
    BY <2>1, PlacesInTheSecond
  <2> QED  BY <1>2, <2>1, <2>2 DEF Chained
<1>3. ASSUME NEW w, StandsAt(u, x, w), NEW y \in Places(z, t, Len(t))
      PROVE  y = w
  <2>1. Len(t) \in 0 .. Len(t)
    BY <1>1
  <2>2. y \in Places(x, u, Len(s) + Len(t))
    BY <2>1, PlacesInTheSecond
  <2> QED  BY <1>1, <1>3, <2>2 DEF StandsAt
<1> QED  BY <1>2, <1>3 DEF Chained, StandsAt

LEMMA WithinTogether ==
  ASSUME NEW s, NEW t, NEW u, Joins(s, t, u), NEW e
  PROVE  /\ IsWithin(s, e) /\ IsWithin(t, e) => IsWithin(u, e)
         /\ HasExit(u) => HasExit(s) \/ HasExit(t)
<1>1. Len(s) \in Nat /\ Len(t) \in Nat /\ Len(u) = Len(s) + Len(t)
  BY DEF Joins
<1>2. ASSUME NEW i \in 1 .. Len(u)
      PROVE  \/ i \in 1 .. Len(s) /\ u[i] = s[i]
             \/ \E m \in 1 .. Len(t) : u[i] = t[m]
  <2>1. CASE i \in 1 .. Len(s)
    BY <2>1 DEF Joins
  <2>2. CASE i \notin 1 .. Len(s)
    <3>1. i - Len(s) \in 1 .. Len(t) /\ i = Len(s) + (i - Len(s))
      BY <1>1, <2>2
    <3> QED  BY <3>1 DEF Joins
  <2> QED  BY <2>1, <2>2
<1> QED  BY <1>2 DEF IsWithin, HasExit

LEMMA NoExitIsLast ==
  ASSUME NEW s, ~HasExit(s), NEW e
  PROVE  ExitIsLast(s, e)
BY DEF HasExit, ExitIsLast

LEMMA StandsAnyway ==
  ASSUME NEW s, Len(s) \in Nat, NEW x, NEW e, StandsAt(s, x, e)
  PROVE  StandsAt(s, e, e)
<1> SUFFICES ASSUME NEW y \in Places(e, s, Len(s)), y # e PROVE FALSE
  BY DEF StandsAt
<1>1. y \in Places(x, s, Len(s))
  BY PlaceIs
<1> QED  BY <1>1 DEF StandsAt

(* A frame by itself, or none. *)
LEMMA OneFrame ==
  ASSUME NEW f \in ServerFrame, NEW x
  PROVE  /\ <<f>> \in Seq(ServerFrame) /\ Len(<<f>>) = 1 /\ <<f>>[1] = f
         /\ \A ahead : Continues(f, x, ahead) => Chained(<<f>>, x, ahead)
         /\ StandsAt(<<f>>, x, IF Positional(f) THEN After(f) ELSE x)
         /\ \A e : (Positional(f) => After(f) <= e) => IsWithin(<<f>>, e)
         /\ HasExit(<<f>>) => f.type = "Exit"
<1> DEFINE s == <<f>>
<1>1. s \in Seq(ServerFrame) /\ Len(s) = 1 /\ s[1] = f
  OBVIOUS
<1> HIDE DEF s
<1>2. /\ \A i \in 1 .. Len(s) : i = 1 /\ i - 1 = 0
      /\ \A i \in 1 .. 0 : FALSE
      /\ 1 \in 1 .. 1 /\ \A i \in 1 .. 1 : i = 1 /\ 1 + 1 .. 1 = {}
  BY <1>1
<1>3. \A y : y \in Places(x, s, 0) => y = x
  BY <1>2, PlaceIs
<1>4. \A y : y \in Places(x, s, 1) => y = IF Positional(f) THEN After(f) ELSE x
  BY <1>1, <1>2, PlaceIs
<1>5. \A ahead : Continues(f, x, ahead) => Chained(s, x, ahead)
  BY <1>1, <1>2, <1>3 DEF Chained
<1>6. StandsAt(s, x, IF Positional(f) THEN After(f) ELSE x)
  BY <1>1, <1>4 DEF StandsAt
<1>7. \A e : (Positional(f) => After(f) <= e) => IsWithin(s, e)
  BY <1>1, <1>2 DEF IsWithin
<1>8. HasExit(s) => f.type = "Exit"
  BY <1>1, <1>2 DEF HasExit
<1> QED  BY <1>1, <1>5, <1>6, <1>7, <1>8 DEF s

LEMMA NoFrame ==
  ASSUME NEW x, NEW e
  PROVE  /\ <<>> \in Seq(ServerFrame) /\ Len(<<>>) = 0
         /\ \A ahead : Chained(<<>>, x, ahead)
         /\ StandsAt(<<>>, x, x) /\ IsWithin(<<>>, e) /\ ~HasExit(<<>>)
<1> DEFINE s == <<>>
<1>1. s \in Seq(ServerFrame) /\ Len(s) = 0
  BY EmptySeq
<1> HIDE DEF s
<1>2. \A i \in 1 .. Len(s) : FALSE
  BY <1>1
<1>3. \A y : y \in Places(x, s, 0) => y = x
  <2>1. \A i \in 1 .. 0 : FALSE
    OBVIOUS
  <2> QED  BY <2>1, PlaceIs
<1>4. /\ \A ahead : Chained(s, x, ahead)
      /\ StandsAt(s, x, x) /\ IsWithin(s, e) /\ ~HasExit(s)
  BY <1>1, <1>2, <1>3 DEF Chained, StandsAt, IsWithin, HasExit
<1> QED  BY <1>1, <1>4 DEF s

LEMMA OutputsAre ==
  ASSUME NEW from \in Nat, NEW n \in Nat
  PROVE  /\ Outputs(from, n) \in Seq(ServerFrame) /\ Len(Outputs(from, n)) = n
         /\ \A i \in 1 .. n : Outputs(from, n)[i] = SF("Output", from + i - 1, 0)
<1>1. \A i \in 1 .. n : SF("Output", from + i - 1, 0) \in ServerFrame
  <2> SUFFICES ASSUME NEW i \in 1 .. n PROVE SF("Output", from + i - 1, 0) \in ServerFrame
    OBVIOUS
  <2>1. from + i - 1 \in Nat
    OBVIOUS
  <2> QED  BY <2>1, ServerFrames DEF ServerFrameTypes
<1>2. Outputs(from, n) \in Seq(ServerFrame)
  BY <1>1, IsASeq DEF Outputs
<1>3. DOMAIN Outputs(from, n) = 1 .. n
      /\ \A i \in 1 .. n : Outputs(from, n)[i] = SF("Output", from + i - 1, 0)
  BY DEF Outputs
<1> QED  BY <1>2, <1>3, LenProperties

LEMMA OutputsContinue ==
  ASSUME NEW from \in Nat, NEW n \in Nat, NEW e \in Nat, from + n <= e
  PROVE  /\ \A ahead : Chained(Outputs(from, n), from, ahead)
         /\ StandsAt(Outputs(from, n), from, from + n)
         /\ IsWithin(Outputs(from, n), e) /\ ~HasExit(Outputs(from, n))
<1> DEFINE o == Outputs(from, n)
<1>1. Len(o) = n /\ \A i \in 1 .. n : o[i] = SF("Output", from + i - 1, 0)
  BY OutputsAre
<1>2. \A i \in 1 .. n : o[i].type = "Output" /\ o[i].at = from + i - 1
  BY <1>1 DEF SF
<1> HIDE DEF o
<1>3. \A i \in 1 .. n : Positional(o[i]) /\ After(o[i]) = from + i
  BY <1>2 DEF Positional, After
<1>4. ASSUME NEW i \in 0 .. n, NEW y \in Places(from, o, i)
      PROVE  y = from + i
  <2>1. i \in Nat /\ \A j \in 1 .. i : j \in 1 .. n
    OBVIOUS
  <2>2. CASE y = from /\ \A j \in 1 .. i : ~Positional(o[j])
    <3>1. i = 0
      <4>1. i \in 1 .. i => FALSE
        BY <1>3, <2>1, <2>2
      <4> QED  BY <2>1, <4>1
    <3> QED  BY <2>2, <3>1
  <2>3. ASSUME NEW j \in 1 .. i, y = After(o[j]), \A k \in j + 1 .. i : ~Positional(o[k])
        PROVE  y = from + i
    <3>1. j = i
      <4>1. i \in j + 1 .. i => FALSE
        BY <1>3, <2>1, <2>3
      <4> QED  BY <2>1, <4>1
    <3> QED  BY <1>3, <2>1, <2>3, <3>1
  <2> QED  BY <2>1, <2>2, <2>3, PlaceIs
<1>5. ASSUME NEW i \in 1 .. n, NEW y \in Places(from, o, i - 1), NEW ahead
      PROVE  Continues(o[i], y, ahead)
  <2>1. i - 1 \in 0 .. n /\ from + (i - 1) = from + i - 1 /\ from + i - 1 \in Nat
    OBVIOUS
  <2>2. y = from + i - 1
    BY <1>4, <2>1
  <2> QED  BY <1>2, <2>1, <2>2 DEF Continues
<1>6. \A ahead : Chained(o, from, ahead)
  BY <1>1, <1>5 DEF Chained
<1>7. StandsAt(o, from, from + n)
  <2>1. n \in 0 .. n
    OBVIOUS
  <2> QED  BY <1>1, <1>4, <2>1 DEF StandsAt
<1>8. IsWithin(o, e)
  <2>1. \A i \in 1 .. n : from + i <= e
    OBVIOUS
  <2> QED  BY <1>1, <1>3, <2>1 DEF IsWithin
<1>9. ~HasExit(o)
  BY <1>1, <1>2 DEF HasExit
<1> QED  BY <1>6, <1>7, <1>8, <1>9 DEF o

(* pump_output goes on where it left off, over a Gap where the ring did not *)
(* wait, and no further than there is output.                               *)
LEMMA StreamedContinues ==
  ASSUME TypeOK, client \in Conns, base <= end, att.sent <= end
  PROVE  /\ Streamed.frames \in Seq(ServerFrame)
         /\ \A ahead : Chained(Streamed.frames, att.sent, ahead)
         /\ StandsAt(Streamed.frames, att.sent, Streamed.sent)
         /\ IsWithin(Streamed.frames, end) /\ ~HasExit(Streamed.frames)
         /\ Streamed.sent \in Nat /\ Streamed.sent <= end
         /\ att.sent = end => Streamed.frames = <<>> /\ Streamed.sent = end
<1> DEFINE from == LargerOf(att.sent, base)
           n == SmallerOf(PumpRoom, end - from)
           o == Outputs(from, n)
           g == GapFrames
<1>1. /\ base \in Nat /\ end \in Nat /\ att.sent \in Nat
      /\ from \in Nat /\ from <= end /\ end - from \in Nat
      /\ att.sent < base => from = base
      /\ ~(att.sent < base) => from = att.sent
  BY DEF TypeOK, StreamsOK, ConnectionsOK, Attachment, LargerOf
<1>2. Streamed.frames \in Seq(ServerFrame) /\ Streamed.sent \in Nat
  BY StreamedIsOutput
<1>3. /\ g \in Seq(ServerFrame) /\ \A ahead : Chained(g, att.sent, ahead)
      /\ StandsAt(g, att.sent, from) /\ IsWithin(g, end) /\ ~HasExit(g)
  <2>1. CASE att.sent < base
    <3> DEFINE f == SF("Gap", base, 0)
    <3>1. f \in ServerFrame /\ f.type = "Gap" /\ f.at = base
      BY <1>1, ServerFrames DEF ServerFrameTypes, SF
    <3>2. g = <<f>>
      BY <2>1 DEF GapFrames
    <3> HIDE DEF f, g, from
    <3>3. Positional(f) /\ After(f) = base /\ \A ahead : Continues(f, att.sent, ahead)
      BY <1>1, <2>1, <3>1 DEF Positional, After, Continues
    <3>4. /\ <<f>> \in Seq(ServerFrame) /\ \A ahead : Chained(<<f>>, att.sent, ahead)
          /\ StandsAt(<<f>>, att.sent, base) /\ IsWithin(<<f>>, end) /\ ~HasExit(<<f>>)
      BY <1>1, <3>1, <3>3, OneFrame
    <3> QED  BY <1>1, <2>1, <3>2, <3>4
  <2>2. CASE ~(att.sent < base)
    <3>1. g = <<>> /\ from = att.sent
      BY <1>1, <2>2 DEF GapFrames
    <3> HIDE DEF g, from
    <3> QED  BY <3>1, NoFrame
  <2> QED  BY <2>1, <2>2
<1>4. PumpRoom \in Nat
  <2>1. Len(g) \in Nat /\ Queued(conn[client]) \in Nat
    BY <1>3, LenProperties, RoomIsNat DEF TypeOK, ConnectionsOK
  <2> QED  BY <2>1, BoundsAssumption DEF PumpRoom, LargerOf
<1>5. n \in Nat /\ from + n <= end
  <2> HIDE DEF from
  <2> QED  BY <1>1, <1>4 DEF SmallerOf
<1> HIDE DEF n, from, g
<1>6. /\ o \in Seq(ServerFrame) /\ \A ahead : Chained(o, from, ahead)
      /\ StandsAt(o, from, from + n) /\ IsWithin(o, end) /\ ~HasExit(o)
  BY <1>1, <1>5, OutputsAre, OutputsContinue
<1> HIDE DEF o
<1>7. CASE att.sent < end /\ Queued(conn[client]) < MaxPendingWrite
  <2>1. Streamed.frames = g \o o /\ Streamed.sent = from + n
    BY <1>7 DEF Streamed, from, n, o, g
  <2>2. Joins(g, o, g \o o)
    BY <1>3, <1>6, ConcatJoins
  <2>3. /\ \A ahead : Chained(g \o o, att.sent, ahead)
        /\ StandsAt(g \o o, att.sent, from + n)
    BY <1>3, <1>6, <2>2, ChainedTogether, StandsTogether
  <2>4. IsWithin(g \o o, end) /\ ~HasExit(g \o o)
    BY <1>3, <1>6, <2>2, WithinTogether
  <2>5. att.sent # end
    BY <1>1, <1>7
  <2> QED  BY <1>2, <1>5, <2>1, <2>3, <2>4, <2>5
<1>8. CASE ~(att.sent < end /\ Queued(conn[client]) < MaxPendingWrite)
  <2>1. Streamed.frames = <<>> /\ Streamed.sent = att.sent
    BY <1>8 DEF Streamed
  <2> QED  BY <1>2, <2>1, NoFrame
<1>9. att.sent = end => Streamed.frames = <<>> /\ Streamed.sent = end
  BY <1>1, <1>8
<1> QED  BY <1>7, <1>8, <1>9

(* An Exit behind all of it ends the transcript. *)
LEMMA ExitEndsIt ==
  ASSUME NEW s \in Seq(ServerFrame), NEW f \in ServerFrame, f.type = "Exit",
         IsWithin(s, f.at), ~HasExit(s), NEW x, StandsAt(s, x, f.at)
  PROVE  IsWithin(s \o <<f>>, f.at) /\ ExitIsLast(s \o <<f>>, f.at)
<1> DEFINE t == <<f>>
           u == s \o t
<1>1. ~Positional(f)
  BY DEF Positional
<1>2. /\ t \in Seq(ServerFrame) /\ Len(t) = 1 /\ t[1] = f
      /\ StandsAt(t, f.at, f.at) /\ IsWithin(t, f.at)
  BY <1>1, OneFrame
<1>3. Len(s) \in Nat
  BY LenProperties
<1> HIDE DEF t
<1>4. Joins(s, t, u)
  BY <1>2, ConcatJoins
<1> HIDE DEF u
<1>5. Len(u) = Len(s) + 1 /\ u[Len(s) + 1] = f /\ \A i \in 1 .. Len(s) : u[i] = s[i]
  <2>1. 1 \in 1 .. Len(t)
    BY <1>2
  <2> QED  BY <1>2, <1>4, <2>1 DEF Joins
<1>6. IsWithin(u, f.at)
  BY <1>2, <1>4, WithinTogether
<1>7. StandsAt(u, f.at, f.at)
  BY <1>2, <1>3, <1>4, StandsAnyway, StandsTogether
<1>8. ExitIsLast(u, f.at)
  <2> SUFFICES ASSUME NEW i \in 1 .. Len(u), u[i].type = "Exit"
               PROVE  /\ u[i].at = f.at
                      /\ \A j \in i + 1 .. Len(u) : ~Positional(u[j])
                      /\ \A y \in Places(f.at, u, i) : y = f.at
    BY DEF ExitIsLast
  <2>1. i = Len(s) + 1
    <3>1. i \notin 1 .. Len(s)
      BY <1>5 DEF HasExit
    <3> QED  BY <1>3, <1>5, <3>1
  <2>2. i = Len(u) /\ u[i] = f /\ \A j \in i + 1 .. Len(u) : FALSE
    BY <1>3, <1>5, <2>1
  <2> QED  BY <1>7, <2>2 DEF StandsAt
<1> QED  BY <1>6, <1>8 DEF u, t

Exits == TerminalEnd /\ ~att.endSent /\ Streamed.sent >= end
Farewell == IF Exits THEN <<SF("Exit", end, 0)>> ELSE <<>>
Pumped == (Words(conn[client]) \o Streamed.frames) \o Farewell

LEMMA PumpedIsTrue ==
  ASSUME TypeOK, Transcript, client # NoConn
  PROVE  /\ Farewell \in Seq(ServerFrame)
         /\ IsTrue(Pumped, end, closed) /\ (HasExit(Pumped) => att.endSent \/ Exits)
         /\ \A x : StandsAt(Words(conn[client]), x, att.sent) => StandsAt(Pumped, x, Streamed.sent)
         /\ \A x, ahead : Chained(Words(conn[client]), x, ahead)
                            /\ StandsAt(Words(conn[client]), x, att.sent)
                          => Chained(Pumped, x, ahead)
         /\ StandsAt(Pumped, Streamed.sent, Streamed.sent) /\ Streamed.sent <= end
         /\ att.endSent \/ Exits => closed /\ Streamed.sent = end
<1> DEFINE w == Words(conn[client])
           f == Streamed.frames
           v == w \o f
           s == Streamed.sent
           bye == SF("Exit", end, 0)
<1>1. /\ client \in Conns /\ conn[client] \in Connection /\ end \in Nat
      /\ base <= end /\ att.sent <= end
      /\ StandsAt(w, att.sent, att.sent) /\ (HasExit(w) => att.endSent)
      /\ att.endSent => closed /\ att.sent = end
      /\ IsTrue(w, end, closed)
  BY DEF TypeOK, StreamsOK, ConnectionsOK, Transcript, TerminalIsRead, ClientIsFollowed, SaidIsTrue
<1>2. w \in Seq(ServerFrame)
  BY <1>1, WordsAreFrames
<1>3. /\ f \in Seq(ServerFrame)
      /\ \A ahead : Chained(f, att.sent, ahead)
      /\ StandsAt(f, att.sent, s) /\ IsWithin(f, end) /\ ~HasExit(f)
      /\ s \in Nat /\ s <= end /\ (att.sent = end => f = <<>> /\ s = end)
  BY <1>1, StreamedContinues
<1>4. bye \in ServerFrame /\ bye.type = "Exit" /\ bye.at = end
  BY <1>1, ServerFrames DEF ServerFrameTypes, SF
<1>5. Exits => s = end /\ closed /\ ~att.endSent
  BY <1>1, <1>3 DEF Exits, TerminalEnd
<1>6. Farewell = IF Exits THEN <<bye>> ELSE <<>>
  BY DEF Farewell
<1>7. Pumped = v \o Farewell
  BY DEF Pumped
<1> HIDE DEF bye, w, f, s
<1>8. v \in Seq(ServerFrame) /\ Joins(w, f, v)
  BY <1>2, <1>3, ConcatJoins, ConcatProperties
<1>9. HasExit(v) => HasExit(w) /\ v = w
  <2>1. HasExit(v) => HasExit(w)
    BY <1>3, <1>8, WithinTogether
  <2>2. HasExit(w) => f = <<>>
    BY <1>1, <1>3
  <2>3. f = <<>> => v = w
    BY <1>2, ConcatEmptySeq
  <2> QED  BY <2>1, <2>2, <2>3
<1>10. \A y : StandsAt(w, y, att.sent) => StandsAt(v, y, s)
  BY <1>3, <1>8, StandsTogether
<1>11. \A y, ahead : Chained(w, y, ahead) /\ StandsAt(w, y, att.sent) => Chained(v, y, ahead)
  BY <1>3, <1>8, ChainedTogether
<1>12. IsWithin(v, end)
  BY <1>1, <1>3, <1>8, WithinTogether DEF IsTrue
<1>13. IsTrue(v, end, closed)
  <2>1. CASE HasExit(v)
    BY <1>1, <1>9, <2>1
  <2>2. CASE ~HasExit(v)
    BY <1>12, <2>2, NoExitIsLast DEF IsTrue
  <2> QED  BY <2>1, <2>2
<1> HIDE DEF v
<1>14. StandsAt(v, s, s)
  <2>1. Len(v) \in Nat
    BY <1>8, LenProperties
  <2> QED  BY <1>1, <1>10, <2>1, StandsAnyway
<1>15. ASSUME ~Exits
       PROVE  /\ Farewell \in Seq(ServerFrame)
              /\ IsTrue(Pumped, end, closed)
              /\ HasExit(Pumped) => att.endSent \/ Exits
              /\ \A y : StandsAt(w, y, att.sent) => StandsAt(Pumped, y, s)
              /\ \A y, ahead : Chained(w, y, ahead) /\ StandsAt(w, y, att.sent)
                               => Chained(Pumped, y, ahead)
              /\ StandsAt(Pumped, s, s)
              /\ att.endSent \/ Exits => closed /\ s = end
  <2>1. Pumped = v /\ Farewell = <<>> /\ <<>> \in Seq(ServerFrame)
    BY <1>6, <1>7, <1>8, <1>15, ConcatEmptySeq, EmptySeq
  <2>2. HasExit(Pumped) => att.endSent
    BY <1>1, <1>9, <2>1
  <2>3. att.endSent => closed /\ s = end
    BY <1>1, <1>3
  <2>4. \A y : StandsAt(w, y, att.sent) => StandsAt(Pumped, y, s)
    BY <1>10, <2>1
  <2>5. \A y, ahead : Chained(w, y, ahead) /\ StandsAt(w, y, att.sent) => Chained(Pumped, y, ahead)
    BY <1>11, <2>1
  <2>6. IsTrue(Pumped, end, closed) /\ StandsAt(Pumped, s, s)
    BY <1>13, <1>14, <2>1
  <2> QED  BY <1>15, <2>1, <2>2, <2>3, <2>4, <2>5, <2>6
<1>16. ASSUME Exits
       PROVE  /\ Farewell \in Seq(ServerFrame)
              /\ IsTrue(Pumped, end, closed)
              /\ HasExit(Pumped) => att.endSent \/ Exits
              /\ \A y : StandsAt(w, y, att.sent) => StandsAt(Pumped, y, s)
              /\ \A y, ahead : Chained(w, y, ahead) /\ StandsAt(w, y, att.sent)
                               => Chained(Pumped, y, ahead)
              /\ StandsAt(Pumped, s, s)
              /\ att.endSent \/ Exits => closed /\ s = end
  <2> DEFINE t == <<bye>>
             u == v \o t
  <2>1. Pumped = u /\ Farewell = t
    BY <1>6, <1>7, <1>16
  <2>2. ~HasExit(v) /\ s = end
    BY <1>1, <1>5, <1>9, <1>16
  <2>3. IsWithin(u, end) /\ ExitIsLast(u, end)
    BY <1>4, <1>8, <1>12, <1>14, <2>2, ExitEndsIt
  <2>4. ~Positional(bye) /\ \A y, ahead : Continues(bye, y, ahead)
    BY <1>4 DEF Positional, Continues
  <2>5. t \in Seq(ServerFrame) /\ (\A y, ahead : Chained(t, y, ahead)) /\ StandsAt(t, s, s)
    BY <1>4, <2>4, OneFrame
  <2> HIDE DEF t
  <2>6. Joins(v, t, u)
    BY <1>8, <2>5, ConcatJoins
  <2> HIDE DEF u
  <2>7. \A y : StandsAt(w, y, att.sent) => StandsAt(u, y, s)
    BY <1>10, <2>5, <2>6, StandsTogether
  <2>8. \A y, ahead : Chained(w, y, ahead) /\ StandsAt(w, y, att.sent) => Chained(u, y, ahead)
    BY <1>10, <1>11, <2>5, <2>6, ChainedTogether
  <2>9. StandsAt(u, s, s)
    BY <1>14, <2>5, <2>6, StandsTogether
  <2>10. IsTrue(u, end, closed)
    BY <1>5, <1>16, <2>3 DEF IsTrue
  <2>11. \A y : StandsAt(w, y, att.sent) => StandsAt(Pumped, y, s)
    BY <2>1, <2>7
  <2>12. \A y, ahead : Chained(w, y, ahead) /\ StandsAt(w, y, att.sent) => Chained(Pumped, y, ahead)
    BY <2>1, <2>8
  <2>13. IsTrue(Pumped, end, closed) /\ StandsAt(Pumped, s, s) /\ Farewell \in Seq(ServerFrame)
    BY <2>1, <2>5, <2>9, <2>10
  <2>14. closed /\ s = end
    BY <1>5, <1>16
  <2> QED  BY <1>16, <2>11, <2>12, <2>13, <2>14
<1>17. /\ Farewell \in Seq(ServerFrame)
       /\ IsTrue(Pumped, end, closed)
       /\ HasExit(Pumped) => att.endSent \/ Exits
       /\ \A y : StandsAt(w, y, att.sent) => StandsAt(Pumped, y, s)
       /\ \A y, ahead : Chained(w, y, ahead) /\ StandsAt(w, y, att.sent)
                        => Chained(Pumped, y, ahead)
       /\ StandsAt(Pumped, s, s)
       /\ att.endSent \/ Exits => closed /\ s = end
  BY <1>15, <1>16
<1>18. s <= end
  BY <1>3
<1>19. \A y : StandsAt(Words(conn[client]), y, att.sent) => StandsAt(Pumped, y, Streamed.sent)
  BY ONLY <1>17, Zenon DEF w, s
<1>20. \A y, ahead : Chained(Words(conn[client]), y, ahead)
                       /\ StandsAt(Words(conn[client]), y, att.sent)
                     => Chained(Pumped, y, ahead)
  <2>1. \A y, ahead : Chained(w, y, ahead) /\ StandsAt(w, y, att.sent) => Chained(Pumped, y, ahead)
    BY ONLY <1>17
  <2> QED  BY ONLY <2>1 DEF w
<1>21. /\ StandsAt(Pumped, Streamed.sent, Streamed.sent)
       /\ att.endSent \/ Exits => closed /\ Streamed.sent = end
       /\ Streamed.sent <= end
  BY ONLY <1>17, <1>18, Zenon DEF w, s
<1> QED  BY ONLY <1>17, <1>19, <1>20, <1>21, Zenon

LEMMA PumpKeepsTheTranscript ==
  ASSUME IInv, IInv', Transcript, TerminalIsRead', PumpOutput
  PROVE  Transcript'
<1> DEFINE k == conn[client]
           l == conn'[client]
<1>1. /\ TypeOK /\ client # NoConn /\ client \in Conns /\ k \in Connection
      /\ conn \in [Conns -> Connection] /\ conn' \in [Conns -> Connection]
      /\ UNCHANGED <<client, pending, cli, base, end, closed>>
      /\ att \in Attachment
  BY DEF IInv, TypeOK, ConnectionsOK, PumpOutput, At, Work, ringVars, termVars
<1>2. att'.sent = Streamed.sent /\ att'.endSent = (att.endSent \/ Exits)
  <2>1. PICK r : att' = [att EXCEPT !.sent = Streamed.sent, !.endSent = @ \/ Exits,
                                    !.repaintDue = r]
    BY DEF PumpOutput, Exits
  <2> QED  BY <1>1, <2>1 DEF Attachment
<1>3. /\ conn' = [conn EXCEPT ![client].tx = @ \o Streamed.frames \o Farewell]
  BY DEF PumpOutput, Farewell, Exits
<1>4. /\ l.own = k.own /\ l.hello = k.hello /\ l.peer = k.peer /\ l.pos = k.pos
      /\ l.down = k.down /\ l.tx = (k.tx \o Streamed.frames) \o Farewell
  BY <1>1, <1>3 DEF Connection
<1>5. \A c \in Conns : c # client => conn'[c] = conn[c]
  BY <1>1, <1>3
<1>6. Words(l) = Pumped
  <2>1. /\ k.tx \in Seq(ServerFrame) /\ k.down \in Seq(ServerFrame)
        /\ Streamed.frames \in Seq(ServerFrame) /\ Farewell \in Seq(ServerFrame)
    BY <1>1, WordsAreFrames, StreamedIsOutput, PumpedIsTrue
  <2> DEFINE f == Streamed.frames
             e == Farewell
             t == k.tx
             d == k.down
  <2>2. t \in Seq(ServerFrame) /\ d \in Seq(ServerFrame) /\ f \in Seq(ServerFrame)
        /\ e \in Seq(ServerFrame)
    BY <2>1
  <2>3. Words(l) = d \o ((t \o f) \o e) /\ Pumped = ((d \o t) \o f) \o e
    BY <1>4 DEF Words, Pumped
  <2> HIDE DEF f, e, t, d
  <2>4. t \o f \in Seq(ServerFrame)
    BY <2>2, ConcatProperties
  <2>5. d \o ((t \o f) \o e) = (d \o (t \o f)) \o e
    BY SMTT(30), <2>2, <2>4, ServerFramesAssociate
  <2>6. d \o (t \o f) = (d \o t) \o f
    BY SMTT(30), <2>2, ServerFramesAssociate
  <2> QED  BY <2>3, <2>5, <2>6
<1> HIDE DEF k, l
<1>7. SaidIsTrue'
  <2> SUFFICES ASSUME NEW c \in Conns
               PROVE  /\ Ungreeted(c)' => Words(conn'[c]) = <<>>
                      /\ IsTrue(Words(conn'[c]), end', closed')
    BY DEF SaidIsTrue
  <2>1. CASE c = client
    <3>1. Words(conn'[c]) = Pumped
      BY <1>6, <2>1 DEF l
    <3>2. ~Ungreeted(c)'
      BY <1>1, <2>1 DEF IInv, NoConnectionLeaks, Ungreeted
    <3> QED  BY <1>1, <3>1, <3>2, PumpedIsTrue
  <2>2. CASE c # client
    <3>1. conn'[c] = conn[c]
      BY <1>5, <2>2
    <3>2. Ungreeted(c)' => Ungreeted(c)
      BY <1>1, <3>1 DEF Ungreeted
    <3> QED  BY <1>1, <3>1, <3>2 DEF Transcript, SaidIsTrue
  <2> QED  BY <2>1, <2>2
<1>8. ClientIsFollowed'
  <2> SUFFICES /\ att'.sent <= end
               /\ StandsAt(Words(l), att'.sent, att'.sent)
               /\ HasExit(Words(l)) => att'.endSent
               /\ att'.endSent => closed /\ att'.sent = end
    BY <1>1 DEF ClientIsFollowed, l
  <2> QED  BY <1>1, <1>2, <1>6, PumpedIsTrue
<1>9. \A c \in Conns : /\ conn'[c].own = conn[c].own /\ conn'[c].hello = conn[c].hello
                       /\ conn'[c].peer = conn[c].peer /\ conn'[c].pos = conn[c].pos
  BY <1>4, <1>5 DEF k, l
<1>10. ProgramsStand'
  <2>1. \A c \in Conns : Ungreeted(c)' <=> Ungreeted(c)
    BY <1>1, <1>9 DEF Ungreeted
  <2>2. \A c \in Conns : conn'[c].hello.out <= end' \/ conn'[c].hello.out > MaxOut
    BY <1>1, <1>9 DEF Transcript, ProgramsStand, Reachable
  <2>3. ASSUME NEW a \in Clients
        PROVE  /\ cli[a].got <= end' \/ cli[a].got > MaxOut
               /\ cli[a].conn # NoConn =>
                    /\ conn'[cli[a].conn].own = a /\ conn'[cli[a].conn].pos # "free"
                    /\ Ungreeted(cli[a].conn)' => cli[a].got = conn'[cli[a].conn].hello.out
    <3>1. cli[a].got <= end' \/ cli[a].got > MaxOut
      BY <1>1 DEF Transcript, ProgramsStand, Reachable
    <3>2. ASSUME cli[a].conn # NoConn
          PROVE  /\ conn'[cli[a].conn].own = a /\ conn'[cli[a].conn].pos # "free"
                 /\ Ungreeted(cli[a].conn)' => cli[a].got = conn'[cli[a].conn].hello.out
      <4>1. PICK c \in Conns : c = cli[a].conn
        BY <3>2 DEF IInv, TypeOK, ProgramsOK, Program
      <4>2. /\ conn[c].own = a /\ conn[c].pos # "free"
            /\ Ungreeted(c) => cli[a].got = conn[c].hello.out
        BY <3>2, <4>1 DEF Transcript, ProgramsStand
      <4>3. Ungreeted(cli[a].conn)' => Ungreeted(c)
        BY <1>1, <1>9, <4>1 DEF Ungreeted
      <4> QED  BY <1>9, <4>1, <4>2, <4>3
    <3> QED  BY <3>1, <3>2
  <2> QED  BY <1>1, <2>2, <2>3 DEF ProgramsStand, Reachable
<1>11. ProgramsFollow'
  <2> SUFFICES ASSUME NEW a \in Clients, NEW c \in Conns, cli[a].conn = c, conn'[c].peer # "gone"
               PROVE  /\ Chained(Words(conn'[c]), cli[a].got, conn'[c].hello.out > MaxOut)
                      /\ c = client => StandsAt(Words(conn'[c]), cli[a].got, att'.sent)
    BY <1>1 DEF ProgramsFollow, Using
  <2>1. Using(a, c) /\ conn'[c].hello = conn[c].hello
    BY <1>9 DEF Using
  <2>2. /\ Chained(Words(conn[c]), cli[a].got, conn[c].hello.out > MaxOut)
        /\ c = client => StandsAt(Words(conn[c]), cli[a].got, att.sent)
    BY <2>1 DEF Transcript, ProgramsFollow
  <2>3. CASE c = client
    <3>1. Words(conn'[c]) = Pumped
      BY <1>6, <2>3 DEF l
    <3>2. /\ Chained(Words(conn[client]), cli[a].got, conn[c].hello.out > MaxOut)
          /\ StandsAt(Words(conn[client]), cli[a].got, att.sent)
      BY <2>2, <2>3
    <3>3. /\ Chained(Pumped, cli[a].got, conn[c].hello.out > MaxOut)
          /\ StandsAt(Pumped, cli[a].got, Streamed.sent)
      BY <1>1, <3>2, PumpedIsTrue
    <3> QED  BY <1>2, <2>1, <3>1, <3>3
  <2>4. CASE c # client
    BY <1>5, <2>1, <2>2, <2>4
  <2> QED  BY <2>3, <2>4
<1> QED  BY <1>7, <1>8, <1>10, <1>11 DEF Transcript

-----------------------------------------------------------------------------
(* A takeover *)

(* A greeting sets the place: who came back for what the ring still holds   *)
(* goes on from there.                                                      *)
LEMMA WelcomeIsTrue ==
  ASSUME TypeOK, TerminalIsRead, pending \in Conns, Reachable(conn[pending].hello.out)
  PROVE  LET h == conn[pending].hello  f == Welcome(pending) IN
         /\ f \in ServerFrame /\ Positional(f) /\ After(f) = ResumeFrom(h) /\ f.type # "Exit"
         /\ ResumeFrom(h) <= end /\ Continues(f, h.out, h.out > MaxOut)
<1> DEFINE h == conn[pending].hello
           f == Welcome(pending)
           o == h.out
           r == ResumeFrom(h)
<1>1. h \in Hello /\ o \in Int /\ base \in Nat /\ end \in Nat /\ inApplied \in Nat /\ base <= end
  BY DEF TypeOK, StreamsOK, ConnectionsOK, Connection, Hello, TerminalIsRead, RESUME_FROM_START
<1>2. /\ o = RESUME_FROM_START \/ o \in Nat
      /\ r = IF o = RESUME_FROM_START THEN base ELSE LargerOf(SmallerOf(o, end), base)
  BY <1>1 DEF Hello, ResumeFrom
<1>3. o <= end \/ o > MaxOut
  BY DEF Reachable
<1> HIDE DEF o, r
<1>4. r \in Nat /\ r <= end /\ (r < o => o > MaxOut)
  BY <1>1, <1>2, <1>3 DEF LargerOf, SmallerOf, RESUME_FROM_START
<1>5. f = [type |-> "HelloOk", at |-> r, n |-> inApplied]
  BY DEF Welcome, SF, r
<1>6. f \in ServerFrame /\ f.type = "HelloOk" /\ f.at = r
  BY <1>1, <1>4, <1>5 DEF ServerFrame, ServerFrameTypes
<1> HIDE DEF f
<1>7. Positional(f) /\ After(f) = r /\ f.type # "Exit" /\ Continues(f, o, o > MaxOut)
  BY <1>4, <1>6 DEF Positional, After, Continues
<1> QED  BY <1>4, <1>6, <1>7 DEF f, o, r

LEMMA PromotedKeepsTheTranscript ==
  ASSUME IInv, IInv', Transcript, TerminalIsRead', OutputGrows,
         pending \in Conns, NEW cn, Promoted(cn)
  PROVE  Transcript'
<1> DEFINE h == conn[pending].hello
           f == Welcome(pending)
           l == conn'[pending]
           r == ResumeFrom(h)
<1>1. /\ TypeOK /\ conn \in [Conns -> Connection] /\ conn' \in [Conns -> Connection]
      /\ cn \in [Conns -> Connection] /\ conn[pending] \in Connection
      /\ client' = pending /\ pending' = NoConn /\ att'.sent = r /\ ~att'.endSent
      /\ UNCHANGED <<cli, base, end, closed>>
      /\ conn'[pending].pos = "held" /\ pending # NoConn
  BY DEF IInv, TypeOK, ConnectionsOK, Promoted, TellsTo, NoConnectionLeaks, Conns, NoConn
<1>2. /\ f \in ServerFrame /\ Positional(f) /\ After(f) = r /\ f.type # "Exit"
      /\ r <= end /\ Continues(f, h.out, h.out > MaxOut)
  BY <1>1, WelcomeIsTrue DEF Transcript, ProgramsStand
<1>3. Words(conn[pending]) = <<>>
  BY DEF Transcript, SaidIsTrue, Ungreeted
<1>4. /\ l.own = conn[pending].own /\ l.hello = h /\ l.peer = conn[pending].peer
      /\ l.down = conn[pending].down /\ l.tx = Append(conn[pending].tx, f)
  <2>1. l = Sent(conn[pending], f)
    BY <1>1 DEF Promoted
  <2> QED  BY <1>1, <2>1 DEF Sent, Connection
<1>5. \A c \in Conns : c # pending =>
        /\ conn'[c] = cn[c] /\ Tells(conn[c], conn'[c])
        /\ c # client /\ conn'[c].pos # "closed" => Words(conn'[c]) = Words(conn[c])
  BY <1>1 DEF Promoted, TellsTo
<1>6. Words(l) = <<f>>
  <2> DEFINE d == conn[pending].down
             t == conn[pending].tx
  <2>1. d \in Seq(ServerFrame) /\ t \in Seq(ServerFrame)
    BY <1>1, WordsAreFrames
  <2>2. Words(l) = d \o Append(t, f) /\ d \o t = <<>>
    BY <1>3, <1>4 DEF Words
  <2> HIDE DEF d, t, f, l
  <2>3. d \o Append(t, f) = Append(d \o t, f)
    BY <1>2, <2>1, AppendsToAll
  <2>4. Append(<<>>, f) = <<f>>
    OBVIOUS
  <2> QED  BY <2>2, <2>3, <2>4
<1> HIDE DEF f, l, r
<1>7. /\ IsWithin(Words(l), end) /\ ~HasExit(Words(l))
      /\ Chained(Words(l), h.out, h.out > MaxOut)
      /\ StandsAt(Words(l), h.out, r) /\ StandsAt(Words(l), r, r)
  BY <1>2, <1>6, OneFrame
<1>8. SaidIsTrue'
  <2> SUFFICES ASSUME NEW c \in Conns
               PROVE  /\ Ungreeted(c)' => Words(conn'[c]) = <<>>
                      /\ IsTrue(Words(conn'[c]), end', closed')
    BY DEF SaidIsTrue
  <2>1. CASE c = pending
    <3>1. ~Ungreeted(c)'
      BY <1>1, <2>1 DEF Ungreeted
    <3>2. IsTrue(Words(conn'[c]), end', closed')
      BY <1>1, <1>7, <2>1, NoExitIsLast DEF IsTrue, l
    <3> QED  BY <3>1, <3>2
  <2>2. CASE c # pending
    <3>1. conn[c] \in Connection /\ conn'[c] \in Connection /\ Tells(conn[c], conn'[c])
      BY <1>1, <1>5, <2>2
    <3>2. IsTrue(Words(conn'[c]), end', closed')
      BY <3>1, StaysTrue DEF Transcript, SaidIsTrue
    <3>3. ASSUME Ungreeted(c)' PROVE Words(conn'[c]) = <<>>
      <4>1. conn'[c].pos \in {"free", "backlog"}
        BY <1>1, <3>3 DEF Ungreeted, Conns, NoConn
      <4>2. Ungreeted(c)
        BY <3>1, <4>1 DEF Tells, Ungreeted
      <4>3. c # client
        BY <3>1, <4>1 DEF Tells, IInv, NoConnectionLeaks, Conns, NoConn
      <4> QED  BY <1>5, <2>2, <4>1, <4>2, <4>3 DEF Transcript, SaidIsTrue
    <3> QED  BY <3>2, <3>3
  <2> QED  BY <2>1, <2>2
<1>9. ClientIsFollowed'
  <2> SUFFICES /\ att'.sent <= end' /\ StandsAt(Words(l), att'.sent, att'.sent)
               /\ HasExit(Words(l)) => att'.endSent
               /\ att'.endSent => closed' /\ att'.sent = end'
    BY <1>1 DEF ClientIsFollowed, l
  <2> QED  BY <1>1, <1>2, <1>7
<1>10. \A c \in Conns :
         /\ conn'[c].own = conn[c].own /\ conn'[c].hello = conn[c].hello
         /\ conn'[c].pos = "free" => conn[c].pos = "free"
         /\ Ungreeted(c)' => Ungreeted(c)
  <2> SUFFICES ASSUME NEW c \in Conns
               PROVE  /\ conn'[c].own = conn[c].own /\ conn'[c].hello = conn[c].hello
                      /\ conn'[c].pos = "free" => conn[c].pos = "free"
                      /\ Ungreeted(c)' => Ungreeted(c)
    OBVIOUS
  <2>1. CASE c = pending
    BY <1>1, <1>4, <2>1 DEF l, Ungreeted
  <2>2. CASE c # pending
    <3>1. Tells(conn[c], conn'[c]) /\ c # NoConn
      BY <1>5, <2>2 DEF Conns, NoConn
    <3>2. Ungreeted(c)' => conn'[c].pos \in {"free", "backlog"}
      BY <1>1, <3>1 DEF Ungreeted
    <3> QED  BY <3>1, <3>2 DEF Tells, Ungreeted
  <2> QED  BY <2>1, <2>2
<1>11. ProgramsStand'
  <2>1. \A c \in Conns : conn'[c].hello.out <= end' \/ conn'[c].hello.out > MaxOut
    BY <1>1, <1>10 DEF Transcript, ProgramsStand, Reachable
  <2>2. ASSUME NEW a \in Clients
        PROVE  /\ cli'[a].got <= end' \/ cli'[a].got > MaxOut
               /\ cli'[a].conn # NoConn =>
                    /\ conn'[cli'[a].conn].own = a /\ conn'[cli'[a].conn].pos # "free"
                    /\ Ungreeted(cli[a].conn)' => cli'[a].got = conn'[cli'[a].conn].hello.out
    <3>1. cli[a].got <= end' \/ cli[a].got > MaxOut
      BY <1>1 DEF Transcript, ProgramsStand, Reachable
    <3>2. ASSUME cli[a].conn # NoConn
          PROVE  /\ conn'[cli[a].conn].own = a /\ conn'[cli[a].conn].pos # "free"
                 /\ Ungreeted(cli[a].conn)' => cli[a].got = conn'[cli[a].conn].hello.out
      <4>1. PICK c \in Conns : c = cli[a].conn
        BY <1>1, <3>2 DEF TypeOK, ProgramsOK, Program
      <4>2. /\ conn[c].own = a /\ conn[c].pos # "free"
            /\ Ungreeted(c) => cli[a].got = conn[c].hello.out
        BY <3>2, <4>1 DEF Transcript, ProgramsStand
      <4>3. Ungreeted(cli[a].conn)' => Ungreeted(c)
        BY <1>1, <1>10, <4>1 DEF Ungreeted
      <4> QED  BY <1>10, <4>1, <4>2, <4>3
    <3> QED  BY <1>1, <3>1, <3>2
  <2> QED  BY <2>1, <2>2 DEF ProgramsStand, Reachable
<1>12. ProgramsFollow'
  <2> SUFFICES ASSUME NEW a \in Clients, NEW c \in Conns, cli[a].conn = c, conn'[c].peer # "gone"
               PROVE  /\ Chained(Words(conn'[c]), cli[a].got, conn'[c].hello.out > MaxOut)
                      /\ c = client' => StandsAt(Words(conn'[c]), cli[a].got, att'.sent)
    BY <1>1 DEF ProgramsFollow, Using
  <2>1. CASE c = pending
    <3>1. cli[a].got = h.out
      BY <1>1, <2>1 DEF Transcript, ProgramsStand, Ungreeted
    <3> QED  BY <1>1, <1>4, <1>7, <2>1, <3>1 DEF l
  <2>2. CASE c # pending
    <3>1. /\ conn[c] \in Connection /\ conn'[c] \in Connection /\ Tells(conn[c], conn'[c])
          /\ Using(a, c) /\ conn'[c].hello = conn[c].hello
      BY <1>1, <1>5, <2>2 DEF Using, Tells
    <3>2. PICK n : Echo(Words(conn[c]), Words(conn'[c]), n)
      BY <3>1 DEF Tells
    <3>3. Words(conn[c]) \in Seq(ServerFrame) /\ Words(conn'[c]) \in Seq(ServerFrame)
      BY <3>1, WordsAreFrames
    <3>4. Chained(Words(conn'[c]), cli[a].got, conn[c].hello.out > MaxOut)
      BY <3>1, <3>2, <3>3, EchoSays DEF Transcript, ProgramsFollow
    <3> QED  BY <1>1, <2>2, <3>1, <3>4
  <2> QED  BY <2>1, <2>2
<1> QED  BY <1>8, <1>9, <1>11, <1>12 DEF Transcript

-----------------------------------------------------------------------------
(* A connection that is dialled, and what a client reads *)

Dialled(c, who, hello, up) ==
  /\ conn[c].pos = "free" /\ Dial(c, who, hello, up) /\ Reachable(hello.out)
  /\ \A b \in Clients :
       \/ cli'[b] = cli[b]
       \/ who = b /\ cli'[b].conn = c /\ cli'[b].got = hello.out
  /\ UNCHANGED <<client, pending, att, base, end, closed>>

LEMMA DialsAreDialled ==
  ASSUME IInv, Transcript, Probe \/ \E a \in Clients : Connect(a)
  PROVE  \E c \in Conns : \E who, hello, up : Dialled(c, who, hello, up)
<1>1. \A c \in Oldest(Unused) : c \in Conns /\ conn[c].pos = "free"
  BY DEF Oldest, Unused
<1>2. end \in Nat /\ MaxOut \in Nat /\ cli \in [Clients -> Program]
  BY BoundsAssumption DEF IInv, TypeOK, StreamsOK, ProgramsOK
<1>3. CASE Probe
  <2>1. PICK c \in Oldest(Unused) : Dial(c, Prober, FreeConn.hello, <<>>)
    BY <1>3 DEF Probe
  <2>2. UNCHANGED <<cli, client, pending, att, base, end, closed>>
    BY <1>3 DEF Probe, Unasked, daemonVars, attVars, ringVars, termVars
  <2>3. Reachable(FreeConn.hello.out)
    BY <1>2 DEF Reachable, FreeConn
  <2>4. Dialled(c, Prober, FreeConn.hello, <<>>)
    BY <1>1, <2>1, <2>2, <2>3 DEF Dialled
  <2> QED  BY <1>1, <2>4
<1>4. ASSUME NEW a \in Clients, Connect(a)
      PROVE  \E c \in Conns : \E who, hello, up : Dialled(c, who, hello, up)
  <2>1. PICK c \in Oldest(Unused), kind \in HelloKinds, w \in Sizes, p \in {cli[a], NewProgram} :
          \E replay \in Replays(p) :
            LET out == IF kind = "ahead" THEN MaxOut + 1 ELSE p.got IN
            /\ Dial(c, a, [out |-> out, kind |-> kind, win |-> w],
                    <<CF(IF kind = "bad" THEN "Bad" ELSE "Hello")>> \o replay)
            /\ cli' = [cli EXCEPT ![a] = [p EXCEPT !.conn = c, !.live = FALSE, !.got = out]]
    BY <1>4 DEF Connect
  <2> DEFINE out == IF kind = "ahead" THEN MaxOut + 1 ELSE p.got
             hello == [out |-> out, kind |-> kind, win |-> w]
             q == [p EXCEPT !.conn = c, !.live = FALSE, !.got = out]
  <2>2. PICK up : Dial(c, a, hello, up)
    BY <2>1
  <2>3. cli' = [cli EXCEPT ![a] = q]
    BY <2>1
  <2>4. UNCHANGED <<client, pending, att, base, end, closed>>
    BY <1>4 DEF Connect, Outside, daemonVars, attVars, ringVars, termVars
  <2>5. p \in Program
    <3>1. NewProgram \in Program
      BY DEF NewProgram, Program, RESUME_FROM_START
    <3>2. cli[a] \in Program
      BY <1>2
    <3> QED  BY <3>1, <3>2
  <2>6. q.conn = c /\ q.got = out /\ hello.out = out
    BY <2>5 DEF Program
  <2>7. Reachable(p.got)
    <3>1. CASE p = cli[a]
      BY <3>1 DEF Transcript, ProgramsStand
    <3>2. CASE p = NewProgram
      BY <1>2, <3>2 DEF NewProgram, RESUME_FROM_START, Reachable
    <3> QED  BY <2>1, <3>1, <3>2
  <2>8. Reachable(out)
    BY <1>2, <2>7 DEF Reachable
  <2> HIDE DEF hello, q, out
  <2>9. \A b \in Clients : cli'[b] = IF b = a THEN q ELSE cli[b]
    BY <1>2, <2>3
  <2>10. Dialled(c, a, hello, up)
    BY <1>1, <2>2, <2>4, <2>6, <2>8, <2>9 DEF Dialled
  <2> QED  BY <1>1, <2>10
<1> QED  BY <1>3, <1>4

LEMMA DialKeepsTheTranscript ==
  ASSUME IInv, IInv', Transcript, TerminalIsRead',
         NEW c \in Conns, NEW who, NEW hello, NEW up, Dialled(c, who, hello, up)
  PROVE  Transcript'
<1> DEFINE l == conn'[c]
<1>1. /\ TypeOK /\ conn \in [Conns -> Connection] /\ conn[c].pos = "free"
      /\ UNCHANGED <<client, pending, att, base, end, closed>>
      /\ c # client /\ c # pending /\ c # NoConn
  BY DEF IInv, TypeOK, ConnectionsOK, NoConnectionLeaks, Dialled, Conns, NoConn
<1>2. /\ l.own = who /\ l.pos = "backlog" /\ l.hello = hello /\ l.tx = <<>> /\ l.down = <<>>
      /\ \A d \in Conns : d # c => conn'[d] = conn[d]
  BY <1>1 DEF Dialled, Dial, FreeConn
<1>3. Words(l) = <<>>
  <2>1. <<>> \o <<>> = <<>>
    BY EmptySeq, ConcatEmptySeq
  <2> QED  BY <1>2, <2>1 DEF Words
<1>4. \A b \in Clients : \/ cli'[b] = cli[b]
                         \/ who = b /\ cli'[b].conn = c /\ cli'[b].got = hello.out
  BY DEF Dialled
<1>5. \A b \in Clients : cli[b].conn # c
  BY <1>1 DEF Transcript, ProgramsStand
<1> HIDE DEF l
<1>6. \A x, ahead : /\ Chained(Words(l), x, ahead) /\ IsWithin(Words(l), end)
                    /\ ~HasExit(Words(l))
  BY <1>3, NoFrame
<1>7. SaidIsTrue'
  <2> SUFFICES ASSUME NEW d \in Conns
               PROVE  /\ Ungreeted(d)' => Words(conn'[d]) = <<>>
                      /\ IsTrue(Words(conn'[d]), end', closed')
    BY DEF SaidIsTrue
  <2>1. CASE d = c
    BY <1>1, <1>3, <1>6, <2>1, NoExitIsLast DEF IsTrue, l
  <2>2. CASE d # c
    <3>1. conn'[d] = conn[d]
      BY <1>2, <2>2
    <3>2. Ungreeted(d)' <=> Ungreeted(d)
      BY <1>1, <3>1 DEF Ungreeted
    <3> QED  BY <1>1, <3>1, <3>2 DEF Transcript, SaidIsTrue
  <2> QED  BY <2>1, <2>2
<1>8. ClientIsFollowed'
  <2> SUFFICES ASSUME client # NoConn
               PROVE  /\ att'.sent <= end' /\ StandsAt(Words(conn'[client]), att'.sent, att'.sent)
                      /\ HasExit(Words(conn'[client])) => att'.endSent
                      /\ att'.endSent => closed' /\ att'.sent = end'
    BY <1>1 DEF ClientIsFollowed
  <2>1. conn'[client] = conn[client]
    BY <1>1, <1>2 DEF TypeOK, ConnectionsOK
  <2> QED  BY <1>1, <2>1 DEF Transcript, ClientIsFollowed
<1>9. ProgramsStand'
  <2>1. ASSUME NEW d \in Conns
        PROVE  conn'[d].hello.out <= end' \/ conn'[d].hello.out > MaxOut
    <3>1. CASE d = c
      BY <1>1, <1>2, <3>1 DEF Dialled, Reachable, l
    <3>2. CASE d # c
      BY <1>1, <1>2, <3>2 DEF Transcript, ProgramsStand, Reachable
    <3> QED  BY <3>1, <3>2
  <2>2. ASSUME NEW b \in Clients
        PROVE  /\ cli'[b].got <= end' \/ cli'[b].got > MaxOut
               /\ cli'[b].conn # NoConn =>
                    /\ conn'[cli'[b].conn].own = b /\ conn'[cli'[b].conn].pos # "free"
                    /\ (conn'[cli'[b].conn].pos \in {"free", "backlog"} \/ cli'[b].conn = pending') =>
                         cli'[b].got = conn'[cli'[b].conn].hello.out
    <3>1. CASE cli'[b] = cli[b]
      <4>1. cli[b].conn # NoConn => cli[b].conn \in Conns /\ conn'[cli[b].conn] = conn[cli[b].conn]
        BY <1>1, <1>2, <1>5 DEF TypeOK, ProgramsOK, Program
      <4>2. cli[b].got <= end \/ cli[b].got > MaxOut
        BY DEF Transcript, ProgramsStand, Reachable
      <4>3. cli[b].conn # NoConn =>
              /\ conn[cli[b].conn].own = b /\ conn[cli[b].conn].pos # "free"
              /\ (conn[cli[b].conn].pos \in {"free", "backlog"} \/ cli[b].conn = pending) =>
                   cli[b].got = conn[cli[b].conn].hello.out
        BY DEF Transcript, ProgramsStand, Ungreeted
      <4> QED  BY <1>1, <3>1, <4>1, <4>2, <4>3
    <3>2. CASE who = b /\ cli'[b].conn = c /\ cli'[b].got = hello.out
      BY <1>1, <1>2, <3>2 DEF Dialled, Reachable, l
    <3> QED  BY <1>4, <3>1, <3>2
  <2> QED  BY <2>1, <2>2 DEF ProgramsStand, Reachable, Ungreeted
<1>10. ProgramsFollow'
  <2> SUFFICES ASSUME NEW b \in Clients, NEW d \in Conns, cli'[b].conn = d, conn'[d].peer # "gone"
               PROVE  /\ Chained(Words(conn'[d]), cli'[b].got, conn'[d].hello.out > MaxOut)
                      /\ d = client' => StandsAt(Words(conn'[d]), cli'[b].got, att'.sent)
    BY DEF ProgramsFollow, Using
  <2>1. CASE d = c
    BY <1>1, <1>6, <2>1 DEF l
  <2>2. CASE d # c
    <3>1. conn'[d] = conn[d] /\ cli'[b] = cli[b]
      BY <1>2, <1>4, <2>2
    <3>2. Using(b, d)
      BY <3>1 DEF Using
    <3> QED  BY <1>1, <3>1, <3>2 DEF Transcript, ProgramsFollow
  <2> QED  BY <2>1, <2>2
<1> QED  BY <1>7, <1>8, <1>9, <1>10 DEF Transcript

LEMMA TheRestIsTrue ==
  ASSUME NEW s, NEW t, NEW u, Joins(s, t, u), NEW e, NEW isOver, IsTrue(u, e, isOver)
  PROVE  IsTrue(t, e, isOver) /\ (HasExit(t) => HasExit(u))
<1> DEFINE n == Len(s)
<1>1. /\ n \in Nat /\ Len(t) \in Nat /\ Len(u) = n + Len(t)
      /\ \A i \in 1 .. Len(t) : u[n + i] = t[i]
  BY DEF Joins
<1> HIDE DEF n
<1>2. \A i \in 1 .. Len(t) : n + i \in 1 .. Len(u)
  BY <1>1
<1>3. IsWithin(t, e)
  BY <1>1, <1>2 DEF IsTrue, IsWithin
<1>4. HasExit(t) => HasExit(u)
  BY <1>1, <1>2 DEF HasExit
<1>5. ASSUME NEW i \in 1 .. Len(t), t[i].type = "Exit"
      PROVE  /\ t[i].at = e
             /\ \A j \in i + 1 .. Len(t) : ~Positional(t[j])
             /\ \A y \in Places(e, t, i) : y = e
  <2>1. /\ u[n + i].at = e
        /\ \A j \in n + i + 1 .. Len(u) : ~Positional(u[j])
        /\ \A y \in Places(e, u, n + i) : y = e
    <3>1. n + i \in 1 .. Len(u) /\ u[n + i].type = "Exit"
      BY <1>1, <1>2, <1>5
    <3> QED  BY <3>1 DEF IsTrue, ExitIsLast
  <2>2. ASSUME NEW j \in i + 1 .. Len(t) PROVE ~Positional(t[j])
    <3>1. n + j \in n + i + 1 .. Len(u) /\ u[n + j] = t[j]
      BY <1>1
    <3> QED  BY <2>1, <3>1
  <2>3. ASSUME NEW y \in Places(e, t, i) PROVE y = e
    <3>1. i \in Nat /\ n + i \in Nat
      BY <1>1
    <3>2. ASSUME NEW j \in 1 .. i, Positional(t[j]), y = After(t[j]),
                 \A k \in j + 1 .. i : ~Positional(t[k])
          PROVE  y = e
      <4>1. n + j \in 1 .. n + i /\ u[n + j] = t[j]
        <5>1. j \in 1 .. Len(t) /\ n + j \in 1 .. n + i
          BY <1>1
        <5> QED  BY <1>1, <5>1
      <4>2. ASSUME NEW k \in n + j + 1 .. n + i PROVE ~Positional(u[k])
        <5>1. k - n \in j + 1 .. i /\ k - n \in 1 .. Len(t) /\ n + (k - n) = k
          BY <1>1
        <5> QED  BY <1>1, <3>2, <5>1
      <4>3. y \in Places(e, u, n + i)
        BY <3>1, <3>2, <4>1, <4>2, PlaceIs
      <4> QED  BY <2>1, <4>3
    <3> QED  BY <2>3, <3>1, <3>2, PlaceIs
  <2> QED  BY <2>1, <2>2, <2>3, <1>1, <1>2, <1>5
<1>6. ExitIsLast(t, e)
  BY <1>5 DEF ExitIsLast
<1> QED  BY <1>3, <1>4, <1>6 DEF IsTrue

(* What a program holds after it read is where it stands after the frames   *)
(* its socket held.                                                         *)
LEMMA ReadingMoves ==
  ASSUME TypeOK, NEW a \in Clients, ClientRead(a)
  PROVE  /\ cli[a].conn \in Conns /\ conn[cli[a].conn].peer # "gone"
         /\ conn[cli[a].conn].down # <<>>
         /\ conn' = [conn EXCEPT ![cli[a].conn].down = <<>>]
         /\ cli'[a].conn = cli[a].conn
         /\ cli'[a].got \in Places(cli[a].got, conn[cli[a].conn].down,
                                   Len(conn[cli[a].conn].down))
         /\ \A b \in Clients : b # a => cli'[b] = cli[b]
         /\ UNCHANGED <<client, pending, att, base, end, closed>>
<1> DEFINE c == cli[a].conn
           s == conn[c].down
           P == {i \in DOMAIN s : Positional(s[i])}
           positions == LastOf(P)
<1>1. c \in Conns /\ conn[c].peer # "gone" /\ s # <<>> /\ cli \in [Clients -> Program]
  BY DEF TypeOK, ProgramsOK, Program, ClientRead
<1>2. conn' = [conn EXCEPT ![c].down = <<>>]
  BY DEF ClientRead
<1>3. UNCHANGED <<client, pending, att, base, end, closed>>
  BY DEF ClientRead, Outside, daemonVars, attVars, ringVars, termVars
<1>4. PICK got \in IF positions = {} THEN {cli[a].got} ELSE {After(s[i]) : i \in positions} :
        \E acked : cli' = [cli EXCEPT ![a] =
                     Informed(@, got, acked, \E i \in DOMAIN s : s[i].type = "HelloOk")]
  BY Zenon DEF ClientRead
<1>5. PICK acked, greeted : cli' = [cli EXCEPT ![a] = Informed(@, got, acked, greeted)]
  BY <1>4, Zenon
<1>6. cli'[a].conn = c /\ cli'[a].got = got /\ \A b \in Clients : b # a => cli'[b] = cli[b]
  BY <1>1, <1>5 DEF Informed, Program
<1>7. s \in Seq(ServerFrame) /\ Len(s) \in Nat /\ DOMAIN s = 1 .. Len(s)
  BY <1>1, LenProperties DEF TypeOK, ConnectionsOK, Connection
<1>8. got \in Places(cli[a].got, s, Len(s))
  <2> DEFINE n == Len(s)
             o == cli[a].got
  <2>1. got \in IF positions = {} THEN {o} ELSE {After(s[i]) : i \in positions}
    BY <1>4
  <2>2. \A i \in positions : i \in P /\ \A j \in P : j <= i
    BY DEF LastOf
  <2>3. \A i : i \in P <=> i \in 1 .. n /\ Positional(s[i])
    BY <1>7
  <2>4. n \in Nat
    BY <1>7
  <2>5. positions = LastOf({i \in 1 .. n : Positional(s[i])})
    BY <1>7
  <2>6. P = {i \in 1 .. n : Positional(s[i])}
    BY <1>7
  <2>7. P # {} => positions # {}
    BY <2>4, <2>6, LastIsThere
  <2>8. P = {} => positions = {}
    BY <2>2
  <2> QED  BY <2>1, <2>6, <2>7, <2>8 DEF Places
<1> QED  BY <1>1, <1>2, <1>3, <1>6, <1>8

LEMMA ReadingKeepsTheTranscript ==
  ASSUME IInv, Transcript, TerminalIsRead', NEW a \in Clients, ClientRead(a)
  PROVE  Transcript'
<1> DEFINE c == cli[a].conn
           s == conn[c].down
           t == conn[c].tx
           u == Words(conn[c])
           l == conn'[c]
           z == cli'[a].got
<1>1. /\ TypeOK /\ conn \in [Conns -> Connection]
      /\ UNCHANGED <<client, pending, att, base, end, closed>>
      /\ c \in Conns /\ c # NoConn /\ conn[c].peer # "gone" /\ s # <<>>
      /\ conn' = [conn EXCEPT ![c].down = <<>>] /\ conn[c] \in Connection
      /\ cli'[a].conn = c /\ \A b \in Clients : b # a => cli'[b] = cli[b]
      /\ z \in Places(cli[a].got, s, Len(s))
  BY ReadingMoves DEF IInv, TypeOK, ConnectionsOK, Conns, NoConn
<1>2. s \in Seq(ServerFrame) /\ t \in Seq(ServerFrame) /\ Len(s) \in Nat
  BY <1>1, WordsAreFrames, LenProperties
<1>3. u = s \o t
  BY DEF Words
<1>4. /\ l.own = conn[c].own /\ l.pos = conn[c].pos /\ l.hello = conn[c].hello
      /\ l.peer = conn[c].peer /\ l.tx = t /\ l.down = <<>>
      /\ \A d \in Conns : d # c => conn'[d] = conn[d]
  BY <1>1 DEF Connection
<1>5. Words(l) = t
  BY <1>2, <1>4, ConcatEmptySeq DEF Words
<1>6. /\ conn[c].own = a /\ ~Ungreeted(c) /\ u # <<>> /\ conn[c].pos # "free"
      /\ \A b \in Clients : cli[b].conn = c => b = a
  <2>1. u # <<>>
    <3>1. Len(u) = Len(s) + Len(t) /\ Len(t) \in Nat /\ Len(s) # 0
      BY SMTT(30), <1>1, <1>2, <1>3, ConcatProperties, LenProperties, EmptySeq
    <3> HIDE DEF u, s, t
    <3>2. Len(u) # 0
      BY <1>2, <3>1
    <3> QED  BY <3>2, EmptySeq
  <2>2. conn[c].own = a /\ conn[c].pos # "free"
    BY <1>1 DEF Transcript, ProgramsStand
  <2>3. \A b \in Clients : cli[b].conn = c => conn[c].own = b
    BY <1>1 DEF Transcript, ProgramsStand
  <2> QED  BY <1>1, <2>1, <2>2, <2>3 DEF Transcript, SaidIsTrue
<1>7. Joins(s, t, u)
  BY <1>2, <1>3, ConcatJoins
<1>8. /\ IsTrue(u, end, closed)
      /\ Chained(u, cli[a].got, conn[c].hello.out > MaxOut)
      /\ c = client => StandsAt(u, cli[a].got, att.sent)
  BY <1>1 DEF Transcript, SaidIsTrue, ProgramsFollow, Using
<1> HIDE DEF u, t, s, l, z, c
<1>9. /\ Chained(t, z, conn[c].hello.out > MaxOut)
      /\ c = client => StandsAt(t, z, att.sent)
  BY <1>1, <1>7, <1>8, TheRestIsHeard
<1>10. IsTrue(t, end, closed) /\ (HasExit(t) => HasExit(u))
  BY <1>7, <1>8, TheRestIsTrue
<1>11. \A d \in Conns : Ungreeted(d)' => Ungreeted(d) /\ d # c
  BY <1>1, <1>4, <1>6 DEF Ungreeted, l
<1>12. SaidIsTrue'
  <2> SUFFICES ASSUME NEW d \in Conns
               PROVE  /\ Ungreeted(d)' => Words(conn'[d]) = <<>>
                      /\ IsTrue(Words(conn'[d]), end', closed')
    BY DEF SaidIsTrue
  <2>1. CASE d = c
    BY <1>1, <1>5, <1>10, <1>11, <2>1 DEF l
  <2>2. CASE d # c
    BY <1>1, <1>4, <1>11, <2>2 DEF Transcript, SaidIsTrue
  <2> QED  BY <2>1, <2>2
<1>13. ClientIsFollowed'
  <2> SUFFICES ASSUME client # NoConn
               PROVE  /\ att'.sent <= end' /\ StandsAt(Words(conn'[client]), att'.sent, att'.sent)
                      /\ HasExit(Words(conn'[client])) => att'.endSent
                      /\ att'.endSent => closed' /\ att'.sent = end'
    BY <1>1 DEF ClientIsFollowed
  <2>1. /\ att.sent <= end /\ StandsAt(Words(conn[client]), att.sent, att.sent)
        /\ HasExit(Words(conn[client])) => att.endSent
        /\ att.endSent => closed /\ att.sent = end
    BY DEF Transcript, ClientIsFollowed
  <2>2. CASE client = c
    <3>1. StandsAt(t, att.sent, att.sent)
      BY <1>2, <1>9, <2>2, StandsAnyway, LenProperties
    <3>2. Words(conn'[client]) = t /\ Words(conn[client]) = u
      BY <1>5, <2>2 DEF l, u
    <3> QED  BY <1>1, <1>10, <2>1, <3>1, <3>2
  <2>3. CASE client # c
    BY <1>1, <1>4, <2>1, <2>3 DEF TypeOK, ConnectionsOK
  <2> QED  BY <2>2, <2>3
<1>14. z <= end \/ z > MaxOut
  <2>1. \/ z = cli[a].got
        \/ \E j \in 1 .. Len(s) : Positional(s[j]) /\ z = After(s[j])
    BY <1>1, <1>2, PlaceIs
  <2>2. ASSUME NEW j \in 1 .. Len(s), Positional(s[j]) PROVE After(s[j]) <= end
    <3>1. j \in 1 .. Len(u) /\ u[j] = s[j]
      BY <1>7 DEF Joins
    <3> QED  BY <1>8, <2>2, <3>1 DEF IsTrue, IsWithin
  <2> QED  BY <2>1, <2>2 DEF Transcript, ProgramsStand, Reachable
<1>15. ProgramsStand'
  <2>1. \A d \in Conns : conn'[d].hello.out <= end' \/ conn'[d].hello.out > MaxOut
    BY <1>1, <1>4 DEF Transcript, ProgramsStand, Reachable, l
  <2>2. ASSUME NEW b \in Clients
        PROVE  /\ cli'[b].got <= end' \/ cli'[b].got > MaxOut
               /\ cli'[b].conn # NoConn =>
                    /\ conn'[cli'[b].conn].own = b /\ conn'[cli'[b].conn].pos # "free"
                    /\ (conn'[cli'[b].conn].pos \in {"free", "backlog"} \/ cli'[b].conn = pending') =>
                         cli'[b].got = conn'[cli'[b].conn].hello.out
    <3>1. CASE b = a
      BY <1>1, <1>4, <1>6, <1>14, <3>1 DEF Ungreeted, l, z
    <3>2. CASE b # a
      <4>1. cli'[b] = cli[b] /\ cli[b].conn # c
        BY <1>1, <1>6, <3>2
      <4>2. cli[b].conn # NoConn => cli[b].conn \in Conns /\ conn'[cli[b].conn] = conn[cli[b].conn]
        BY <1>1, <1>4, <4>1 DEF TypeOK, ProgramsOK, Program
      <4>3. cli[b].got <= end \/ cli[b].got > MaxOut
        BY DEF Transcript, ProgramsStand, Reachable
      <4>4. cli[b].conn # NoConn =>
              /\ conn[cli[b].conn].own = b /\ conn[cli[b].conn].pos # "free"
              /\ (conn[cli[b].conn].pos \in {"free", "backlog"} \/ cli[b].conn = pending) =>
                   cli[b].got = conn[cli[b].conn].hello.out
        BY DEF Transcript, ProgramsStand, Ungreeted
      <4> QED  BY <1>1, <4>1, <4>2, <4>3, <4>4
    <3> QED  BY <3>1, <3>2
  <2> QED  BY <2>1, <2>2 DEF ProgramsStand, Reachable, Ungreeted
<1>16. ProgramsFollow'
  <2> SUFFICES ASSUME NEW b \in Clients, NEW d \in Conns, cli'[b].conn = d, conn'[d].peer # "gone"
               PROVE  /\ Chained(Words(conn'[d]), cli'[b].got, conn'[d].hello.out > MaxOut)
                      /\ d = client' => StandsAt(Words(conn'[d]), cli'[b].got, att'.sent)
    BY DEF ProgramsFollow, Using
  <2>1. CASE d = c
    <3>1. b = a
      BY <1>1, <1>6, <2>1
    <3>2. Words(conn'[d]) = t /\ cli'[b].got = z /\ conn'[d].hello = conn[c].hello
      BY <1>4, <1>5, <2>1, <3>1 DEF l, z
    <3> QED  BY <1>1, <1>9, <2>1, <3>2
  <2>2. CASE d # c
    <3>1. conn'[d] = conn[d] /\ b # a /\ cli'[b] = cli[b]
      BY <1>1, <1>4, <2>2
    <3>2. Using(b, d)
      BY <3>1 DEF Using
    <3> QED  BY <1>1, <3>1, <3>2 DEF Transcript, ProgramsFollow
  <2> QED  BY <2>1, <2>2
<1> QED  BY <1>12, <1>13, <1>15, <1>16 DEF Transcript

-----------------------------------------------------------------------------
(* What is said of the output is true *)

LEMMA StepsKeepTheTranscript ==
  ASSUME IInv, IInv', Transcript, [Next]_vars
  PROVE  Transcript'
<1>1. TerminalIsRead' /\ OutputGrows
  BY StepsReadTheTerminal DEF Transcript
<1>2. CASE Ordinary
  BY <1>1, <1>2, OrdinaryKeepsTheTranscript
<1>3. CASE PumpOutput
  BY <1>1, <1>3, PumpKeepsTheTranscript
<1>4. CASE Greet
  <2>1. CASE pending \in Conns /\ \E cn \in Evictions : Promoted(cn)
    BY <1>1, <2>1, PromotedKeepsTheTranscript
  <2> QED  BY <1>2, <1>4, <2>1, GreetPromotes
<1>5. CASE Probe \/ \E a \in Clients : Connect(a)
  <2>1. PICK c \in Conns : \E who, hello, up : Dialled(c, who, hello, up)
    BY <1>5, DialsAreDialled
  <2> QED  BY <1>1, <2>1, DialKeepsTheTranscript
<1>6. CASE \E a \in Clients : ClientRead(a)
  BY <1>1, <1>6, ReadingKeepsTheTranscript
<1>7. CASE \/ Poll \/ EndPass \/ Shutdown
           \/ ReadPty \/ HangUp \/ ApplyWin \/ WritePty \/ CollectOutcome
           \/ ReadClient \/ Decode \/ DecodeEnds
           \/ Accept \/ ReadPending \/ WriteClient
  BY <1>2, <1>7, IdleHandlersAreOrdinary, EndPassIsOrdinary, ShutdownIsOrdinary,
     LosingTheClientIsOrdinary, ReadClientIsOrdinary, WriteClientIsOrdinary, AcceptIsOrdinary,
     DecodeIsOrdinary, ReadPendingIsOrdinary
<1>8. CASE \/ ShellStep \/ Tick \/ SigTerm \/ PollFails \/ UNCHANGED vars
           \/ \E c \in Conns : HangsUp(c)
           \/ \E a \in Clients : Type(a) \/ Say(a)
  BY <1>2, <1>8, WorldIsOrdinary
<1> QED  BY <1>3, <1>4, <1>5, <1>6, <1>7, <1>8 DEF Next, DaemonStep, ClientStep

LEMMA TranscriptStarts ==
  ASSUME IInv, Init
  PROVE  Transcript
<1>1. /\ base = 0 /\ end = 0 /\ ~closed /\ client = NoConn /\ pending = NoConn
      /\ MaxOut \in Nat
      /\ \A a \in Clients : cli[a].conn = NoConn /\ cli[a].got = RESUME_FROM_START
      /\ \A c \in Conns : conn[c] = FreeConn
  BY BoundsAssumption DEF Init, NewProgram
<1>2. Words(FreeConn) = <<>> /\ FreeConn.hello.out = 0
  BY EmptySeq, ConcatEmptySeq DEF Words, FreeConn
<1>3. TerminalIsRead
  BY <1>1 DEF TerminalIsRead
<1>4. SaidIsTrue
  <2> SUFFICES ASSUME NEW c \in Conns
               PROVE  Words(conn[c]) = <<>> /\ IsTrue(Words(conn[c]), end, closed)
    BY DEF SaidIsTrue
  <2>1. Words(conn[c]) = <<>>
    BY <1>1, <1>2
  <2>2. IsWithin(<<>>, end) /\ ~HasExit(<<>>)
    BY NoFrame
  <2> QED  BY <2>1, <2>2, NoExitIsLast DEF IsTrue
<1>5. ClientIsFollowed
  BY <1>1 DEF ClientIsFollowed
<1>6. ProgramsStand
  BY <1>1, <1>2 DEF ProgramsStand, Reachable, RESUME_FROM_START
<1>7. ProgramsFollow
  BY <1>1 DEF ProgramsFollow, Using, Conns, NoConn
<1> QED  BY <1>3, <1>4, <1>5, <1>6, <1>7 DEF Transcript

(* What is being said to anyone is true of the output.                      *)
LEMMA TranscriptIsTrue == Spec => [](IInv /\ Transcript)
<1>1. Init /\ IInv => Transcript
  BY TranscriptStarts
<1>2. IInv /\ IInv' /\ Transcript /\ [Next]_vars => Transcript'
  BY StepsKeepTheTranscript
<1> QED  BY <1>1, <1>2, InductiveInvariant, PTL DEF Spec

LEMMA TranscriptIsContiguous ==
  ASSUME IInv, Transcript
  PROVE  StreamIsContiguous
<1> SUFFICES ASSUME NEW a \in Clients, NEW c \in Conns, Using(a, c)
             PROVE  LET s == Words(conn[c]) IN
                    /\ \A i \in DOMAIN s : \A place \in Places(cli[a].got, s, i - 1) :
                         /\ s[i].type = "Output" => s[i].at = place
                         /\ s[i].type = "Gap" => s[i].at > place
                         /\ Positional(s[i]) /\ s[i].at < place => conn[c].hello.out > MaxOut
                    /\ c = client => /\ Places(cli[a].got, s, Len(s)) = {att.sent}
                                     /\ att.sent <= end
  BY DEF StreamIsContiguous
<1> DEFINE s == Words(conn[c])
           x == cli[a].got
<1>1. s \in Seq(ServerFrame) /\ Len(s) \in Nat /\ DOMAIN s = 1 .. Len(s)
  BY WordsAreFrames, LenProperties DEF IInv, TypeOK, ConnectionsOK
<1>2. /\ Chained(s, x, conn[c].hello.out > MaxOut)
      /\ c = client => StandsAt(s, x, att.sent)
  BY DEF Transcript, ProgramsFollow
<1>3. c = client => att.sent <= end
  BY DEF Transcript, ClientIsFollowed, Conns, NoConn
<1> HIDE DEF s, x
<1>4. c = client => Places(x, s, Len(s)) = {att.sent}
  BY <1>1, <1>2, PlaceIsThere DEF StandsAt
<1>5. \A i \in DOMAIN s : \A place \in Places(x, s, i - 1) :
        /\ s[i].type = "Output" => s[i].at = place
        /\ s[i].type = "Gap" => s[i].at > place
        /\ Positional(s[i]) /\ s[i].at < place => conn[c].hello.out > MaxOut
  BY <1>1, <1>2 DEF Chained, Continues
<1> QED  BY <1>3, <1>4, <1>5 DEF s, x

LEMMA TranscriptEndsTrue ==
  ASSUME IInv, Transcript
  PROVE  ExitEndsTheTranscript
<1> SUFFICES ASSUME NEW c \in Conns, NEW i \in DOMAIN Words(conn[c]),
                    Words(conn[c])[i].type = "Exit"
             PROVE  LET s == Words(conn[c]) IN
                    /\ closed /\ s[i].at = end
                    /\ \A j \in i + 1 .. Len(s) : ~Positional(s[j])
                    /\ \A j \in 1 .. i - 1 : Positional(s[j]) => After(s[j]) <= end
                    /\ \A j \in 1 .. i - 1 : Positional(s[j]) =>
                         After(s[j]) = end \/ \E m \in j + 1 .. i - 1 : Positional(s[m])
  BY DEF ExitEndsTheTranscript
<1> DEFINE s == Words(conn[c])
<1>1. s \in Seq(ServerFrame) /\ Len(s) \in Nat /\ DOMAIN s = 1 .. Len(s)
  BY WordsAreFrames, LenProperties DEF IInv, TypeOK, ConnectionsOK
<1>2. IsTrue(s, end, closed)
  BY DEF Transcript, SaidIsTrue
<1>3. s[i].type = "Exit" /\ i \in DOMAIN s
  OBVIOUS
<1> HIDE DEF s
<1>4. /\ i \in 1 .. Len(s) /\ closed /\ s[i].at = end
      /\ \A j \in i + 1 .. Len(s) : ~Positional(s[j])
      /\ \A y \in Places(end, s, i) : y = end
  BY <1>1, <1>2, <1>3 DEF IsTrue, ExitIsLast, HasExit
<1>5. \A j \in 1 .. i - 1 : Positional(s[j]) => After(s[j]) <= end
  <2> SUFFICES ASSUME NEW j \in 1 .. i - 1, Positional(s[j]) PROVE After(s[j]) <= end
    OBVIOUS
  <2>1. j \in 1 .. Len(s)
    BY <1>1, <1>4
  <2> QED  BY <1>2, <2>1 DEF IsTrue, IsWithin
<1>6. ASSUME NEW j \in 1 .. i - 1, Positional(s[j]), After(s[j]) # end
      PROVE  \E m \in j + 1 .. i - 1 : Positional(s[m])
  <2>1. i \in Nat /\ j \in 1 .. i
    BY <1>1, <1>4
  <2>2. After(s[j]) \notin Places(end, s, i)
    BY <1>4, <1>6
  <2>3. PICK k \in j + 1 .. i : Positional(s[k])
    BY <1>6, <2>1, <2>2, PlaceIs
  <2>4. ~Positional(s[i])
    BY <1>3 DEF Positional
  <2>5. k \in j + 1 .. i - 1
    BY <2>1, <2>3, <2>4
  <2> QED  BY <2>3, <2>5
<1> QED  BY <1>4, <1>5, <1>6 DEF s

(* No silent hole (pump_output, on_hello): along what a client holds, what  *)
(* its socket holds and what is queued for it, every Output begins where    *)
(* the one before ended, only a Gap or the HelloOk moves the place, and the *)
(* queue ends where sent_through says: across takeovers, reads cut short at *)
(* any frame, trims of the ring and a link that dies at any point.          *)
THEOREM DaemonLeavesNoSilentHole == Spec => []StreamIsContiguous
<1>1. IInv /\ Transcript => StreamIsContiguous
  BY TranscriptIsContiguous
<1> QED  BY <1>1, TranscriptIsTrue, PTL

(* An Exit is never early and nothing that moves a place follows it         *)
(* (pump_output, final_flush): it says the end of the output of a terminal  *)
(* that is read out, and everything before it on that connection brought    *)
(* the client there.                                                        *)
THEOREM DaemonExitsAtTheEnd == Spec => []ExitEndsTheTranscript
<1>1. IInv /\ Transcript => ExitEndsTheTranscript
  BY TranscriptEndsTrue
<1> QED  BY <1>1, TranscriptIsTrue, PTL
=============================================================================
