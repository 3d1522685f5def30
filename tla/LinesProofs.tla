----------------------------- MODULE LinesProofs -----------------------------
(****************************************************************************)
(* Proofs about the robot's lines: the parsers of the command lines, the    *)
(* receiver of the IMU and the rings of the Ethernet interface, and the     *)
(* composition of the three.                                                *)
(****************************************************************************)
EXTENDS MCLines, FiniteSetTheorems, TLAPS

(* Proofs about UsartFrame, for every set of frames, every byte that serves  *)
(* as head and every buffer: the index stays within the memory a length byte *)
(* can reach, and a frame that finds the parser idle is handled as sent.     *)

(* While a message is collected its length byte is still to be reached.      *)
LengthAhead ==
  ~done => /\ STA <= LENGTH \/ STA < BUF[LENGTH] + EXTERN_BUFSIZE
           /\ ~busy

(* A whole frame of which a byte is held has just begun, behind a message.   *)
HeldIsHead == (whole /\ DR # NoByte) => at = 1 /\ DR = HEAD /\ done

FrameInv == FrameTypeOK /\ LengthAhead /\ HeldIsHead /\ FrameHandled

Complete(n, buf) == n > LENGTH /\ buf[LENGTH] + EXTERN_BUFSIZE = n

Cells == Bytes \cup {0}
-----------------------------------------------------------------------------
LEMMA FrameConstants ==
  /\ EXTERN_BUFSIZE = 6 /\ LENGTH = 4
  /\ Memory \in Nat /\ Memory >= 6 /\ HEAD \in Bytes
  /\ \A b \in Cells : b \in Nat /\ b + 6 <= Memory
  /\ NoByte \notin Bytes
<1>1. HEAD \in Nat /\ HEAD + 6 <= Memory /\ Memory \in Nat /\ HEAD \in Bytes /\ NoByte \notin Bytes
  BY FrameAssumption DEF EXTERN_BUFSIZE
<1>2. Memory >= 6  BY <1>1
<1>3. \A b \in Bytes : b \in Nat /\ b + 6 <= Memory  BY FrameAssumption DEF EXTERN_BUFSIZE
<1>4. ASSUME NEW b \in Cells PROVE b \in Nat /\ b + 6 <= Memory
  <2>1. CASE b = 0  BY <1>1, <1>2, <2>1
  <2>2. CASE b \in Bytes  BY <1>3, <2>2
  <2> QED  BY <2>1, <2>2 DEF Cells
<1> QED  BY <1>1, <1>2, <1>4 DEF EXTERN_BUFSIZE, LENGTH

LEMMA FrameFacts ==
  ASSUME NEW f \in Frames
  PROVE  /\ f \in Seq(Bytes) /\ Len(f) \in Nat /\ Len(f) >= 6 /\ f[1] = HEAD
         /\ Len(f) = f[5] + 6 /\ f = [i \in 1 .. Len(f) |-> f[i]]
         /\ \A i \in 1 .. Len(f) : f[i] \in Bytes
<1>1. /\ f \in Seq(Bytes) /\ f[1] = HEAD /\ Len(f) > 4 /\ Len(f) = f[5] + 6
  BY FrameAssumption DEF LENGTH, EXTERN_BUFSIZE
<1>2. f[5] \in Bytes  BY <1>1
<1>3. f[5] \in Nat  BY <1>2, FrameConstants DEF Cells
<1> QED  BY <1>1, <1>3

(* Store, in the two cases of its test.                                      *)
LEMMA StoreCases ==
  ASSUME FrameInv, NEW b \in Bytes, ~done, Store(b)
  PROVE  /\ STA \in 0 .. Memory - 1 /\ STA' = STA + 1
         /\ BUF' = [BUF EXCEPT ![STA] = b] /\ BUF' \in [0 .. Memory - 1 -> Cells]
         /\ \/ /\ Complete(STA', BUF') /\ done' = TRUE /\ busy' = TRUE
               /\ msg' = [i \in 1 .. STA' |-> BUF'[i - 1]]
            \/ /\ ~Complete(STA', BUF') /\ done' = FALSE /\ busy' = FALSE /\ msg' = msg
<1> USE FrameConstants
<1>1. /\ BUF \in [0 .. Memory - 1 -> Cells] /\ STA \in 0 .. Memory
  BY DEF FrameInv, FrameTypeOK, Cells
<1>2. STA \in 0 .. Memory - 1
  <2>1. BUF[LENGTH] + 6 <= Memory  BY <1>1
  <2>2. STA <= LENGTH \/ STA < BUF[LENGTH] + EXTERN_BUFSIZE  BY DEF FrameInv, LengthAhead
  <2> QED  BY <1>1, <2>1, <2>2
<1>3. STA' = STA + 1 /\ BUF' = [BUF EXCEPT ![STA] = b]  BY DEF Store
<1>4. BUF' \in [0 .. Memory - 1 -> Cells]  BY <1>1, <1>2, <1>3 DEF Cells
<1>5. /\ done' = Complete(STA', BUF') /\ busy' = Complete(STA', BUF')
      /\ msg' = IF Complete(STA', BUF') THEN [i \in 1 .. STA' |-> BUF'[i - 1]] ELSE msg
  BY <1>3, Zenon DEF Store, Complete
<1>6. CASE Complete(STA', BUF')
  <2>1. done' = TRUE /\ busy' = TRUE  BY <1>5, <1>6, Zenon DEF Complete
  <2> QED  BY <1>2, <1>3, <1>4, <1>5, <1>6, <2>1
<1>7. CASE ~Complete(STA', BUF')
  <2>1. done' = FALSE /\ busy' = FALSE  BY <1>5, <1>7, Zenon DEF Complete
  <2> QED  BY <1>2, <1>3, <1>4, <1>5, <1>7, <2>1
<1> QED  BY <1>6, <1>7

(* What the handler does keeps the parser's part of the invariant.           *)
Parser ==
  /\ STA \in 0 .. Memory /\ done \in BOOLEAN /\ busy \in BOOLEAN
  /\ BUF \in [0 .. Memory - 1 -> Cells] /\ msg \in Seq(Cells)
  /\ LengthAhead

LEMMA HandleKeepsParser ==
  ASSUME FrameInv, NEW b \in Bytes, ~busy, UsartRcvDataHandle(b)
  PROVE  Parser'
<1> USE FrameConstants
<1>0. Parser  BY DEF FrameInv, FrameTypeOK, Parser, Cells
<1>1. CASE done
  <2>1. Start(b)  BY <1>1 DEF UsartRcvDataHandle
  <2>2. CASE b = HEAD
    <3>1. /\ STA' = 1 /\ done' = FALSE /\ BUF' = [BUF EXCEPT ![0] = b]
          /\ busy' = busy /\ msg' = msg
      BY <2>1, <2>2 DEF Start
    <3>2. STA' \in 0 .. Memory /\ BUF' \in [0 .. Memory - 1 -> Cells]
      BY <1>0, <3>1 DEF Parser, Cells
    <3>3. LengthAhead'  BY <3>1 DEF LengthAhead
    <3> QED  BY <1>0, <3>1, <3>2, <3>3 DEF Parser
  <2>3. CASE b # HEAD
    <3>1. UNCHANGED parser  BY <2>1, <2>3 DEF Start
    <3> QED  BY <1>0, <3>1 DEF parser, Parser, LengthAhead
  <2> QED  BY <2>2, <2>3
<1>2. CASE ~done
  <2>1. Store(b)  BY <1>2 DEF UsartRcvDataHandle
  <2>2. /\ STA \in 0 .. Memory - 1 /\ STA' = STA + 1
        /\ BUF' = [BUF EXCEPT ![STA] = b] /\ BUF' \in [0 .. Memory - 1 -> Cells]
        /\ \/ /\ Complete(STA', BUF') /\ done' = TRUE /\ busy' = TRUE
              /\ msg' = [i \in 1 .. STA' |-> BUF'[i - 1]]
           \/ /\ ~Complete(STA', BUF') /\ done' = FALSE /\ busy' = FALSE /\ msg' = msg
    BY <1>2, <2>1, StoreCases
  <2>3. msg' \in Seq(Cells)
    <3>1. ASSUME msg' = [i \in 1 .. STA' |-> BUF'[i - 1]] PROVE msg' \in Seq(Cells)
      <4>1. \A i \in 1 .. STA' : BUF'[i - 1] \in Cells  BY <2>2
      <4>2. STA' \in Nat  BY <2>2
      <4> QED  BY <3>1, <4>1, <4>2
    <3> QED  BY <1>0, <2>2, <3>1 DEF Parser
  <2>4. LengthAhead'
    <3>1. ASSUME ~Complete(STA', BUF'), STA' > LENGTH PROVE STA' < BUF'[LENGTH] + EXTERN_BUFSIZE
      <4>1. BUF'[LENGTH] + EXTERN_BUFSIZE # STA'  BY <3>1 DEF Complete
      <4>2. CASE STA = LENGTH
        <5>1. BUF'[LENGTH] \in Nat  BY <2>2
        <5> QED  BY <2>2, <4>2, <5>1
      <4>3. CASE STA > LENGTH
        <5>1. STA \in 0 .. Memory - 1 /\ STA' = STA + 1 /\ BUF' = [BUF EXCEPT ![STA] = b]
          BY <2>2
        <5>2. BUF \in [0 .. Memory - 1 -> Cells]  BY <1>0 DEF Parser
        <5>3. BUF'[LENGTH] = BUF[LENGTH] /\ BUF[LENGTH] \in Cells  BY <4>3, <5>1, <5>2
        <5>4. BUF[LENGTH] \in Nat  BY <5>3
        <5>5. STA < BUF[LENGTH] + EXTERN_BUFSIZE  BY <1>2, <4>3, <5>1 DEF FrameInv, LengthAhead
        <5> QED  BY <4>1, <5>1, <5>3, <5>4, <5>5
      <4> QED  BY <2>2, <3>1, <4>2, <4>3
    <3> QED  BY <2>2, <3>1 DEF LengthAhead
  <2>5. (done' = TRUE /\ busy' = TRUE) \/ (done' = FALSE /\ busy' = FALSE)  BY <2>2
  <2>6. done' \in BOOLEAN /\ busy' \in BOOLEAN  BY <2>5
  <2>7. STA' \in 0 .. Memory  BY <2>2
  <2> QED  BY <2>2, <2>3, <2>4, <2>6, <2>7 DEF Parser
<1> QED  BY <1>1, <1>2
-----------------------------------------------------------------------------
(* The line keeps its types.                                                 *)
LEMMA SendType ==
  ASSUME FrameInv, NEW b \in Bytes, Send(b)
  PROVE  frame' \in Frames /\ at' \in 1 .. Len(frame') /\ whole' \in BOOLEAN
<1>1. frame \in Frames /\ at \in 1 .. Len(frame)  BY DEF FrameInv, FrameTypeOK
<1>2. ASSUME at < Len(frame), at' = at + 1, frame' = frame
      PROVE  frame' \in Frames /\ at' \in 1 .. Len(frame')
  BY <1>1, <1>2, FrameFacts
<1>3. ASSUME frame' \in Frames, at' = 1
      PROVE  frame' \in Frames /\ at' \in 1 .. Len(frame')
  BY <1>3, FrameFacts
<1>4. whole' \in BOOLEAN  BY DEF Send, Idle
<1> QED  BY <1>2, <1>3, <1>4 DEF Send

(* A byte of a whole frame reaches the parser.                               *)
LEMMA NextByte ==
  ASSUME FrameInv, whole, DR = NoByte, at < Len(frame), ~busy,
         UsartRcvDataHandle(frame[at + 1]), at' = at + 1, UNCHANGED <<frame, DR>>
  PROVE  FrameHandled'
<1> USE FrameConstants
<1>1. /\ frame \in Frames /\ at \in 1 .. Len(frame) /\ frame[at + 1] \in Bytes
      /\ Len(frame) \in Nat /\ Len(frame) >= 6 /\ Len(frame) = frame[5] + 6
      /\ frame = [i \in 1 .. Len(frame) |-> frame[i]]
  BY FrameFacts DEF FrameInv, FrameTypeOK
<1>2. Seen = at /\ Seen' = at + 1  BY DEF Seen
<1>3. /\ ~done /\ STA = at /\ \A i \in 1 .. at : BUF[i - 1] = frame[i]
  BY <1>1, <1>2 DEF FrameInv, FrameHandled
<1>4. Store(frame[at + 1])  BY <1>3 DEF UsartRcvDataHandle
<1>5. /\ STA \in 0 .. Memory - 1 /\ STA' = at + 1 /\ BUF' = [BUF EXCEPT ![at] = frame[at + 1]]
      /\ \/ /\ Complete(STA', BUF') /\ done' = TRUE /\ busy' = TRUE
            /\ msg' = [i \in 1 .. STA' |-> BUF'[i - 1]]
         \/ /\ ~Complete(STA', BUF') /\ done' = FALSE /\ busy' = FALSE /\ msg' = msg
  BY <1>1, <1>3, <1>4, StoreCases
<1>6. BUF \in [0 .. Memory - 1 -> Cells]  BY DEF FrameInv, FrameTypeOK, Cells
<1>7. \A i \in 1 .. at + 1 : BUF'[i - 1] = frame[i]
  BY <1>1, <1>3, <1>5, <1>6
<1>8. Complete(STA', BUF') <=> at + 1 = Len(frame)
  <2>1. CASE at + 1 > 4
    <3>1. BUF'[4] = frame[5]  BY <1>1, <1>7, <2>1
    <3>2. STA' = at + 1 /\ at \in Nat  BY <1>1, <1>5
    <3> QED  BY <1>1, <2>1, <3>1, <3>2 DEF Complete
  <2>2. CASE ~(at + 1 > 4)  BY <1>1, <1>5, <2>2 DEF Complete
  <2> QED  BY <2>1, <2>2
<1>9. CASE at + 1 = Len(frame)
  <2>1. done' /\ msg' = [i \in 1 .. at + 1 |-> BUF'[i - 1]]  BY <1>5, <1>8, <1>9
  <2>2. msg' = frame  BY <1>1, <1>7, <1>9, <2>1
  <2> QED  BY <1>2, <1>9, <2>1, <2>2 DEF FrameHandled
<1>10. CASE at + 1 # Len(frame)
  <2>1. ~done' /\ ~busy' /\ STA' = at + 1  BY <1>5, <1>8, <1>10
  <2> QED  BY <1>2, <1>7, <1>10, <2>1 DEF FrameHandled
<1> QED  BY <1>9, <1>10

(* The head of a frame reaches an idle parser.                               *)
LEMMA FirstByte ==
  ASSUME FrameInv, Idle, ~busy, UsartRcvDataHandle(HEAD),
         frame' \in Frames, at' = 1, DR' = NoByte
  PROVE  FrameHandled'
<1> USE FrameConstants
<1>1. /\ Len(frame') >= 6 /\ frame'[1] = HEAD /\ Len(frame') \in Nat  BY FrameFacts
<1>2. Seen' = 1  BY DEF Seen
<1>3. BUF \in [0 .. Memory - 1 -> Cells]  BY DEF FrameInv, FrameTypeOK, Cells
<1>4. ~done' /\ ~busy' /\ STA' = 1 /\ BUF'[0] = HEAD
  <2>1. CASE done
    BY <1>3, <2>1 DEF UsartRcvDataHandle, Start
  <2>2. CASE ~done
    <3>1. STA = 0 /\ Store(HEAD)  BY <2>2 DEF Idle, UsartRcvDataHandle
    <3>2. /\ STA' = 1 /\ BUF' = [BUF EXCEPT ![0] = HEAD]
          /\ \/ /\ Complete(STA', BUF') /\ done' = TRUE /\ busy' = TRUE
                /\ msg' = [i \in 1 .. STA' |-> BUF'[i - 1]]
             \/ /\ ~Complete(STA', BUF') /\ done' = FALSE /\ busy' = FALSE /\ msg' = msg
      <4>1. /\ STA' = STA + 1 /\ BUF' = [BUF EXCEPT ![STA] = HEAD]
            /\ \/ /\ Complete(STA', BUF') /\ done' = TRUE /\ busy' = TRUE
                  /\ msg' = [i \in 1 .. STA' |-> BUF'[i - 1]]
               \/ /\ ~Complete(STA', BUF') /\ done' = FALSE /\ busy' = FALSE /\ msg' = msg
        BY <2>2, <3>1, StoreCases
      <4> QED  BY <3>1, <4>1
    <3>3. ~Complete(STA', BUF')  BY <3>2 DEF Complete
    <3> QED  BY <1>3, <3>2, <3>3
  <2> QED  BY <2>1, <2>2
<1>5. \A i \in 1 .. Seen' : BUF'[i - 1] = frame'[i]
  <2> TAKE i \in 1 .. Seen'
  <2>1. i = 1 /\ i - 1 = 0  BY <1>2
  <2> QED  BY <1>1, <1>4, <2>1
<1>6. Seen' # Len(frame')
  <2>1. \A n \in Nat : n >= 6 => n # 1  OBVIOUS
  <2> QED  BY <1>1, <1>2, <2>1
<1> QED  BY <1>2, <1>4, <1>5, <1>6 DEF FrameHandled
-----------------------------------------------------------------------------
LEMMA FrameInitInv == FrameInit => FrameInv
<1> SUFFICES ASSUME FrameInit PROVE FrameInv  OBVIOUS
<1> USE FrameConstants
<1>1. FrameTypeOK
  <2>1. BUF \in [0 .. Memory - 1 -> Bytes \cup {0}]  BY DEF FrameInit
  <2>2. dropped \in 0 .. MaxDropped  BY FrameAssumption DEF FrameInit
  <2>3. STA \in 0 .. Memory /\ msg \in Seq(Bytes \cup {0})  BY DEF FrameInit
  <2> QED  BY <2>1, <2>2, <2>3 DEF FrameInit, FrameTypeOK
<1>2. LengthAhead  BY DEF FrameInit, LengthAhead
<1>3. HeldIsHead /\ FrameHandled  BY DEF FrameInit, HeldIsHead, FrameHandled
<1> QED  BY <1>1, <1>2, <1>3 DEF FrameInv

LEMMA BytesAre ==
  ASSUME FrameInv, NEW b \in Bytes, Send(b), Receive(b)
  PROVE  FrameInv'
<1> USE FrameConstants
<1>0. /\ Parser /\ frame \in Frames /\ at \in 1 .. Len(frame) /\ whole \in BOOLEAN
      /\ DR \in Bytes \cup {NoByte} /\ dropped \in 0 .. MaxDropped /\ MaxDropped \in Nat
  BY FrameAssumption DEF FrameInv, FrameTypeOK, Parser, Cells
<1>1. frame' \in Frames /\ at' \in 1 .. Len(frame') /\ whole' \in BOOLEAN  BY SendType
<1>2. CASE ~busy /\ DR = NoByte /\ UsartRcvDataHandle(b) /\ UNCHANGED <<DR, dropped>>
  <2>1. Parser'  BY <1>2, HandleKeepsParser
  <2>2. FrameTypeOK' /\ LengthAhead'
    BY <1>0, <1>1, <1>2, <2>1 DEF Parser, FrameTypeOK, Cells
  <2>3. HeldIsHead'  BY <1>2 DEF HeldIsHead
  <2>4. FrameHandled'
    <3>1. CASE at < Len(frame) /\ b = frame[at + 1] /\ at' = at + 1 /\ UNCHANGED frame
               /\ whole' = (whole /\ DR = NoByte)
      <4>1. CASE whole  BY <1>2, <3>1, <4>1, NextByte
      <4>2. CASE ~whole  BY <3>1, <4>2 DEF FrameHandled
      <4> QED  BY <4>1, <4>2
    <3>2. CASE b = HEAD /\ frame' \in Frames /\ at' = 1 /\ whole' = (Idle /\ DR = NoByte)
      <4>1. CASE Idle
        <5>1. DR' = NoByte  BY <1>2
        <5> QED  BY <1>2, <3>2, <4>1, <5>1, FirstByte
      <4>2. CASE ~Idle  BY <3>2, <4>2 DEF FrameHandled
      <4> QED  BY <4>1, <4>2
    <3> QED  BY <3>1, <3>2 DEF Send
  <2> QED  BY <2>2, <2>3, <2>4 DEF FrameInv
<1>3. CASE busy /\ DR = NoByte /\ DR' = b /\ UNCHANGED <<parser, dropped>>
  <2>1. Parser'  BY <1>0, <1>3 DEF Parser, parser, LengthAhead
  <2>2. FrameTypeOK' /\ LengthAhead'
    BY <1>0, <1>1, <1>3, <2>1 DEF Parser, FrameTypeOK, Cells
  <2>3. done /\ done'  BY <1>3 DEF FrameInv, LengthAhead, parser
  <2>4. CASE at < Len(frame) /\ at' = at + 1 /\ whole' = (whole /\ DR = NoByte)
    <3>1. ~whole
      <4>1. Seen = at /\ Seen # Len(frame) /\ Seen > 0  BY <1>0, <1>3, <2>4 DEF Seen
      <4> QED  BY <1>3, <4>1 DEF FrameInv, FrameHandled
    <3>2. ~whole'  BY <2>4, <3>1
    <3> QED  BY <2>2, <3>2 DEF FrameInv, HeldIsHead, FrameHandled
  <2>5. CASE b = HEAD /\ frame' \in Frames /\ at' = 1
    <3>1. HeldIsHead'  BY <1>3, <2>3, <2>5 DEF HeldIsHead
    <3>2. Seen' = 0 /\ Len(frame') >= 6  BY <1>3, <2>5, FrameFacts DEF Seen
    <3>3. FrameHandled'  BY <3>2 DEF FrameHandled
    <3> QED  BY <2>2, <3>1, <3>3 DEF FrameInv
  <2> QED  BY <2>4, <2>5 DEF Send
<1>4. CASE busy /\ DR # NoByte /\ dropped < MaxDropped /\ dropped' = dropped + 1
           /\ UNCHANGED <<parser, DR>>
  <2>1. Parser'  BY <1>0, <1>4 DEF Parser, parser, LengthAhead
  <2>2. FrameTypeOK' /\ LengthAhead'
    BY <1>0, <1>1, <1>4, <2>1 DEF Parser, FrameTypeOK, Cells
  <2>3. ~whole'  BY <1>4 DEF Send
  <2> QED  BY <2>2, <2>3 DEF FrameInv, HeldIsHead, FrameHandled
<1> QED  BY <1>2, <1>3, <1>4 DEF Receive

LEMMA DropsInv ==
  ASSUME FrameInv, LineDrops
  PROVE  FrameInv'
<1>1. frame' \in Frames /\ at' \in 1 .. Len(frame')
  <2>1. frame \in Frames /\ at \in 1 .. Len(frame)  BY DEF FrameInv, FrameTypeOK
  <2>2. CASE at < Len(frame) /\ at' = at + 1 /\ UNCHANGED frame
    BY <2>1, <2>2, FrameFacts
  <2>3. CASE frame' \in Frames /\ at' = 1  BY <2>3, FrameFacts
  <2> QED  BY <2>2, <2>3 DEF LineDrops
<1>2. dropped' \in 0 .. MaxDropped /\ ~whole' /\ whole' \in BOOLEAN
  BY FrameAssumption DEF LineDrops, FrameInv, FrameTypeOK
<1>3. UNCHANGED <<STA, done, BUF, busy, msg, DR>>  BY DEF LineDrops, parser
<1>4. FrameTypeOK'  BY <1>1, <1>2, <1>3 DEF FrameInv, FrameTypeOK
<1>5. LengthAhead'  BY <1>3 DEF FrameInv, LengthAhead
<1> QED  BY <1>2, <1>4, <1>5 DEF FrameInv, HeldIsHead, FrameHandled

LEMMA ReturnsInv ==
  ASSUME FrameInv, MessageHandleReturns
  PROVE  FrameInv'
<1>1. /\ busy /\ ~busy' /\ busy' \in BOOLEAN
      /\ UNCHANGED <<STA, done, BUF, msg, DR, frame, at, whole, dropped>>
  BY DEF MessageHandleReturns
<1>2. FrameTypeOK'  BY <1>1 DEF FrameInv, FrameTypeOK
<1>3. LengthAhead' /\ HeldIsHead'  BY <1>1 DEF FrameInv, LengthAhead, HeldIsHead
<1>4. FrameHandled'  BY <1>1 DEF FrameInv, FrameHandled, Seen
<1> QED  BY <1>2, <1>3, <1>4 DEF FrameInv

LEMMA HeldInv ==
  ASSUME FrameInv, HeldByte
  PROVE  FrameInv'
<1> USE FrameConstants
<1>1. /\ ~busy /\ DR \in Bytes /\ DR # NoByte /\ DR' = NoByte /\ UsartRcvDataHandle(DR)
      /\ UNCHANGED <<frame, at, whole, dropped>>
  BY DEF HeldByte, FrameInv, FrameTypeOK
<1>2. Parser'  BY <1>1, HandleKeepsParser
<1>3. FrameTypeOK' /\ LengthAhead'
  BY <1>1, <1>2 DEF Parser, FrameInv, FrameTypeOK, Cells
<1>4. HeldIsHead'  BY <1>1 DEF HeldIsHead
<1>5. CASE whole
  <2>1. at = 1 /\ DR = HEAD /\ Idle  BY <1>1, <1>5 DEF FrameInv, HeldIsHead, Idle
  <2>2. frame' \in Frames /\ at' = 1 /\ UsartRcvDataHandle(HEAD)
    BY <1>1, <2>1 DEF FrameInv, FrameTypeOK
  <2>3. FrameHandled'  BY <1>1, <2>1, <2>2, FirstByte
  <2> QED  BY <1>3, <1>4, <2>3 DEF FrameInv
<1>6. CASE ~whole
  BY <1>1, <1>3, <1>4, <1>6 DEF FrameInv, FrameHandled
<1> QED  BY <1>5, <1>6

LEMMA FrameNextInv == FrameInv /\ [FrameNext]_frameVars => FrameInv'
<1> SUFFICES ASSUME FrameInv, [FrameNext]_frameVars PROVE FrameInv'  OBVIOUS
<1>1. CASE USART_IRQHandler  BY <1>1, BytesAre DEF USART_IRQHandler
<1>2. CASE LineDrops  BY <1>2, DropsInv
<1>3. CASE MessageHandleReturns  BY <1>3, ReturnsInv
<1>4. CASE HeldByte  BY <1>4, HeldInv
<1>5. CASE UNCHANGED frameVars
  BY <1>5 DEF frameVars, parser, FrameInv, FrameTypeOK, LengthAhead, HeldIsHead, FrameHandled, Seen
<1> QED  BY <1>1, <1>2, <1>3, <1>4, <1>5 DEF FrameNext
-----------------------------------------------------------------------------
(* The index and what is stored keep their ranges, whatever bytes are        *)
(* dropped; Memory, not the buffer's size, is the bound (usart.c:169).       *)
THEOREM IndexStaysInMemory == FrameSpec => []FrameTypeOK
<1>1. FrameInv => FrameTypeOK  BY DEF FrameInv
<1> QED  BY FrameInitInv, FrameNextInv, <1>1, PTL DEF FrameSpec

(* A frame that finds the parser idle and of which no byte is dropped is     *)
(* given to MessageHandle as it was sent, whatever its data looks like       *)
(* (usart.c:169-175).                                                        *)
THEOREM FramesHandled == FrameSpec => []FrameHandled
<1>1. FrameInv => FrameHandled  BY DEF FrameInv
<1> QED  BY FrameInitInv, FrameNextInv, <1>1, PTL DEF FrameSpec
-----------------------------------------------------------------------------
(* Proofs about ImuReceiver, for every packet length above 2 and every       *)
(* payload: the window never outgrows the buffer, and a window that begins   *)
(* with a packet and misses no byte is decoded as what it is.                *)

P == PacketLen

(* The packet that lies third in a window that begins with the packet at o.  *)
Third(o) == IF o = 1 THEN 3 ELSE IF o = P + 1 THEN 1 ELSE 2

Wrapped(n) == IF n <= WindowLen THEN n ELSE n - WindowLen

(* What a window of which no byte was missed has collected.                  *)
Collected ==
  (USART6_RX_STA > 0 /\ clean) =>
    /\ origin \in 1 .. WindowLen
    /\ ~complete => sentAt = Wrapped(origin - 1 + USART6_RX_STA)
    /\ (Place(origin) = 0 /\ USART6_RX_STA > 2 * P + 1) =>
         USART6_RX_BUF[2 * P + 1] = Types[Third(origin)]
    /\ (origin = 1 /\ USART6_RX_STA = WindowLen) => USART6_RX_BUF[WindowLen - 1] = expected

(* The task is beyond its test only while the window waits for it.           *)
TaskHoldsWindow == task # "test" => complete

ImuInv == ImuTypeOK /\ Collected /\ TaskHoldsWindow
-----------------------------------------------------------------------------
LEMMA LengthFacts == P \in Nat /\ P > 2 /\ WindowLen = 3 * P /\ WindowLen \in Nat
  BY ImuAssumption DEF P, WindowLen

(* Only three bytes of a burst begin a packet.                               *)
LEMMA PacketBegins ==
  ASSUME NEW o \in 1 .. WindowLen, Place(o) = 0
  PROVE  o \in {1, P + 1, 2 * P + 1}
  BY LengthFacts, SMTT(30) DEF Place, P, WindowLen

LEMMA PlacesOfTypes ==
  /\ Place(2) = 1 /\ Packet(2) = 1
  /\ Place(P + 2) = 1 /\ Packet(P + 2) = 2
  /\ Place(2 * P + 2) = 1 /\ Packet(2 * P + 2) = 3
  /\ Place(WindowLen) = P - 1 /\ Place(1) = 0
  BY LengthFacts, SMTT(30) DEF Place, Packet, P, WindowLen

(* The byte at index 2 * P + 1 of a window that begins with a packet is the  *)
(* type of the packet that lies third in it.                                 *)
LEMMA TypeOfThird ==
  ASSUME NEW o \in 1 .. WindowLen, Place(o) = 0, NEW a, NEW b \in ByteOf(Wrapped(o + 2 * P + 1), a)
  PROVE  b = Types[Third(o)]
<1>1. o \in {1, P + 1, 2 * P + 1}  BY PacketBegins
<1>2. Wrapped(o + 2 * P + 1) = IF o = 1 THEN 2 * P + 2 ELSE IF o = P + 1 THEN 2 ELSE P + 2
  BY <1>1, LengthFacts DEF Wrapped
<1>3. /\ Place(Wrapped(o + 2 * P + 1)) = 1
      /\ Packet(Wrapped(o + 2 * P + 1)) = Third(o)
  BY <1>1, <1>2, PlacesOfTypes, LengthFacts DEF Third
<1>4. ByteOf(Wrapped(o + 2 * P + 1), a) = {Types[Packet(Wrapped(o + 2 * P + 1))]}
  BY <1>3 DEF ByteOf
<1> QED  BY <1>3, <1>4

LEMMA LastByte ==
  ASSUME NEW a, NEW b \in ByteOf(WindowLen, a)
  PROVE  b = a
<1>1. Place(WindowLen) # 0 /\ Place(WindowLen) # 1  BY PlacesOfTypes, LengthFacts
<1> QED  BY <1>1 DEF ByteOf

LEMMA ByteIsStored ==
  ASSUME NEW i \in 1 .. WindowLen, NEW a \in Payload, NEW b \in ByteOf(i, a)
  PROVE  b \in Stored
<1>1. Packet(i) \in 1 .. 3  BY LengthFacts, SMTT(30) DEF Packet, P, WindowLen
<1>2. b \in {MARK} \cup {Types[Packet(i)]} \cup {a} \cup Payload  BY DEF ByteOf
<1> QED  BY <1>1, <1>2 DEF Stored
-----------------------------------------------------------------------------
LEMMA ImuInitInv == ImuInit => ImuInv
<1> SUFFICES ASSUME ImuInit PROVE ImuInv  OBVIOUS
<1>1. ImuTypeOK
  <2>1. USART6_RX_BUF \in [0 .. WindowLen - 1 -> Stored]
    BY DEF ImuInit, Stored
  <2>2. USART6_RX_STA # WindowLen /\ USART6_RX_STA \in 0 .. WindowLen
    BY LengthFacts DEF ImuInit
  <2>3. complete = (USART6_RX_STA = WindowLen)  BY <2>2, Zenon DEF ImuInit
  <2>4. missed \in 0 .. MaxMissed /\ origin \in 0 .. WindowLen /\ expected \in Payload \cup {0}
    BY LengthFacts, ImuAssumption DEF ImuInit
  <2> QED  BY <2>1, <2>2, <2>3, <2>4 DEF ImuInit, ImuTypeOK, Stored
<1>2. Collected /\ TaskHoldsWindow  BY DEF ImuInit, Collected, TaskHoldsWindow
<1> QED  BY <1>1, <1>2 DEF ImuInv

(* The line goes on.                                                         *)
LEMMA AdvanceType ==
  ASSUME ImuInv, NEW i \in 1 .. WindowLen, NEW a \in Payload, Advance(i, a)
  PROVE  /\ sentAt' \in 1 .. WindowLen /\ angle' \in Payload
         /\ sentAt' = i /\ i = Wrapped(sentAt + 1)
  BY LengthFacts DEF ImuInv, ImuTypeOK, Advance, Wrapped

LEMMA ByteStored ==
  ASSUME ImuInv, NEW i \in 1 .. WindowLen, NEW a \in Payload, NEW b \in ByteOf(i, a),
         Advance(i, a), Stores(b), UsartRcvIMUDataHandle(b), Track(i, a),
         UNCHANGED <<Yaw, task, missed>>
  PROVE  ImuInv'
<1> USE LengthFacts
<1>1. USART6_RX_STA \in 0 .. WindowLen - 1 /\ ~complete
  <2>1. ~complete /\ USART6_RX_STA # WindowLen /\ USART6_RX_STA \in 0 .. WindowLen
    BY DEF ImuInv, ImuTypeOK, Stores
  <2> QED  BY <2>1
<1>2. USART6_RX_STA' = USART6_RX_STA + 1 /\ complete' = (USART6_RX_STA' = WindowLen)
  BY <1>1 DEF UsartRcvIMUDataHandle, Closes
<1>3. USART6_RX_BUF' = [USART6_RX_BUF EXCEPT ![USART6_RX_STA] = b]
  BY DEF UsartRcvIMUDataHandle
<1>4. USART6_RX_BUF \in [0 .. WindowLen - 1 -> Stored]
  BY DEF ImuInv, ImuTypeOK
<1>5. b \in Stored  BY ByteIsStored
<1>6. sentAt' \in 1 .. WindowLen /\ angle' \in Payload /\ sentAt' = i /\ i = Wrapped(sentAt + 1)
  BY AdvanceType
<1>7. ImuTypeOK'
  <2>1. USART6_RX_BUF' \in [0 .. WindowLen - 1 -> Stored]
    BY <1>3, <1>4, <1>5
  <2>2. origin' \in 0 .. WindowLen /\ clean' \in BOOLEAN /\ expected' \in Payload \cup {0}
    BY DEF Track, ImuInv, ImuTypeOK
  <2>3. USART6_RX_STA' \in 0 .. WindowLen  BY <1>1, <1>2
  <2>4. Yaw' \in Stored /\ task' \in {"test", "angle", "clear"} /\ missed' \in 0 .. MaxMissed
    BY DEF ImuInv, ImuTypeOK
  <2> QED  BY <1>2, <1>6, <2>1, <2>2, <2>3, <2>4 DEF ImuTypeOK
<1>8. Collected'
  <2> SUFFICES ASSUME clean'
               PROVE  /\ origin' \in 1 .. WindowLen
                      /\ sentAt' = Wrapped(origin' - 1 + USART6_RX_STA')
                      /\ (Place(origin') = 0 /\ USART6_RX_STA' > 2 * P + 1) =>
                           USART6_RX_BUF'[2 * P + 1] = Types[Third(origin')]
                      /\ (origin' = 1 /\ USART6_RX_STA' = WindowLen) =>
                           USART6_RX_BUF'[WindowLen - 1] = expected'
    BY DEF Collected, Place, Third, P, Wrapped, WindowLen
  <2>1. CASE USART6_RX_STA = 0
    BY <2>1, <1>2, <1>6 DEF Track, Wrapped
  <2>2. CASE USART6_RX_STA > 0
    <3>1. clean /\ origin' = origin /\ expected' = IF i = WindowLen THEN a ELSE expected
      <4>1. clean' = (USART6_RX_STA = 0 \/ clean) /\ USART6_RX_STA # 0  BY <1>1, <2>2 DEF Track
      <4> QED  BY <4>1 DEF Track
    <3>2. origin \in 1 .. WindowLen /\ sentAt = Wrapped(origin - 1 + USART6_RX_STA)
      BY <2>2, <3>1, <1>1 DEF ImuInv, Collected
    <3>3. sentAt' = Wrapped(origin' - 1 + USART6_RX_STA')
      BY <1>1, <1>2, <1>6, <3>1, <3>2 DEF Wrapped
    <3>4. ASSUME Place(origin) = 0, USART6_RX_STA' > 2 * P + 1
          PROVE  USART6_RX_BUF'[2 * P + 1] = Types[Third(origin)]
      <4>1. CASE USART6_RX_STA = 2 * P + 1
        <5>1. i = Wrapped(origin + 2 * P + 1)  BY <1>2, <1>6, <3>1, <3>2, <3>3, <4>1
        <5>2. b = Types[Third(origin)]  BY <3>2, <3>4, <5>1, TypeOfThird
        <5> QED  BY <1>1, <1>3, <1>4, <4>1, <5>2
      <4>2. CASE USART6_RX_STA > 2 * P + 1
        <5>1. USART6_RX_BUF[2 * P + 1] = Types[Third(origin)]
          BY <2>2, <3>1, <3>4, <4>2 DEF ImuInv, Collected
        <5> QED  BY <1>1, <1>3, <1>4, <4>2, <5>1
      <4> QED  BY <1>1, <1>2, <3>4, <4>1, <4>2
    <3>5. ASSUME origin = 1, USART6_RX_STA' = WindowLen
          PROVE  USART6_RX_BUF'[WindowLen - 1] = expected'
      <4>1. i = WindowLen  BY <1>2, <1>6, <3>1, <3>3, <3>5 DEF Wrapped
      <4>2. b = a  BY <4>1, LastByte
      <4> QED  BY <1>1, <1>2, <1>3, <1>4, <3>1, <3>5, <4>1, <4>2
    <3> QED  BY <3>1, <3>2, <3>3, <3>4, <3>5
  <2> QED  BY <1>1, <2>1, <2>2
<1>9. TaskHoldsWindow'
  BY <1>1 DEF ImuInv, TaskHoldsWindow
<1> QED  BY <1>7, <1>8, <1>9 DEF ImuInv

LEMMA ByteDropped ==
  ASSUME ImuInv, NEW i \in 1 .. WindowLen, NEW a \in Payload, NEW b \in ByteOf(i, a),
         Advance(i, a), ~Stores(b), UNCHANGED <<imuRx, window, Yaw, task, missed>>
  PROVE  ImuInv'
<1>1. sentAt' \in 1 .. WindowLen /\ angle' \in Payload  BY AdvanceType
<1>2. ImuTypeOK'  BY <1>1 DEF ImuInv, ImuTypeOK, imuRx, window
<1>3. USART6_RX_STA > 0 => complete  BY LengthFacts DEF ImuInv, ImuTypeOK, Stores
<1>4. Collected'  BY <1>3 DEF ImuInv, Collected, imuRx, window, Place, Third, Wrapped
<1> QED  BY <1>2, <1>4 DEF ImuInv, TaskHoldsWindow, imuRx

LEMMA MissedInv ==
  ASSUME ImuInv, ByteMissed
  PROVE  ImuInv'
<1>1. PICK i \in 1 .. WindowLen, a \in Payload : Advance(i, a)  BY DEF ByteMissed
<1>2. sentAt' \in 1 .. WindowLen /\ angle' \in Payload  BY <1>1, AdvanceType
<1>3. missed' \in 0 .. MaxMissed  BY ImuAssumption DEF ImuInv, ImuTypeOK, ByteMissed
<1>4. ImuTypeOK'  BY <1>2, <1>3 DEF ImuInv, ImuTypeOK, ByteMissed, imuRx
<1>5. Collected' /\ TaskHoldsWindow'  BY DEF ImuInv, Collected, TaskHoldsWindow, ByteMissed, imuRx
<1> QED  BY <1>4, <1>5 DEF ImuInv

LEMMA TaskInv ==
  ASSUME ImuInv, MPU6050_thread
  PROVE  ImuInv'
<1>1. CASE TaskTest
  BY <1>1 DEF ImuInv, ImuTypeOK, Collected, TaskHoldsWindow, TaskTest, imuRx, sensor, window, Place, Third, Wrapped
<1>2. CASE TaskAngle
  <2>1. Yaw' \in Stored
    <3>1. 3 * PacketLen - 1 \in 0 .. WindowLen - 1  BY LengthFacts DEF P
    <3> QED  BY <1>2, <3>1 DEF ImuInv, ImuTypeOK, TaskAngle
  <2> QED  BY <1>2, <2>1 DEF ImuInv, ImuTypeOK, Collected, TaskHoldsWindow, TaskAngle, imuRx, sensor, window, Place, Third, Wrapped
<1>3. CASE TaskClear
  <2>1. ImuTypeOK'
    <3>1. USART6_RX_STA' # WindowLen /\ USART6_RX_STA' \in 0 .. WindowLen
      BY <1>3, LengthFacts DEF TaskClear
    <3>2. complete' = (USART6_RX_STA' = WindowLen)  BY <1>3, <3>1, Zenon DEF TaskClear
    <3> QED  BY <1>3, <3>1, <3>2 DEF ImuInv, ImuTypeOK, TaskClear, sensor, window
  <2>2. Collected' /\ TaskHoldsWindow'  BY <1>3 DEF Collected, TaskHoldsWindow, TaskClear
  <2> QED  BY <2>1, <2>2 DEF ImuInv
<1> QED  BY <1>1, <1>2, <1>3 DEF MPU6050_thread

LEMMA ImuNextInv == ImuInv /\ [ImuNext]_imuVars => ImuInv'
<1> SUFFICES ASSUME ImuInv, [ImuNext]_imuVars PROVE ImuInv'  OBVIOUS
<1>1. CASE USART6_IRQHandler
  <2>1. PICK i \in 1 .. WindowLen, a \in Payload : \E b \in ByteOf(i, a) :
          /\ Advance(i, a)
          /\ IF Stores(b) THEN UsartRcvIMUDataHandle(b) /\ Track(i, a)
             ELSE UNCHANGED <<imuRx, window>>
          /\ UNCHANGED <<Yaw, task, missed>>
    BY <1>1 DEF USART6_IRQHandler
  <2>2. PICK b \in ByteOf(i, a) :
          /\ Advance(i, a)
          /\ IF Stores(b) THEN UsartRcvIMUDataHandle(b) /\ Track(i, a)
             ELSE UNCHANGED <<imuRx, window>>
          /\ UNCHANGED <<Yaw, task, missed>>
    BY <2>1
  <2>3. CASE Stores(b)  BY <2>2, <2>3, ByteStored
  <2>4. CASE ~Stores(b)
    <3>1. UNCHANGED <<imuRx, window, Yaw, task, missed>>  BY <2>2, <2>4
    <3> QED  BY <2>2, <2>4, <3>1, ByteDropped
  <2> QED  BY <2>3, <2>4
<1>2. CASE ByteMissed  BY <1>2, MissedInv
<1>3. CASE MPU6050_thread  BY <1>3, TaskInv
<1>4. CASE UNCHANGED imuVars
  BY <1>4 DEF imuVars, imuRx, sensor, window, ImuInv, ImuTypeOK, Collected, TaskHoldsWindow,
              Place, Third, Wrapped
<1> QED  BY <1>1, <1>2, <1>3, <1>4 DEF ImuNext

(* The angle a window is decoded to.                                         *)
LEMMA DecodedAsCollected ==
  ASSUME ImuInv, [ImuNext]_imuVars, task = "angle", task' = "clear", clean, Place(origin) = 0
  PROVE  Yaw' = IF origin = 1 THEN expected ELSE Yaw
<1> USE LengthFacts
<1>1. TaskAngle
  BY DEF ImuNext, MPU6050_thread, USART6_IRQHandler, ByteMissed, TaskTest, TaskClear, imuVars
<1>2. complete  BY DEF ImuInv, TaskHoldsWindow
<1>3. USART6_RX_STA = WindowLen  BY <1>2 DEF ImuInv, ImuTypeOK
<1>4. /\ origin \in 1 .. WindowLen
      /\ USART6_RX_BUF[2 * P + 1] = Types[Third(origin)]
      /\ origin = 1 => USART6_RX_BUF[WindowLen - 1] = expected
  BY <1>3 DEF ImuInv, Collected
<1>5. Yaw' = IF USART6_RX_BUF[2 * P + 1] = Types[3] THEN USART6_RX_BUF[WindowLen - 1] ELSE Yaw
  BY <1>1 DEF TaskAngle, P, WindowLen
<1>6. CASE origin = 1  BY <1>4, <1>5, <1>6 DEF Third
<1>7. CASE origin # 1
  <2>1. Types[Third(origin)] # Types[3]  BY <1>7, ImuAssumption DEF Third
  <2> QED  BY <1>4, <1>5, <1>7, <2>1
<1> QED  BY <1>6, <1>7
-----------------------------------------------------------------------------
(* The handler never stores outside the buffer and closes the window exactly *)
(* at its length; a decoded angle is a byte that was received                *)
(* (usart6.c:131-143).                                                       *)
THEOREM WindowFits == ImuSpec => []ImuTypeOK
<1>1. ImuInv => ImuTypeOK  BY DEF ImuInv
<1> QED  BY ImuInitInv, ImuNextInv, <1>1, PTL DEF ImuSpec

(* For every packet length, payload and interleaving of handler and task: a  *)
(* window that begins with a packet and misses no byte sets Yaw to the angle *)
(* of its own burst or leaves it alone (MPU6050.c:41-46).                    *)
THEOREM WindowsDecoded == ImuSpec => WindowDecoded
<1>1. ImuInv /\ [ImuNext]_imuVars =>
        [(task = "angle" /\ task' = "clear" /\ clean /\ Place(origin) = 0)
           => Yaw' = IF origin = 1 THEN expected ELSE Yaw]_imuVars
  BY DecodedAsCollected
<1> QED  BY ImuInitInv, ImuNextInv, <1>1, PTL DEF ImuSpec, WindowDecoded
-----------------------------------------------------------------------------
(* Proofs about EthRings, for rings of any size: the transmit ring is sent   *)
(* in the order and with the frames that ETH_Tx_Packet accepted.             *)

(* The same order without a modulus: how far d is ahead of the transmitter,  *)
(* and where it gets to after n descriptors.                                 *)
Dist(d) == IF d >= txCur THEN d - txCur ELSE d - txCur + TxNb
Ahead(n) == IF txCur + n < TxNb THEN txCur + n ELSE txCur + n - TxNb
End == IF output = "owned" THEN NextTx(DMATxDescToSet) ELSE DMATxDescToSet
Run(n) ==
  /\ \A d \in TxRing : txOwn[d] <=> Dist(d) < n
  /\ End = Ahead(n)
TxRun == \E n \in 0 .. TxNb : Run(n)

Intact ==
  /\ \A d \in TxRing : txOwn[d] /\ d \notin overwritten => txBuf[d] = accepted[d]
  /\ overwritten \subseteq {DMATxDescToSet}
  /\ overwritten # {} => (output # "owned" /\ \A d \in TxRing : txOwn[d])

EthInv == EthTypeOK /\ TxRun /\ Intact
-----------------------------------------------------------------------------
LEMMA RingSizes == RxNb \in Nat /\ RxNb > 1 /\ TxNb \in Nat /\ TxNb > 0
BY EthAssumption

LEMMA Rings ==
  /\ \A d \in TxRing : NextTx(d) \in TxRing /\ NextTx(d) = IF d = TxNb - 1 THEN 0 ELSE d + 1
  /\ \A d \in RxRing : NextRx(d) \in RxRing
<1> USE RingSizes
<1>1. \A d \in TxRing : NextTx(d) = IF d = TxNb - 1 THEN 0 ELSE d + 1
  <2> SUFFICES ASSUME NEW d \in TxRing PROVE (d + 1) % TxNb = IF d = TxNb - 1 THEN 0 ELSE d + 1
    BY DEF NextTx
  <2>1. d \in Int /\ 0 <= d /\ d <= TxNb - 1  BY DEF TxRing
  <2>2. CASE d = TxNb - 1
    <3>1. d + 1 = TxNb /\ TxNb % TxNb = 0  BY <2>2, SMTT(20)
    <3> QED  BY <2>2, <3>1
  <2>3. CASE d # TxNb - 1
    <3>1. d + 1 \in 0 .. TxNb - 1  BY <2>1, <2>3
    <3>2. \A x \in 0 .. TxNb - 1 : x % TxNb = x  BY SMTT(20)
    <3> QED  BY <2>3, <3>1, <3>2
  <2> QED  BY <2>2, <2>3
<1>2. \A d \in TxRing : NextTx(d) \in TxRing  BY <1>1 DEF TxRing
<1>3. \A d \in RxRing : NextRx(d) \in RxRing
  <2>1. \A x \in Int : x % RxNb \in 0 .. RxNb - 1  BY SMTT(20)
  <2> QED  BY <2>1 DEF RxRing, NextRx
<1> QED  BY <1>1, <1>2, <1>3

(* A descriptor that was taken is the one before DMARxDescToGet.             *)
LEMMA TakenInRing == ASSUME EthTypeOK PROVE Taken \in RxRing
<1> USE RingSizes
<1>1. \A d \in RxRing : NextRx(d) = IF d = RxNb - 1 THEN 0 ELSE d + 1
  <2>1. \A d \in RxRing : (d + 1) % RxNb = IF d = RxNb - 1 THEN 0 ELSE d + 1
    <3>1. \A x \in 0 .. RxNb - 1 : x % RxNb = x  BY SMTT(20)
    <3>2. RxNb % RxNb = 0  BY SMTT(20)
    <3> QED  BY <3>1, <3>2 DEF RxRing
  <2> QED  BY <2>1 DEF NextRx
<1>2. \E d \in RxRing : NextRx(d) = DMARxDescToGet
  <2>1. DMARxDescToGet \in 0 .. RxNb - 1  BY DEF EthTypeOK, RxRing
  <2>2. CASE DMARxDescToGet = 0
    <3>1. RxNb - 1 \in RxRing  BY DEF RxRing
    <3> QED  BY <1>1, <2>2, <3>1
  <2>3. CASE DMARxDescToGet # 0
    <3>1. DMARxDescToGet - 1 \in RxRing /\ DMARxDescToGet - 1 # RxNb - 1
      BY <2>1, <2>3 DEF RxRing
    <3> QED  BY <1>1, <2>1, <3>1
  <2> QED  BY <2>2, <2>3
<1> QED  BY <1>2 DEF Taken
-----------------------------------------------------------------------------
LEMMA EthInitInv == EthInit => EthInv
<1> SUFFICES ASSUME EthInit PROVE EthInv  OBVIOUS
<1> USE RingSizes
<1>1. EthTypeOK
  <2>1. 0 \in RxRing /\ 0 \in TxRing  BY DEF RxRing, TxRing
  <2>2. rxOwn \in [RxRing -> BOOLEAN] /\ rxBuf \in [RxRing -> EthFrames] /\ R \in BOOLEAN
    BY DEF EthInit
  <2>3. /\ txOwn \in [TxRing -> BOOLEAN] /\ TBUS \in BOOLEAN
        /\ txBuf \in [TxRing -> EthFrames] /\ accepted \in [TxRing -> EthFrames]
    BY DEF EthInit
  <2>4. input \in Seq(EthFrames)  BY DEF EthInit
  <2> QED  BY <2>1, <2>2, <2>3, <2>4 DEF EthInit, EthTypeOK
<1>2. Run(0)
  <2>1. txCur = 0 /\ DMATxDescToSet = 0 /\ output = "out"  BY DEF EthInit
  <2>2. \A d \in TxRing : ~txOwn[d]  BY DEF EthInit
  <2>3. \A d \in TxRing : ~(Dist(d) < 0)  BY <2>1 DEF Dist, TxRing
  <2> QED  BY <2>1, <2>2, <2>3 DEF Run, End, Ahead
<1>3. TxRun  BY <1>2 DEF TxRun
<1>4. Intact  BY DEF EthInit, Intact
<1> QED  BY <1>1, <1>3, <1>4 DEF EthInv

(* The receiver leaves the transmit ring alone.                              *)
LEMMA RxStep ==
  ASSUME EthInv, FrameReceived \/ Handler PROVE EthInv'
<1> USE RingSizes, Rings
<1>1. UNCHANGED txVars
  BY DEF FrameReceived, Handler, ETH_IRQHandler, Rx_Packet, LowLevelInput, ClearITPendingBits
<1>2. UNCHANGED <<txOwn, txBuf, txCur, DMATxDescToSet, TBUS, output, accepted, overwritten>>
  BY <1>1 DEF txVars
<1>3. EthTypeOK'
  <2> USE DEF EthInv, EthTypeOK
  <2>1. CASE FrameReceived  BY <1>2, <2>1 DEF FrameReceived
  <2>2. CASE ETH_IRQHandler  BY <1>2, <2>2 DEF ETH_IRQHandler
  <2>3. CASE Rx_Packet
    <3>1. input' \in Seq(EthFrames)  BY <2>3 DEF Rx_Packet
    <3>2. eth' \in {"clear", "alloc"} /\ DMARxDescToGet' \in RxRing  BY <2>3 DEF Rx_Packet
    <3> QED  BY <1>2, <2>3, <3>1, <3>2 DEF Rx_Packet
  <2>4. CASE LowLevelInput
    <3>1. Taken \in RxRing  BY TakenInRing
    <3>2. <<rxBuf[Taken]>> \in Seq(EthFrames)  BY <3>1
    <3>3. input' \in Seq(EthFrames)  BY <2>4, <3>2 DEF LowLevelInput
    <3>4. rxOwn' \in [RxRing -> BOOLEAN]  BY <2>4 DEF LowLevelInput
    <3> QED  BY <1>2, <2>4, <3>3, <3>4 DEF LowLevelInput
  <2>5. CASE ClearITPendingBits  BY <1>2, <2>5 DEF ClearITPendingBits
  <2> QED  BY <2>1, <2>2, <2>3, <2>4, <2>5 DEF Handler
<1>4. TxRun'  BY <1>2 DEF EthInv, TxRun, Run, Dist, Ahead, End
<1>5. Intact'  BY <1>2 DEF EthInv, Intact
<1> QED  BY <1>3, <1>4, <1>5 DEF EthInv

(* What the run of n descriptors says of its two ends.                       *)
LEMMA RunEnds ==
  ASSUME EthInv, NEW n \in 0 .. TxNb, Run(n)
  PROVE  /\ n = TxNb <=> \A d \in TxRing : txOwn[d]
         /\ txOwn[txCur] <=> n > 0
         /\ output # "owned" => (txOwn[DMATxDescToSet] <=> n = TxNb)
         /\ n = TxNb => End = txCur
<1> USE RingSizes
<1>1. txCur \in 0 .. TxNb - 1 /\ DMATxDescToSet \in 0 .. TxNb - 1  BY DEF EthInv, EthTypeOK, TxRing
<1>2. \A d \in TxRing : Dist(d) < TxNb /\ Dist(d) >= 0 /\ Dist(d) \in Int  BY <1>1 DEF Dist, TxRing
<1>3. n < TxNb => Ahead(n) \in TxRing /\ Dist(Ahead(n)) = n  BY <1>1 DEF Ahead, Dist, TxRing
<1>4. Ahead(TxNb) = txCur  BY <1>1 DEF Ahead
<1>5. Dist(txCur) = 0 /\ txCur \in TxRing  BY <1>1 DEF Dist, TxRing
<1> HIDE DEF Dist, Ahead
<1>6. n = TxNb <=> \A d \in TxRing : txOwn[d]
  BY <1>2, <1>3 DEF Run
<1>7. txOwn[txCur] <=> n > 0  BY <1>5 DEF Run
<1>8. output # "owned" => (txOwn[DMATxDescToSet] <=> n = TxNb)
  <2> SUFFICES ASSUME output # "owned" PROVE txOwn[DMATxDescToSet] <=> n = TxNb  OBVIOUS
  <2>1. DMATxDescToSet = Ahead(n) /\ DMATxDescToSet \in TxRing  BY DEF Run, End, EthInv, EthTypeOK
  <2> QED  BY <1>3, <1>6, <2>1 DEF Run
<1> QED  BY <1>4, <1>6, <1>7, <1>8 DEF Run

LEMMA CopyStep ==
  ASSUME EthInv, Copy PROVE EthInv'
<1> USE RingSizes, Rings
<1>1. PICK f \in EthFrames : txBuf' = [txBuf EXCEPT ![DMATxDescToSet] = f]  BY DEF Copy
<1>2. /\ output = "out" /\ output' = "copied"
      /\ overwritten' = IF txOwn[DMATxDescToSet] THEN overwritten \cup {DMATxDescToSet}
                        ELSE overwritten
      /\ UNCHANGED <<rxVars, txOwn, txCur, DMATxDescToSet, TBUS, accepted>>
  BY DEF Copy
<1>3. EthTypeOK'
  BY <1>1, <1>2 DEF EthInv, EthTypeOK, rxVars
<1>4. PICK n \in 0 .. TxNb : Run(n)  BY DEF EthInv, TxRun
<1>5. TxRun'
  <2>1. Run(n)'  BY <1>2, <1>4 DEF Run, End, Ahead, Dist
  <2> QED  BY <2>1 DEF TxRun
<1>6. txOwn[DMATxDescToSet] => \A d \in TxRing : txOwn[d]  BY <1>2, <1>4, RunEnds
<1>7. Intact'
  <2>1. \A d \in TxRing : d # DMATxDescToSet => txBuf'[d] = txBuf[d]
    BY <1>1 DEF EthInv, EthTypeOK
  <2>2. \A d \in TxRing : txOwn'[d] /\ d \notin overwritten' => txBuf'[d] = accepted'[d]
    BY <1>2, <2>1 DEF EthInv, Intact
  <2> QED  BY <1>2, <1>6, <2>2 DEF EthInv, Intact
<1> QED  BY <1>3, <1>5, <1>7 DEF EthInv

LEMMA OwnStep ==
  ASSUME EthInv, Own PROVE EthInv'
<1> USE RingSizes, Rings
<1> DEFINE s == DMATxDescToSet
<1>1. output = "copied" /\ UNCHANGED <<rxVars, txBuf, txCur, DMATxDescToSet, TBUS>>  BY DEF Own
<1>2. PICK n \in 0 .. TxNb : Run(n)  BY DEF EthInv, TxRun
<1>3. s \in TxRing /\ txCur \in TxRing  BY DEF EthInv, EthTypeOK
<1>4. CASE txOwn[s]
  <2>1. output' = "out" /\ UNCHANGED <<txOwn, accepted, overwritten>>  BY <1>4 DEF Own
  <2>2. EthTypeOK'  BY <1>1, <2>1 DEF EthInv, EthTypeOK, rxVars
  <2>3. Run(n)'  BY <1>1, <1>2, <2>1 DEF Run, End, Ahead, Dist
  <2>4. Intact'  BY <1>1, <2>1 DEF EthInv, Intact
  <2> QED  BY <2>2, <2>3, <2>4 DEF EthInv, TxRun
<1>5. CASE ~txOwn[s]
  <2>1. /\ output' = "owned" /\ txOwn' = [txOwn EXCEPT ![s] = TRUE]
        /\ accepted' = [accepted EXCEPT ![s] = txBuf[s]]
        /\ overwritten' = overwritten \ {s}
    BY <1>5 DEF Own
  <2>2. EthTypeOK'  BY <1>1, <1>3, <2>1 DEF EthInv, EthTypeOK, rxVars
  <2>3. n < TxNb /\ n + 1 \in 0 .. TxNb  BY <1>1, <1>2, <1>5, RunEnds
  <2>4. s = Ahead(n)  BY <1>1, <1>2 DEF Run, End
  <2>5. Run(n + 1)'
    <3>1. \A d \in TxRing : txOwn'[d] <=> txOwn[d] \/ d = s  BY <2>1 DEF EthInv, EthTypeOK
    <3>2. \A d \in TxRing : Dist(d) < n + 1 <=> Dist(d) < n \/ d = s
      BY <1>3, <2>3, <2>4 DEF Dist, Ahead, TxRing
    <3>3. \A d : Dist(d)' = Dist(d)  BY <1>1 DEF Dist
    <3>4. Ahead(n + 1)' = NextTx(s)
      BY <1>1, <1>3, <2>3, <2>4 DEF Ahead, TxRing
    <3>5. End' = NextTx(s)  BY <1>1, <2>1 DEF End, NextTx
    <3> HIDE DEF Dist, Ahead, End, s
    <3>6. \A d \in TxRing : txOwn'[d] <=> Dist(d)' < n + 1
      BY <1>2, <3>1, <3>2, <3>3 DEF Run
    <3> QED  BY <3>4, <3>5, <3>6 DEF Run, TxRing
  <2>6. Intact'
    <3>1. overwritten = {}  BY <1>3, <1>5 DEF EthInv, Intact
    <3>2. \A d \in TxRing : txOwn'[d] => txBuf'[d] = accepted'[d]
      BY <1>1, <1>3, <2>1, <3>1 DEF EthInv, EthTypeOK, Intact
    <3> QED  BY <2>1, <3>1, <3>2 DEF Intact
  <2> QED  BY <2>2, <2>3, <2>5, <2>6 DEF EthInv, TxRun
<1> QED  BY <1>4, <1>5

LEMMA ResumeStep ==
  ASSUME EthInv, Resume PROVE EthInv'
<1> USE RingSizes, Rings
<1>1. /\ output = "owned" /\ output' = "out" /\ TBUS' = FALSE
      /\ DMATxDescToSet' = NextTx(DMATxDescToSet)
      /\ UNCHANGED <<rxVars, txOwn, txBuf, txCur, accepted, overwritten>>
  BY DEF Resume
<1>2. EthTypeOK'  BY <1>1 DEF EthInv, EthTypeOK, rxVars
<1>3. PICK n \in 0 .. TxNb : Run(n)  BY DEF EthInv, TxRun
<1>4. Run(n)'  BY <1>1, <1>3 DEF Run, End, Ahead, Dist
<1>5. Intact'  BY <1>1 DEF EthInv, Intact
<1> QED  BY <1>2, <1>4, <1>5 DEF EthInv, TxRun

LEMMA FrameSentStep ==
  ASSUME EthInv, FrameSent PROVE EthInv'
<1> USE RingSizes, Rings
<1>1. UNCHANGED <<rxVars, txBuf, DMATxDescToSet, output, accepted>>  BY DEF FrameSent
<1>2. PICK n \in 0 .. TxNb : Run(n)  BY DEF EthInv, TxRun
<1>3. txCur \in TxRing  BY DEF EthInv, EthTypeOK
<1>4. CASE txOwn[txCur]
  <2>1. /\ txOwn' = [txOwn EXCEPT ![txCur] = FALSE] /\ txCur' = NextTx(txCur)
        /\ overwritten' = overwritten \ {txCur} /\ UNCHANGED TBUS
    BY <1>4 DEF FrameSent
  <2>2. EthTypeOK'  BY <1>1, <1>3, <2>1 DEF EthInv, EthTypeOK, rxVars
  <2>3. n > 0 /\ n - 1 \in 0 .. TxNb  BY <1>2, <1>4, RunEnds
  <2>4. Run(n - 1)'
    <3>1. \A d \in TxRing : txOwn'[d] <=> txOwn[d] /\ d # txCur  BY <2>1 DEF EthInv, EthTypeOK
    <3>2. \A d \in TxRing : Dist(d)' = IF d = txCur THEN TxNb - 1 ELSE Dist(d) - 1
      BY <1>3, <2>1 DEF Dist, TxRing
    <3>3. \A d \in TxRing : Dist(d) \in Int /\ (Dist(d) = 0 <=> d = txCur)  BY <1>3 DEF Dist, TxRing
    <3>4. Ahead(n - 1)' = Ahead(n)  BY <1>3, <2>1, <2>3 DEF Ahead, TxRing
    <3>5. End' = End  BY <1>1 DEF End, NextTx
    <3> HIDE DEF Dist, Ahead, End
    <3>6. \A d \in TxRing : txOwn'[d] <=> Dist(d)' < n - 1
      BY <1>2, <2>3, <3>1, <3>2, <3>3 DEF Run
    <3> QED  BY <1>2, <3>4, <3>5, <3>6 DEF Run, TxRing
  <2>5. Intact'
    <3>1. overwritten' = {}
      <4>1. CASE overwritten = {}  BY <2>1, <4>1
      <4>2. CASE overwritten # {}
        <5>1. n = TxNb /\ output # "owned"
          BY <1>2, <4>2, RunEnds DEF EthInv, Intact
        <5>2. DMATxDescToSet = txCur  BY <1>2, <5>1, RunEnds DEF End
        <5> QED  BY <2>1, <5>2 DEF EthInv, Intact
      <4> QED  BY <4>1, <4>2
    <3>2. \A d \in TxRing : txOwn'[d] => txOwn[d] /\ d \notin overwritten
      <4>1. overwritten \subseteq {txCur}  BY <2>1, <3>1
      <4> QED  BY <2>1, <4>1 DEF EthInv, EthTypeOK
    <3> QED  BY <1>1, <3>1, <3>2 DEF EthInv, Intact
  <2> QED  BY <2>2, <2>3, <2>4, <2>5 DEF EthInv, TxRun
<1>5. CASE ~txOwn[txCur]
  <2>1. TBUS' = TRUE /\ UNCHANGED <<txOwn, txCur, overwritten>>  BY <1>5 DEF FrameSent
  <2>2. EthTypeOK'  BY <1>1, <2>1 DEF EthInv, EthTypeOK, rxVars
  <2>3. Run(n)'  BY <1>1, <1>2, <2>1 DEF Run, End, Ahead, Dist
  <2>4. Intact'  BY <1>1, <2>1 DEF EthInv, Intact
  <2> QED  BY <2>2, <2>3, <2>4 DEF EthInv, TxRun
<1> QED  BY <1>4, <1>5

LEMMA EthNextInv == EthInv /\ [EthNext]_ethVars => EthInv'
<1> SUFFICES ASSUME EthInv, [EthNext]_ethVars PROVE EthInv'  OBVIOUS
<1>1. CASE UNCHANGED ethVars
  <2>1. UNCHANGED <<rxOwn, rxBuf, rxCur, DMARxDescToGet, R, eth, input, txOwn, txBuf, txCur,
                    DMATxDescToSet, TBUS, output, accepted, overwritten>>
    BY <1>1 DEF ethVars, rxVars, txVars
  <2>2. EthTypeOK'  BY <2>1 DEF EthInv, EthTypeOK
  <2>3. TxRun' /\ Intact'  BY <2>1 DEF EthInv, TxRun, Run, Dist, Ahead, End, Intact
  <2> QED  BY <2>2, <2>3 DEF EthInv
<1> QED  BY <1>1, RxStep, CopyStep, OwnStep, ResumeStep, FrameSentStep
         DEF EthNext, RxNext, TxNext, LowLevelOutput
-----------------------------------------------------------------------------
(* The run in the words of SendOrder.                                        *)
LEMMA RunIsOrder == EthInv => SendOrder
<1> SUFFICES ASSUME EthInv PROVE SendOrder  OBVIOUS
<1> USE RingSizes
<1>1. PICK n \in 0 .. TxNb : Run(n)  BY DEF EthInv, TxRun
<1>2. txCur \in 0 .. TxNb - 1  BY DEF EthInv, EthTypeOK, TxRing
<1>3. \A x \in 0 .. 2 * TxNb - 1 : x % TxNb = IF x < TxNb THEN x ELSE x - TxNb  BY SMTT(30)
<1>4. \A k \in 0 .. TxNb : (txCur + k) % TxNb = Ahead(k)
  <2> SUFFICES ASSUME NEW k \in 0 .. TxNb PROVE (txCur + k) % TxNb = Ahead(k)  OBVIOUS
  <2>1. txCur + k \in 0 .. 2 * TxNb - 1  BY <1>2
  <2>2. (txCur + k) % TxNb = IF txCur + k < TxNb THEN txCur + k ELSE (txCur + k) - TxNb
    BY <1>3, <2>1, Zenon
  <2>3. Ahead(k) = IF txCur + k < TxNb THEN txCur + k ELSE (txCur + k) - TxNb
    BY <1>2 DEF Ahead
  <2> HIDE DEF Ahead
  <2> QED  BY <2>2, <2>3
<1>5. {d \in TxRing : txOwn[d]} = {(txCur + k) % TxNb : k \in 0 .. n - 1}
  <2>1. ASSUME NEW d \in TxRing, txOwn[d] PROVE \E k \in 0 .. n - 1 : d = (txCur + k) % TxNb
    <3>1. Dist(d) \in 0 .. n - 1 /\ Ahead(Dist(d)) = d
      BY <1>1, <1>2, <2>1 DEF Run, Dist, Ahead, TxRing
    <3>2. Dist(d) \in 0 .. TxNb  BY <3>1
    <3> QED  BY <1>4, <3>1, <3>2
  <2>2. ASSUME NEW k \in 0 .. n - 1 PROVE (txCur + k) % TxNb \in TxRing /\ txOwn[(txCur + k) % TxNb]
    <3>1. k \in 0 .. TxNb  OBVIOUS
    <3>2. Ahead(k) \in TxRing /\ Dist(Ahead(k)) = k  BY <1>2, <2>2 DEF Ahead, Dist, TxRing
    <3>3. txOwn[Ahead(k)]  BY <1>1, <2>2, <3>2 DEF Run
    <3> QED  BY <1>4, <3>1, <3>2, <3>3
  <2> QED  BY <2>1, <2>2
<1> QED  BY <1>1, <1>4, <1>5 DEF SendOrder, Run, End

(* Both rings stay rings: no index of the driver or of the DMA leaves them   *)
(* (lan8720.c:211, 231).                                                     *)
THEOREM RingsStayRings == EthSpec => []EthTypeOK
<1>1. EthInv => EthTypeOK  BY DEF EthInv
<1> QED  BY EthInitInv, EthNextInv, <1>1, PTL DEF EthSpec

(* For any number of descriptors the DMA sends what ETH_Tx_Packet accepted,  *)
(* in order; only a frame refused on a full ring can take the oldest one's   *)
(* place (ethernetif.c:50-57, lan8720.c:217-232).                            *)
THEOREM SentAsAccepted == EthSpec => []TxAsAccepted
<1>1. EthInv => TxAsAccepted  BY RunIsOrder DEF EthInv, Intact, TxAsAccepted
<1> QED  BY EthInitInv, EthNextInv, <1>1, PTL DEF EthSpec
-----------------------------------------------------------------------------
(****************************************************************************)
(* The receive ring, in the same way: the descriptors that are full are a   *)
(* run that ends where the DMA goes on, and begins with the descriptor the  *)
(* handler is at, or with DMARxDescToGet.                                   *)
(****************************************************************************)
RxDist(o, d) == IF d >= o THEN d - o ELSE d - o + RxNb
RxAhead(o, n) == IF o + n < RxNb THEN o + n ELSE o + n - RxNb
Before(g) == CHOOSE d \in RxRing : NextRx(d) = g
AtFrame(e) == e \in {"alloc", "give"}
Oldest == IF AtFrame(eth) THEN Taken ELSE DMARxDescToGet
RxRunOf(n) ==
  /\ \A d \in RxRing : ~rxOwn[d] <=> RxDist(Oldest, d) < n
  /\ rxCur = RxAhead(Oldest, n)
  /\ AtFrame(eth) => n > 0
RxRun == \E n \in 0 .. RxNb : RxRunOf(n)

LEMMA RxPlaces ==
  ASSUME NEW o \in RxRing
  PROVE  /\ NextRx(o) \in RxRing /\ NextRx(o) = RxAhead(o, 1)
         /\ \A n \in 0 .. RxNb : RxAhead(o, n) \in RxRing /\ (o + n) % RxNb = RxAhead(o, n)
         /\ \A n \in 0 .. RxNb - 1 : /\ RxDist(o, RxAhead(o, n)) = n
                                     /\ RxAhead(NextRx(o), n) = RxAhead(o, n + 1)
         /\ \A d \in RxRing : /\ RxDist(o, d) \in 0 .. RxNb - 1 /\ RxAhead(o, RxDist(o, d)) = d
                              /\ RxDist(NextRx(o), d) = IF d = o THEN RxNb - 1 ELSE RxDist(o, d) - 1
         /\ RxAhead(o, 0) = o /\ RxAhead(o, RxNb) = o
<1> USE RingSizes
<1>1. o \in Int /\ 0 <= o /\ o <= RxNb - 1  BY DEF RxRing
<1>2. \A x \in 0 .. 2 * RxNb - 1 : x % RxNb = IF x < RxNb THEN x ELSE x - RxNb  BY SMTT(30)
<1>3. ASSUME NEW n \in 0 .. RxNb
      PROVE  RxAhead(o, n) \in RxRing /\ (o + n) % RxNb = RxAhead(o, n)
  <2>1. o + n \in 0 .. 2 * RxNb - 1  BY <1>1
  <2>2. (o + n) % RxNb = IF o + n < RxNb THEN o + n ELSE (o + n) - RxNb  BY <1>2, <2>1, Zenon
  <2>3. RxAhead(o, n) = IF o + n < RxNb THEN o + n ELSE (o + n) - RxNb  BY <1>1 DEF RxAhead
  <2>4. RxAhead(o, n) \in RxRing  BY <1>1 DEF RxAhead, RxRing
  <2> HIDE DEF RxAhead
  <2> QED  BY <2>2, <2>3, <2>4
<1>4. NextRx(o) = RxAhead(o, 1)  BY <1>3 DEF NextRx
<1>5. NextRx(o) = IF o = RxNb - 1 THEN 0 ELSE o + 1  BY <1>1, <1>4 DEF RxAhead
<1>6. \A n \in 0 .. RxNb - 1 : /\ RxDist(o, RxAhead(o, n)) = n
                               /\ RxAhead(NextRx(o), n) = RxAhead(o, n + 1)
  BY <1>1, <1>5 DEF RxDist, RxAhead
<1>7. \A d \in RxRing : /\ RxDist(o, d) \in 0 .. RxNb - 1 /\ RxAhead(o, RxDist(o, d)) = d
                        /\ RxDist(NextRx(o), d) = IF d = o THEN RxNb - 1 ELSE RxDist(o, d) - 1
  BY <1>1, <1>5 DEF RxDist, RxAhead, RxRing
<1>8. RxAhead(o, 0) = o /\ RxAhead(o, RxNb) = o  BY <1>1 DEF RxAhead
<1> QED  BY <1>3, <1>4, <1>5, <1>6, <1>7, <1>8 DEF RxRing

LEMMA BeforeNext == ASSUME NEW d \in RxRing PROVE Before(NextRx(d)) = d
<1>1. \A c \in RxRing : NextRx(c) = IF c = RxNb - 1 THEN 0 ELSE c + 1
  BY RxPlaces, RingSizes DEF RxAhead, RxRing
<1>2. \A c \in RxRing : NextRx(c) = NextRx(d) => c = d
  BY <1>1, RingSizes DEF RxRing
<1> QED  BY <1>2 DEF Before

LEMMA TakenIs == ASSUME EthTypeOK PROVE Taken \in RxRing /\ NextRx(Taken) = DMARxDescToGet
<1> USE RingSizes
<1>1. \E d \in RxRing : NextRx(d) = DMARxDescToGet
  <2>1. DMARxDescToGet \in RxRing  BY DEF EthTypeOK
  <2>2. RxAhead(DMARxDescToGet, RxNb - 1) \in RxRing
    BY <2>1, RxPlaces
  <2>3. NextRx(RxAhead(DMARxDescToGet, RxNb - 1)) = DMARxDescToGet
    <3>1. NextRx(RxAhead(DMARxDescToGet, RxNb - 1)) = RxAhead(RxAhead(DMARxDescToGet, RxNb - 1), 1)
      BY <2>2, RxPlaces
    <3> QED  BY <2>1, <3>1 DEF RxAhead, RxRing
  <2> QED  BY <2>2, <2>3
<1> QED  BY <1>1 DEF Taken

(* A run of n descriptors has n members.                                    *)
LEMMA RunCounts ==
  ASSUME NEW o \in RxRing, NEW n \in 0 .. RxNb
  PROVE  Cardinality({d \in RxRing : RxDist(o, d) < n}) = n
<1> DEFINE S == {d \in RxRing : RxDist(o, d) < n}
           f == [k \in 1 .. n |-> RxAhead(o, k - 1)]
<1>1. n \in Nat /\ RxNb \in Nat  BY RingSizes
<1>2. \A k \in 1 .. n : k - 1 \in 0 .. RxNb - 1 /\ k - 1 \in 0 .. RxNb  BY <1>1
<1>3. \A k \in 1 .. n : f[k] \in RxRing /\ RxDist(o, f[k]) = k - 1
  BY <1>2, RxPlaces
<1>4. \A k \in 1 .. n : f[k] \in S
  BY <1>1, <1>3
<1>5. \A j, k \in 1 .. n : f[j] = f[k] => j = k
  <2> SUFFICES ASSUME NEW j \in 1 .. n, NEW k \in 1 .. n, f[j] = f[k] PROVE j = k
    OBVIOUS
  <2>1. j - 1 = k - 1  BY <1>3
  <2> QED  BY <1>1, <2>1
<1>6. \A d \in S : \E k \in 1 .. n : f[k] = d
  <2> SUFFICES ASSUME NEW d \in S PROVE \E k \in 1 .. n : f[k] = d
    OBVIOUS
  <2>1. RxDist(o, d) \in 0 .. RxNb - 1 /\ RxAhead(o, RxDist(o, d)) = d /\ RxDist(o, d) < n
    BY RxPlaces
  <2>2. RxDist(o, d) + 1 \in 1 .. n /\ (RxDist(o, d) + 1) - 1 = RxDist(o, d)
    BY <1>1, <2>1
  <2> HIDE DEF S
  <2> QED  BY <2>1, <2>2
<1> HIDE DEF S
<1>7. f \in Injection(1 .. n, S)
  BY <1>4, <1>5 DEF Injection, IsInjective
<1>8. f \in Surjection(1 .. n, S)
  BY <1>4, <1>6 DEF Surjection
<1>9. ExistsBijection(1 .. n, S)
  BY <1>7, <1>8 DEF ExistsBijection, Bijection
<1>10. Cardinality(S) = n
  BY <1>1, <1>9, FS_CountingElements
<1> QED  BY <1>10 DEF S

(* What waits, counted from DMARxDescToGet on without a modulus.            *)
WaitsFor(g, m, buf) == [k \in 1 .. m |-> buf[RxAhead(g, k - 1)]]
Left(e, n) == IF AtFrame(e) THEN n - 1 ELSE n

LEMMA WaitingIs ==
  ASSUME EthTypeOK, NEW n \in 0 .. RxNb, RxRunOf(n)
  PROVE  Waiting = WaitsFor(DMARxDescToGet, Left(eth, n), rxBuf) /\ Left(eth, n) \in 0 .. RxNb
<1>1. Taken \in RxRing /\ DMARxDescToGet \in RxRing  BY TakenIs DEF EthTypeOK
<1>2. Oldest \in RxRing  BY <1>1 DEF Oldest
<1>3. Full = {d \in RxRing : RxDist(Oldest, d) < n}  BY DEF Full, RxRunOf
<1>4. Cardinality(Full) = n  BY <1>2, <1>3, RunCounts
<1>5. n \in Nat /\ RxNb \in Nat  BY RingSizes
<1>6. Left(eth, n) \in 0 .. RxNb
  BY <1>5 DEF Left, RxRunOf
<1>7. \A k \in 1 .. Left(eth, n) : (DMARxDescToGet + k - 1) % RxNb = RxAhead(DMARxDescToGet, k - 1)
  <2> SUFFICES ASSUME NEW k \in 1 .. Left(eth, n)
               PROVE  (DMARxDescToGet + k - 1) % RxNb = RxAhead(DMARxDescToGet, k - 1)
    OBVIOUS
  <2>1. k - 1 \in 0 .. RxNb  BY <1>5, <1>6
  <2>2. DMARxDescToGet + (k - 1) = DMARxDescToGet + k - 1  BY <1>1, <1>5, <1>6 DEF RxRing
  <2> QED  BY <1>1, <2>1, <2>2, RxPlaces
<1>8. Waiting = [k \in 1 .. Left(eth, n) |-> rxBuf[(DMARxDescToGet + k - 1) % RxNb]]
  BY <1>4, <1>5 DEF Waiting, Left, AtFrame
<1> HIDE DEF Left, Waiting
<1>9. Waiting = [k \in 1 .. Left(eth, n) |-> rxBuf[RxAhead(DMARxDescToGet, k - 1)]]
  BY <1>7, <1>8
<1> QED  BY <1>6, <1>9 DEF WaitsFor

WaitingCounted ==
  \A n \in 0 .. RxNb :
    RxRunOf(n) => Waiting = WaitsFor(DMARxDescToGet, Left(eth, n), rxBuf)

LEMMA WaitingAll == EthTypeOK => WaitingCounted
BY WaitingIs DEF WaitingCounted

LEMMA WaitingIsNext ==
  ASSUME EthTypeOK', NEW n \in 0 .. RxNb, RxRunOf(n)'
  PROVE  Waiting' = WaitsFor(DMARxDescToGet', Left(eth', n), rxBuf')
<1>1. (EthTypeOK => WaitingCounted)'
  BY WaitingAll, PTL
<1>2. WaitingCounted'
  BY <1>1
<1> QED  BY <1>2 DEF WaitingCounted, WaitsFor, Left, AtFrame, RxAhead

(* A step of the receiver keeps the run, and what it does to what waits and *)
(* to what is handed on is in order.                                        *)
OrderKept ==
  /\ \/ Waiting' = Waiting
     \/ \E f \in EthFrames : Waiting' = Append(Waiting, f)
     \/ Waiting # <<>> /\ Waiting' = Tail(Waiting) /\ eth' = "alloc"
  /\ input' # input /\ input' # <<>> => input' = <<rxBuf[Taken]>> /\ ~rxOwn[Taken]

LEMMA RxReceived ==
  ASSUME EthTypeOK, EthTypeOK', RxRun, FrameReceived
  PROVE  RxRun' /\ OrderKept
<1> DEFINE o == Oldest
           g == DMARxDescToGet
<1>1. PICK n \in 0 .. RxNb : RxRunOf(n)  BY DEF RxRun
<1>2. o \in RxRing /\ g \in RxRing /\ Taken \in RxRing /\ n \in Nat /\ RxNb \in Nat
  BY TakenIs, RingSizes DEF Oldest, EthTypeOK
<1>3. PICK f \in EthFrames : rxBuf' = [rxBuf EXCEPT ![rxCur] = f]  BY DEF FrameReceived
<1>4. /\ rxOwn[rxCur] /\ rxOwn' = [rxOwn EXCEPT ![rxCur] = FALSE] /\ rxCur' = NextRx(rxCur)
      /\ eth' = eth /\ g' = g /\ input' = input /\ rxCur \in RxRing
  BY DEF FrameReceived, EthTypeOK
<1>5. o' = o  BY <1>4 DEF Oldest, Taken, NextRx
<1>6. rxCur = RxAhead(o, n)  BY <1>1 DEF RxRunOf
<1>7. n < RxNb
  <2>1. n = RxNb => rxCur = o /\ RxDist(o, o) < n
    BY <1>2, <1>6, RxPlaces, RingSizes DEF RxDist, RxRing
  <2> QED  BY <1>1, <1>2, <1>4, <2>1 DEF RxRunOf
<1>8. n \in 0 .. RxNb - 1 /\ n + 1 \in 0 .. RxNb  BY <1>2, <1>7
<1>9. RxRunOf(n + 1)'
  <2>1. \A d \in RxRing : ~rxOwn'[d] <=> ~rxOwn[d] \/ d = rxCur  BY <1>4 DEF EthTypeOK
  <2>2. \A d \in RxRing : RxDist(o, d) < n + 1 <=> RxDist(o, d) < n \/ d = rxCur
    <3> SUFFICES ASSUME NEW d \in RxRing
                 PROVE  RxDist(o, d) < n + 1 <=> RxDist(o, d) < n \/ d = rxCur
      OBVIOUS
    <3>1. RxDist(o, d) \in Nat /\ RxAhead(o, RxDist(o, d)) = d  BY <1>2, RxPlaces
    <3>2. RxDist(o, rxCur) = n  BY <1>2, <1>6, <1>8, RxPlaces
    <3> QED  BY <1>2, <1>6, <3>1, <3>2
  <2>3. rxCur' = RxAhead(o, n + 1)
    <3>1. rxCur' = RxAhead(rxCur, 1)  BY <1>4, RxPlaces
    <3>2. RxAhead(RxAhead(o, n), 1) = RxAhead(o, n + 1)
      BY <1>2, <1>8, RingSizes DEF RxAhead, RxRing
    <3> QED  BY <1>6, <3>1, <3>2
  <2>4. \A d \in RxRing : ~rxOwn'[d] <=> RxDist(o, d) < n + 1
    BY <1>1, <2>1, <2>2 DEF RxRunOf
  <2>5. \A d \in RxRing : ~rxOwn'[d] <=> RxDist(o', d) < n + 1  BY <1>5, <2>4
  <2>6. rxCur' = RxAhead(o', n + 1) /\ (AtFrame(eth') => n + 1 > 0)  BY <1>2, <1>5, <2>3
  <2> QED  BY <2>5, <2>6 DEF RxRunOf, RxDist, RxAhead, AtFrame, RxRing
<1>10. RxRun'  BY <1>8, <1>9 DEF RxRun
<1>11. Waiting' = Append(Waiting, f)
  <2> DEFINE m == Left(eth, n)
  <2>1. Waiting = WaitsFor(g, m, rxBuf) /\ m \in 0 .. RxNb  BY <1>1, WaitingIs
  <2>2. Waiting' = WaitsFor(g, Left(eth, n + 1), rxBuf')
    <3>1. Waiting' = WaitsFor(DMARxDescToGet', Left(eth', n + 1), rxBuf')
      BY <1>8, <1>9, WaitingIsNext
    <3> QED  BY <1>4, <3>1
  <2>3. Left(eth, n + 1) = m + 1  BY <1>2 DEF Left
  <2>4. RxAhead(g, m) = rxCur
    <3>1. CASE AtFrame(eth)
      <4>1. o = Taken /\ g = NextRx(o) /\ m = n - 1 /\ n > 0
        BY <1>1, <3>1, TakenIs DEF Oldest, Left, RxRunOf
      <4>2. m \in 0 .. RxNb - 1 /\ m + 1 = n  BY <1>2, <1>7, <4>1
      <4> QED  BY <1>2, <1>6, <4>1, <4>2, RxPlaces
    <3>2. CASE ~AtFrame(eth)
      <4>1. o = g /\ m = n  BY <3>2 DEF Oldest, Left
      <4> QED  BY <1>6, <4>1
    <3> QED  BY <3>1, <3>2
  <2>5. m \in 0 .. RxNb - 1  BY <1>2, <1>7, <2>1 DEF Left
  <2>6. RxDist(g, rxCur) = m  BY <1>2, <2>4, <2>5, RxPlaces
  <2>7. \A k \in 1 .. m : RxAhead(g, k - 1) \in RxRing /\ RxAhead(g, k - 1) # rxCur
    <3> SUFFICES ASSUME NEW k \in 1 .. m PROVE RxAhead(g, k - 1) \in RxRing /\ RxAhead(g, k - 1) # rxCur
      OBVIOUS
    <3>1. k - 1 \in 0 .. RxNb - 1 /\ k - 1 \in 0 .. RxNb /\ k - 1 # m  BY <1>2, <2>5
    <3>2. RxDist(g, RxAhead(g, k - 1)) = k - 1 /\ RxAhead(g, k - 1) \in RxRing
      BY <1>2, <3>1, RxPlaces
    <3> QED  BY <2>6, <3>1, <3>2
  <2>8. rxBuf \in [RxRing -> EthFrames]  BY DEF EthTypeOK
  <2> HIDE DEF m
  <2>9. m \in Nat /\ m + 1 \in Nat  BY <1>2, <2>5
  <2>10. \A k \in 1 .. m + 1 : rxBuf'[RxAhead(g, k - 1)] = IF k = m + 1 THEN f ELSE rxBuf[RxAhead(g, k - 1)]
    <3> SUFFICES ASSUME NEW k \in 1 .. m + 1
                 PROVE  rxBuf'[RxAhead(g, k - 1)] = IF k = m + 1 THEN f ELSE rxBuf[RxAhead(g, k - 1)]
      OBVIOUS
    <3>1. CASE k = m + 1
      <4>1. k - 1 = m  BY <2>9, <3>1
      <4> QED  BY <1>3, <1>4, <2>4, <2>8, <3>1, <4>1
    <3>2. CASE k # m + 1
      <4>1. k \in 1 .. m  BY <2>9, <3>2
      <4> QED  BY <1>3, <2>7, <2>8, <3>2, <4>1
    <3> QED  BY <3>1, <3>2
  <2>11. Waiting' = [k \in 1 .. m + 1 |-> IF k = m + 1 THEN f ELSE rxBuf[RxAhead(g, k - 1)]]
    BY <2>2, <2>3, <2>10 DEF WaitsFor
  <2>12. Waiting = [k \in 1 .. m |-> rxBuf[RxAhead(g, k - 1)]]
    BY <2>1 DEF WaitsFor, m
  <2> HIDE DEF g, o
  <2>13. \A k \in 1 .. m : rxBuf[RxAhead(g, k - 1)] \in EthFrames
    BY <2>7, <2>8
  <2> DEFINE w == [k \in 1 .. m |-> rxBuf[RxAhead(g, k - 1)]]
  <2>14. w \in Seq(EthFrames) /\ Len(w) = m
    BY <2>9, <2>13
  <2>15. Append(w, f) = [k \in 1 .. m + 1 |-> IF k = m + 1 THEN f ELSE rxBuf[RxAhead(g, k - 1)]]
    BY <2>9, <2>14
  <2> QED  BY <2>11, <2>12, <2>15
<1> QED  BY <1>4, <1>10, <1>11 DEF OrderKept

LEMMA RxTakes ==
  ASSUME EthTypeOK, EthTypeOK', RxRun, Rx_Packet
  PROVE  RxRun' /\ OrderKept
<1> DEFINE g == DMARxDescToGet
<1>1. PICK n \in 0 .. RxNb : RxRunOf(n)  BY DEF RxRun
<1>2. g \in RxRing /\ n \in Nat /\ RxNb \in Nat /\ rxBuf \in [RxRing -> EthFrames]
  BY RingSizes DEF EthTypeOK
<1>3. /\ eth = "test" /\ Oldest = g /\ Left(eth, n) = n /\ input' = <<>>
      /\ UNCHANGED <<rxOwn, rxBuf, rxCur>>
  BY DEF Rx_Packet, Oldest, AtFrame, Left
<1>4. Waiting = WaitsFor(g, n, rxBuf)  BY <1>1, <1>3, WaitingIs
<1>5. CASE rxOwn[g]
  <2>1. eth' = "clear" /\ g' = g  BY <1>5 DEF Rx_Packet
  <2>2. Oldest' = g /\ ~AtFrame(eth)'  BY <2>1 DEF Oldest, AtFrame
  <2>3. RxRunOf(n)'
    BY <1>1, <1>3, <2>2 DEF RxRunOf, RxDist, RxAhead, RxRing
  <2>4. Left(eth, n)' = n  BY <2>2 DEF Left
  <2>5. Waiting' = WaitsFor(DMARxDescToGet', Left(eth', n), rxBuf')
    BY <1>1, <2>3, WaitingIsNext
  <2>6. Waiting' = Waiting  BY <1>3, <1>4, <2>1, <2>4, <2>5
  <2> QED  BY <1>1, <1>3, <2>3, <2>6 DEF RxRun, OrderKept
<1>6. CASE ~rxOwn[g]
  <2>1. eth' = "alloc" /\ g' = NextRx(g)  BY <1>6 DEF Rx_Packet
  <2>2. AtFrame(eth)' /\ Taken' = g
    <3>1. Taken' = Before(g')  BY DEF Taken, Before, NextRx, RxRing
    <3> QED  BY <1>2, <2>1, <3>1, BeforeNext DEF AtFrame
  <2>3. Oldest' = g  BY <2>2 DEF Oldest, AtFrame
  <2>4. n > 0 /\ n - 1 \in Nat
    <3>1. RxDist(g, g) < n  BY <1>1, <1>2, <1>3, <1>6 DEF RxRunOf
    <3>2. RxDist(g, g) = 0  BY <1>2 DEF RxDist, RxRing
    <3> QED  BY <1>2, <3>1, <3>2
  <2>5. RxRunOf(n)'
    BY <1>1, <1>3, <2>3, <2>4 DEF RxRunOf, RxDist, RxAhead, RxRing
  <2>6. Left(eth, n)' = n - 1  BY <2>2 DEF Left
  <2>7. Waiting' = WaitsFor(DMARxDescToGet', Left(eth', n), rxBuf')
    BY <1>1, <2>5, WaitingIsNext
  <2>8. Waiting' = WaitsFor(NextRx(g), n - 1, rxBuf)  BY <1>3, <2>1, <2>6, <2>7
  <2>9. \A k \in 1 .. n - 1 : RxAhead(NextRx(g), k - 1) = RxAhead(g, k)
    <3> SUFFICES ASSUME NEW k \in 1 .. n - 1 PROVE RxAhead(NextRx(g), k - 1) = RxAhead(g, k)
      OBVIOUS
    <3>1. k - 1 \in 0 .. RxNb - 1 /\ (k - 1) + 1 = k  BY <1>2, <2>4
    <3> QED  BY <1>2, <3>1, RxPlaces
  <2>10. Waiting' = [k \in 1 .. n - 1 |-> rxBuf[RxAhead(g, k)]]
    BY <2>8, <2>9 DEF WaitsFor
  <2>11. Waiting = [k \in 1 .. n |-> rxBuf[RxAhead(g, k - 1)]]  BY <1>4 DEF WaitsFor
  <2>12. \A k \in 1 .. n : rxBuf[RxAhead(g, k - 1)] \in EthFrames
    <3> SUFFICES ASSUME NEW k \in 1 .. n PROVE rxBuf[RxAhead(g, k - 1)] \in EthFrames
      OBVIOUS
    <3>1. k - 1 \in 0 .. RxNb  BY <1>2
    <3>2. RxAhead(g, k - 1) \in RxRing  BY <1>2, <3>1, RxPlaces
    <3> QED  BY <1>2, <3>2
  <2> DEFINE w == [k \in 1 .. n |-> rxBuf[RxAhead(g, k - 1)]]
  <2>13. w \in Seq(EthFrames) /\ Len(w) = n /\ w # <<>>
    BY <1>2, <2>4, <2>12
  <2>14. Tail(w) = [k \in 1 .. n - 1 |-> w[k + 1]]
    BY <2>4, <2>13
  <2>15. \A k \in 1 .. n - 1 : w[k + 1] = rxBuf[RxAhead(g, k)]
    <3> SUFFICES ASSUME NEW k \in 1 .. n - 1 PROVE w[k + 1] = rxBuf[RxAhead(g, k)]
      OBVIOUS
    <3>1. k + 1 \in 1 .. n /\ (k + 1) - 1 = k  BY <1>2, <2>4
    <3> QED  BY <3>1
  <2> HIDE DEF w
  <2>16. Waiting' = Tail(w)  BY <2>10, <2>14, <2>15
  <2> QED  BY <1>1, <1>3, <2>1, <2>5, <2>11, <2>13, <2>16 DEF RxRun, OrderKept, w
<1> QED  BY <1>5, <1>6

LEMMA RxGives ==
  ASSUME EthTypeOK, EthTypeOK', RxRun, LowLevelInput
  PROVE  RxRun' /\ OrderKept
<1> DEFINE g == DMARxDescToGet
<1>1. PICK n \in 0 .. RxNb : RxRunOf(n)  BY DEF RxRun
<1>2. /\ g \in RxRing /\ n \in Nat /\ RxNb \in Nat /\ Taken \in RxRing /\ NextRx(Taken) = g
      /\ rxOwn \in [RxRing -> BOOLEAN]
  BY TakenIs, RingSizes DEF EthTypeOK
<1>3. /\ AtFrame(eth) /\ Oldest = Taken /\ Left(eth, n) = n - 1 /\ n > 0
      /\ UNCHANGED <<rxBuf, rxCur, DMARxDescToGet>>
  BY <1>1 DEF LowLevelInput, Oldest, AtFrame, Left, RxRunOf
<1>4. Waiting = WaitsFor(g, n - 1, rxBuf)  BY <1>1, <1>3, WaitingIs
<1>5. Taken' = Taken  BY <1>3 DEF Taken, NextRx, RxRing
<1>6. ~rxOwn[Taken]
  <2>1. RxDist(Taken, Taken) = 0  BY <1>2 DEF RxDist, RxRing
  <2> QED  BY <1>1, <1>2, <1>3, <2>1 DEF RxRunOf
<1>7. CASE eth = "alloc"
  <2>1. eth' = "give" /\ UNCHANGED rxOwn /\ (input' = <<rxBuf[Taken]>> \/ UNCHANGED input)
    BY <1>7 DEF LowLevelInput
  <2>2. Oldest' = Taken /\ AtFrame(eth)'  BY <1>5, <2>1 DEF Oldest, AtFrame
  <2>3. RxRunOf(n)'
    BY <1>1, <1>3, <2>1, <2>2 DEF RxRunOf, RxDist, RxAhead, RxRing
  <2>4. Left(eth, n)' = n - 1  BY <2>2 DEF Left
  <2>5. Waiting' = WaitsFor(DMARxDescToGet', Left(eth', n), rxBuf')
    BY <1>1, <2>3, WaitingIsNext
  <2>6. Waiting' = Waiting  BY <1>3, <1>4, <2>4, <2>5
  <2> QED  BY <1>1, <1>6, <2>1, <2>3, <2>6 DEF RxRun, OrderKept
<1>8. CASE eth = "give"
  <2>1. eth' = "test" /\ UNCHANGED input /\ rxOwn' = [rxOwn EXCEPT ![Taken] = TRUE]
    BY <1>8 DEF LowLevelInput
  <2>2. Oldest' = g /\ ~AtFrame(eth)'  BY <1>3, <2>1 DEF Oldest, AtFrame
  <2>3. n - 1 \in 0 .. RxNb /\ n - 1 \in 0 .. RxNb - 1 /\ (n - 1) + 1 = n  BY <1>2, <1>3
  <2>4. \A d \in RxRing : ~rxOwn'[d] <=> RxDist(g, d) < n - 1
    <3> SUFFICES ASSUME NEW d \in RxRing PROVE ~rxOwn'[d] <=> RxDist(g, d) < n - 1
      OBVIOUS
    <3>1. ~rxOwn'[d] <=> ~rxOwn[d] /\ d # Taken  BY <1>2, <2>1
    <3>2. ~rxOwn[d] <=> RxDist(Taken, d) < n  BY <1>1, <1>3 DEF RxRunOf
    <3>3. /\ RxDist(Taken, d) \in 0 .. RxNb - 1
          /\ RxDist(g, d) = IF d = Taken THEN RxNb - 1 ELSE RxDist(Taken, d) - 1
      BY <1>2, RxPlaces
    <3> QED  BY <1>2, <2>3, <3>1, <3>2, <3>3
  <2>5. rxCur' = RxAhead(g, n - 1)
    <3>1. RxAhead(NextRx(Taken), n - 1) = RxAhead(Taken, n)  BY <1>2, <2>3, RxPlaces
    <3> QED  BY <1>1, <1>2, <1>3, <3>1 DEF RxRunOf
  <2>6. RxRunOf(n - 1)'
    BY <2>2, <2>4, <2>5 DEF RxRunOf, RxDist, RxAhead, RxRing
  <2>7. Left(eth, n - 1)' = n - 1  BY <2>2 DEF Left
  <2>8. Waiting' = WaitsFor(DMARxDescToGet', Left(eth', n - 1), rxBuf')
    BY <2>3, <2>6, WaitingIsNext
  <2>9. Waiting' = Waiting  BY <1>3, <1>4, <2>7, <2>8
  <2> QED  BY <2>1, <2>3, <2>6, <2>9 DEF RxRun, OrderKept
<1> QED  BY <1>7, <1>8 DEF LowLevelInput

LEMMA RxElse ==
  ASSUME EthTypeOK, EthTypeOK', RxRun,
         ETH_IRQHandler \/ ClearITPendingBits \/ UNCHANGED rxVars
  PROVE  RxRun' /\ OrderKept
<1>1. PICK n \in 0 .. RxNb : RxRunOf(n)  BY DEF RxRun
<1>2. UNCHANGED <<rxOwn, rxBuf, rxCur, DMARxDescToGet, input>>
  BY DEF ETH_IRQHandler, ClearITPendingBits, rxVars
<1>3. AtFrame(eth)' = AtFrame(eth)
  BY DEF ETH_IRQHandler, ClearITPendingBits, rxVars, AtFrame
<1>4. Taken' = Taken  BY <1>2 DEF Taken, NextRx, RxRing
<1>5. Oldest' = Oldest  BY <1>2, <1>3, <1>4 DEF Oldest
<1>6. RxRunOf(n)'  BY <1>1, <1>2, <1>3, <1>5 DEF RxRunOf, RxDist, RxAhead, RxRing
<1>7. Waiting' = WaitsFor(DMARxDescToGet', Left(eth', n), rxBuf')
  BY <1>1, <1>6, WaitingIsNext
<1>8. Left(eth, n)' = Left(eth, n)  BY <1>3 DEF Left
<1>9. Waiting = WaitsFor(DMARxDescToGet, Left(eth, n), rxBuf)  BY <1>1, WaitingIs
<1>10. Waiting' = Waiting  BY <1>2, <1>7, <1>8, <1>9
<1> QED  BY <1>1, <1>2, <1>6, <1>10 DEF RxRun, OrderKept

LEMMA RxInitRun == EthInit => RxRun
<1> SUFFICES ASSUME EthInit PROVE RxRun  OBVIOUS
<1>1. 0 \in RxRing /\ 0 \in 0 .. RxNb  BY RingSizes DEF RxRing
<1>2. Oldest = 0 /\ rxCur = 0 /\ ~AtFrame(eth)  BY DEF EthInit, Oldest, AtFrame
<1>3. \A d \in RxRing : rxOwn[d] /\ ~(RxDist(0, d) < 0)
  <2>1. \A d \in RxRing : RxDist(0, d) \in Nat  BY RingSizes DEF RxDist, RxRing
  <2>2. \A x \in Nat : ~(x < 0)  OBVIOUS
  <2> QED  BY <2>1, <2>2 DEF EthInit
<1>4. RxAhead(0, 0) = 0  BY <1>1, RxPlaces
<1> QED  BY <1>1, <1>2, <1>3, <1>4 DEF RxRun, RxRunOf

LEMMA RxOrderNext ==
  ASSUME EthInv, EthInv', RxRun, [EthNext]_ethVars
  PROVE  RxRun' /\ OrderKept
<1>1. EthTypeOK /\ EthTypeOK'  BY DEF EthInv
<1>2. FrameReceived \/ Handler \/ UNCHANGED rxVars
  BY DEF EthNext, RxNext, TxNext, LowLevelOutput, Copy, Own, Resume, FrameSent, ethVars
<1> QED  BY <1>1, <1>2, RxReceived, RxTakes, RxGives, RxElse DEF Handler

(* For a receive ring of any size, whatever the DMA stores while the handler *)
(* runs: frames are taken in the order they came, each once and as it was    *)
(* received, and none is passed over (lan8720.c:185-211, ethernetif.c:63).   *)
THEOREM TakenInOrder == EthSpec => RxInOrder
<1>1. EthInv /\ EthInv' /\ RxRun /\ [EthNext]_ethVars => RxRun'
  BY RxOrderNext
<1>2. EthInv /\ EthInv' /\ RxRun /\ [EthNext]_ethVars => [OrderKept]_rxVars
  BY RxOrderNext
<1> QED  BY EthInitInv, EthNextInv, RxInitRun, <1>1, <1>2, PTL DEF EthSpec, RxInOrder, OrderKept
-----------------------------------------------------------------------------
(* Each line keeps its invariant while a behaviour follows another one.     *)
LinesInv == FrameInv /\ ImuInv /\ EthInv

LEMMA LinesInitInv == Init => LinesInv
BY FrameInitInv, ImuInitInv, EthInitInv DEF Init, LinesInv

LEMMA LinesNextInv == LinesInv /\ [Next]_lines => LinesInv'
<1> SUFFICES ASSUME LinesInv, [Next]_lines PROVE LinesInv'  OBVIOUS
<1>1. [FrameNext]_frameVars
  BY DEF Next, lines, Usart2, Usart6, EthRx, EthTx
<1>2. [ImuNext]_imuVars
  BY DEF Next, lines, Usart2, Usart6, EthRx, EthTx
<1>3. [EthNext]_ethVars
  BY DEF Next, lines, Usart2, Usart6, EthRx, EthTx, EthNext
<1> QED  BY <1>1, <1>2, <1>3, FrameNextInv, ImuNextInv, EthNextInv DEF LinesInv

(* The lines side by side keep their types, for any bytes, frames, packet    *)
(* length, payload and sizes of the rings: no index leaves its buffer or its *)
(* ring (usart.c:169, usart6.c:131, lan8720.c:211, 231).                     *)
THEOREM LinesKeepTypes == Spec => []LinesTypeOK
<1>1. LinesInv => LinesTypeOK
  BY DEF LinesInv, LinesTypeOK, FrameInv, ImuInv, EthInv
<1> QED  BY LinesInitInv, LinesNextInv, <1>1, PTL DEF Spec
=============================================================================
