------------------------------ MODULE UsartFrame ------------------------------
(****************************************************************************)
(* The parser of command frames in the handlers of USART1 and USART2        *)
(* (UsartRcvDataHandle, SYSTEM/usart/usart.c; UsartRcvRobotDataHandle,      *)
(* SYSTEM/USART2/usart2.c; the same code twice), one byte per step, with    *)
(* the line it listens to.                                                  *)
(*                                                                          *)
(* A frame is HEAD, three bytes, the number of data bytes, the data and a   *)
(* check byte.  The handler calls MessageHandle when a frame is complete    *)
(* and is deaf meanwhile: the UART keeps one byte and drops the rest.       *)
(****************************************************************************)
EXTENDS Integers, Sequences

CONSTANTS Bytes, HEAD,  \* HEAD is 0xAA
          Frames,       \* what the peer sends
          RxLen,        \* USART_REC_LEN, USART2_MAX_RECV_LEN
          Memory,       \* RxLen and what lies behind it: 255 + EXTERN_BUFSIZE
          NoByte, MaxDropped   \* bound: bytes dropped by the line or the UART

EXTERN_BUFSIZE == 6
LENGTH == EXTERN_BUFSIZE - 2        \* index of the number of data bytes

ASSUME FrameAssumption ==
  /\ HEAD \in Bytes /\ Bytes \subseteq Nat /\ NoByte \notin Bytes
  /\ RxLen \in Nat /\ Memory \in Nat /\ RxLen <= Memory /\ MaxDropped \in Nat
  /\ \A b \in Bytes : b + EXTERN_BUFSIZE <= Memory
  /\ Frames # {}
  /\ \A f \in Frames : /\ f \in Seq(Bytes) /\ Len(f) > LENGTH /\ f[1] = HEAD
                       /\ Len(f) = f[LENGTH + 1] + EXTERN_BUFSIZE /\ Len(f) <= RxLen

VARIABLES
  STA,      \* USART_RX_STA: bytes in the buffer ...
  done,     \* ... and its bit 15
  BUF,      \* memory from USART_RX_BUF on
  DR,       \* the byte the UART holds while the handler is in MessageHandle
  busy,     \* the handler is in MessageHandle
  msg,      \* what MessageHandle was last given
  frame,    \* the frame on the line
  at,       \* ... and how many of its bytes have been sent
  whole,    \* the parser was idle when it began and has missed none of it
  dropped   \* bytes dropped

parser == <<STA, done, BUF, busy, msg>>
frameVars == <<parser, DR, frame, at, whole, dropped>>

(* After reset the peer may be anywhere in a frame.                          *)
FrameInit ==
  /\ STA = 0 /\ done = FALSE /\ BUF = [i \in 0 .. Memory - 1 |-> 0]
  /\ DR = NoByte /\ busy = FALSE /\ msg = <<>>
  /\ frame \in Frames /\ at \in 1 .. Len(frame) /\ whole = FALSE
  /\ dropped = 0
-----------------------------------------------------------------------------
StoreLate(b) ==         \* slip: the index is incremented after the test
  LET buf == [BUF EXCEPT ![STA] = b]
      complete == STA > LENGTH /\ buf[LENGTH] + EXTERN_BUFSIZE = STA
  IN /\ BUF' = buf /\ STA' = STA + 1
     /\ done' = complete /\ busy' = complete
     /\ msg' = IF complete THEN [i \in 1 .. STA |-> buf[i - 1]] ELSE msg

Store(b) ==
  LET n == STA + 1
      buf == [BUF EXCEPT ![STA] = b]
      complete == n > LENGTH /\ buf[LENGTH] + EXTERN_BUFSIZE = n
  IN /\ BUF' = buf /\ STA' = n
     /\ done' = complete /\ busy' = complete
     /\ msg' = IF complete THEN [i \in 1 .. n |-> buf[i - 1]] ELSE msg

StartAnywhere(b) ==     \* slip: takes the byte after a message for a head
  /\ STA' = 1 /\ done' = FALSE /\ BUF' = [BUF EXCEPT ![0] = b]
  /\ UNCHANGED <<busy, msg>>

(* After a complete message the parser waits for a head.                     *)
Start(b) ==
  IF b = HEAD THEN /\ STA' = 1 /\ done' = FALSE /\ BUF' = [BUF EXCEPT ![0] = b]
                   /\ UNCHANGED <<busy, msg>>
  ELSE UNCHANGED parser

UsartRcvDataHandle(b) == IF done THEN Start(b) ELSE Store(b)

(* A byte for the UART: the handler takes it, or it waits in DR, or it is    *)
(* dropped because DR is full.                                               *)
Idle == done \/ STA = 0
Receive(b) ==
  \/ /\ ~busy /\ DR = NoByte
     /\ UsartRcvDataHandle(b)
     /\ UNCHANGED <<DR, dropped>>
  \/ /\ busy /\ DR = NoByte
     /\ DR' = b
     /\ UNCHANGED <<parser, dropped>>
  \/ /\ busy /\ DR # NoByte /\ dropped < MaxDropped
     /\ dropped' = dropped + 1
     /\ UNCHANGED <<parser, DR>>

(* The line: the next byte of the frame, or the first of another one.        *)
Send(b) ==
  \/ /\ at < Len(frame) /\ b = frame[at + 1]
     /\ at' = at + 1 /\ UNCHANGED frame
     /\ whole' = (whole /\ DR = NoByte)
  \/ /\ at = Len(frame) /\ b = HEAD
     /\ frame' \in Frames /\ at' = 1
     /\ whole' = (Idle /\ DR = NoByte)

USART_IRQHandler == \E b \in Bytes : Send(b) /\ Receive(b)

LineDrops ==
  /\ dropped < MaxDropped /\ dropped' = dropped + 1
  /\ \/ /\ at < Len(frame)
        /\ at' = at + 1 /\ UNCHANGED frame
     \/ /\ at = Len(frame)
        /\ frame' \in Frames /\ at' = 1
  /\ whole' = FALSE
  /\ UNCHANGED <<parser, DR>>

(* MessageHandle returns; the byte that waits enters the handler again.      *)
MessageHandleReturns ==
  /\ busy /\ busy' = FALSE
  /\ UNCHANGED <<STA, done, BUF, msg, DR, frame, at, whole, dropped>>

HeldByte ==
  /\ ~busy /\ DR # NoByte /\ DR' = NoByte
  /\ UsartRcvDataHandle(DR)
  /\ UNCHANGED <<frame, at, whole, dropped>>

FrameNext == USART_IRQHandler \/ LineDrops \/ MessageHandleReturns \/ HeldByte
FrameSpec == FrameInit /\ [][FrameNext]_frameVars
-----------------------------------------------------------------------------
(* The index is not compared with the size of the buffer: a length byte that *)
(* was not sent as one can take it up to Memory, and no further.             *)
FrameTypeOK ==
  /\ STA \in 0 .. Memory /\ done \in BOOLEAN
  /\ BUF \in [0 .. Memory - 1 -> Bytes \cup {0}]
  /\ DR \in Bytes \cup {NoByte} /\ busy \in BOOLEAN
  /\ msg \in Seq(Bytes \cup {0})
  /\ frame \in Frames /\ at \in 1 .. Len(frame) /\ whole \in BOOLEAN
  /\ dropped \in 0 .. MaxDropped

(* Bytes of the frame the parser has seen; one may wait in DR.               *)
Seen == IF DR = NoByte THEN at ELSE at - 1

(* A frame that finds the parser idle and of which no byte is dropped is     *)
(* given to MessageHandle exactly as it was sent, with its last byte, though *)
(* its data may look like a head and whatever an earlier frame has left in   *)
(* the buffer; until then nothing else is (usart.c:169-175).                 *)
FrameHandled ==
  whole => IF Seen = Len(frame) THEN done /\ msg = frame
           ELSE Seen > 0 => /\ ~done /\ ~busy /\ STA = Seen
                            /\ \A i \in 1 .. Seen : BUF[i - 1] = frame[i]

(* After bytes were dropped the parser comes back in step, if no data byte   *)
(* looks like a head from some time on; the frames from then on are handled. *)
NoInnerHead == \A i \in 2 .. Len(frame) : frame[i] # HEAD
FrameRecovers == <>[]NoInnerHead => []<>(whole /\ at = Len(frame) /\ DR = NoByte)
=============================================================================
