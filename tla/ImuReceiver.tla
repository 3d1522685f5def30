----------------------------- MODULE ImuReceiver -----------------------------
(****************************************************************************)
(* The motion sensor's line (USART6): the handler collects a window of      *)
(* three packets (UsartRcvIMUDataHandle, SYSTEM/USART6/usart6.c), the task  *)
(* decodes it (MPU6050_thread, EXTER_SENSOR/MPU6050.c).                     *)
(*                                                                          *)
(* The sensor sends bursts of three packets, acceleration, rate and angle,  *)
(* each MARK, its type and a payload.  Nothing but MARK tells where a       *)
(* window may begin, and a MARK may be a payload byte.                      *)
(****************************************************************************)
EXTENDS Integers, Sequences

CONSTANTS MARK,         \* 0x55
          Types,        \* <<0x51, 0x52, 0x53>>
          Payload,      \* values of the payload byte Yaw is computed from
          PacketLen,    \* 11
          MaxMissed     \* bound: bytes missed by the UART

WindowLen == 3 * PacketLen

ASSUME ImuAssumption ==
  /\ PacketLen \in Nat /\ PacketLen > 2 /\ MaxMissed \in Nat
  /\ Types \in Seq(Nat) /\ Len(Types) = 3 /\ Types[3] \notin {Types[1], Types[2]}
  /\ MARK \in Nat /\ Payload \subseteq Nat

VARIABLES
  USART6_RX_STA,    \* bytes in the buffer
  complete,         \* its bit 15
  USART6_RX_BUF,
  Yaw,              \* the angle last decoded
  task,             \* where the task is
  sentAt,           \* bytes of the burst on the line that were sent
  angle,            \* the angle this burst carries
  missed,           \* bytes missed
  origin,           \* byte of a burst the window began with, 0: none
  clean,            \* ... and no byte was missed in the window
  expected          \* the angle in the window

imuRx == <<USART6_RX_STA, complete, USART6_RX_BUF>>
sensor == <<sentAt, angle>>
window == <<origin, clean, expected>>
imuVars == <<imuRx, Yaw, task, sensor, missed, window>>

ImuInit ==
  /\ USART6_RX_STA = 0 /\ complete = FALSE
  /\ USART6_RX_BUF = [i \in 0 .. WindowLen - 1 |-> 0]
  /\ Yaw = 0 /\ task = "test"
  /\ sentAt \in 1 .. WindowLen /\ angle \in Payload
  /\ missed = 0 /\ origin = 0 /\ clean = FALSE /\ expected = 0

(* The byte Yaw is computed from comes last (the 7th and 8th of 11 do).      *)
Packet(i) == (i - 1) \div PacketLen + 1
Place(i) == (i - 1) % PacketLen
ByteOf(i, a) ==
  IF Place(i) = 0 THEN {MARK}
  ELSE IF Place(i) = 1 THEN {Types[Packet(i)]}
  ELSE IF i = WindowLen THEN {a} ELSE Payload
-----------------------------------------------------------------------------
StoresAlways(b) == USART6_RX_STA > 0 \/ b = MARK    \* slip: bit 15 is not tested

(* A byte is dropped while the window waits for the task, and between        *)
(* windows until a MARK.  USART6_MAX_RECV_LEN is never reached.              *)
Stores(b) == ~complete /\ (USART6_RX_STA > 0 \/ b = MARK)

ClosesLate ==           \* slip: the window is one byte longer
  complete' = (USART6_RX_STA' > WindowLen)
Closes == complete' = (USART6_RX_STA' >= WindowLen)

UsartRcvIMUDataHandle(b) ==
  /\ USART6_RX_STA' = USART6_RX_STA + 1 /\ Closes
  /\ USART6_RX_BUF' = [USART6_RX_BUF EXCEPT ![USART6_RX_STA] = b]

(* What the window holds, for the properties.                                *)
Track(i, a) ==
  /\ origin' = IF USART6_RX_STA = 0 THEN i ELSE origin
  /\ clean' = (USART6_RX_STA = 0 \/ clean)
  /\ expected' = IF i = WindowLen THEN a ELSE expected

Advance(i, a) ==
  /\ sentAt' = i /\ angle' = a
  /\ IF sentAt < WindowLen THEN i = sentAt + 1 /\ a = angle ELSE i = 1 /\ a \in Payload

USART6_IRQHandler ==
  \E i \in 1 .. WindowLen, a \in Payload : \E b \in ByteOf(i, a) :
    /\ Advance(i, a)
    /\ IF Stores(b)
       THEN UsartRcvIMUDataHandle(b) /\ Track(i, a)
       ELSE UNCHANGED <<imuRx, window>>
    /\ UNCHANGED <<Yaw, task, missed>>

(* USART2's handler has the same priority: while it is in MessageHandle      *)
(* bytes of USART6 are lost.                                                 *)
ByteMissed ==
  /\ missed < MaxMissed /\ missed' = missed + 1
  /\ \E i \in 1 .. WindowLen, a \in Payload : Advance(i, a)
  /\ clean' = FALSE
  /\ UNCHANGED <<imuRx, Yaw, task, origin, expected>>

TaskTest ==
  /\ task = "test" /\ complete /\ task' = "angle"
  /\ UNCHANGED <<imuRx, Yaw, sensor, missed, window>>

(* Accelerations and rates are decoded likewise, into locals of the task.    *)
TaskAngle ==
  /\ task = "angle" /\ task' = "clear"
  /\ Yaw' = IF USART6_RX_BUF[2 * PacketLen + 1] = Types[3]
            THEN USART6_RX_BUF[3 * PacketLen - 1] ELSE Yaw
  /\ UNCHANGED <<imuRx, sensor, missed, window>>

TaskClear ==
  /\ task = "clear" /\ task' = "test"
  /\ USART6_RX_STA' = 0 /\ complete' = FALSE
  /\ UNCHANGED <<USART6_RX_BUF, Yaw, sensor, missed, window>>

MPU6050_thread == TaskTest \/ TaskAngle \/ TaskClear
ImuNext == USART6_IRQHandler \/ ByteMissed \/ MPU6050_thread
ImuSpec == ImuInit /\ [][ImuNext]_imuVars
-----------------------------------------------------------------------------
Stored == Payload \cup {0, MARK} \cup {Types[k] : k \in 1 .. 3}
ImuTypeOK ==
  /\ USART6_RX_STA \in 0 .. WindowLen /\ complete = (USART6_RX_STA = WindowLen)
  /\ USART6_RX_BUF \in [0 .. WindowLen - 1 -> Stored]
  /\ Yaw \in Stored /\ task \in {"test", "angle", "clear"}
  /\ sentAt \in 1 .. WindowLen /\ angle \in Payload
  /\ missed \in 0 .. MaxMissed
  /\ origin \in 0 .. WindowLen /\ clean \in BOOLEAN /\ expected \in Payload \cup {0}

(* Whenever the task comes to it, and whatever the handler does meanwhile: a *)
(* window that begins with a packet and misses no byte sets Yaw to the angle *)
(* of its own burst if it begins with the burst, and leaves Yaw alone if it  *)
(* begins with the second or third packet (MPU6050.c:41-46).                 *)
WindowDecoded ==
  [][(task = "angle" /\ task' = "clear" /\ clean /\ Place(origin) = 0)
       => Yaw' = IF origin = 1 THEN expected ELSE Yaw]_imuVars

(* Windows that begin inside a burst decode no angle, and one can follow the *)
(* other for ever.  They end, and angles come again, once the task decodes   *)
(* in the pauses between bursts.                                             *)
AngleReturns ==
  <>[](task = "clear" => sentAt = WindowLen) =>
    []<>(task = "clear" /\ clean /\ origin = 1)
=============================================================================
