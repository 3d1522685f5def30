----------------------------- MODULE DriveCommands -----------------------------
(****************************************************************************)
(* The numbers of a motion command on their way to the drives and back:     *)
(* the bytes of the command (ConvertData.c), speeds and steering            *)
(* (message.c, kinematics.c), the bytes of the CAN frames (driver.c, can.c),*)
(* what the drives answer, and the bytes of the reply.  The next command    *)
(* comes when the frames are out and none is lost: order and loss are       *)
(* RobotPipeline's subject.                                                 *)
(*                                                                          *)
(* A steering angle is named by its sine in thousandths, which up to 16     *)
(* degrees is the angle in rad too.  Speeds are in mm/s and r/min; a step   *)
(* that is a float in the code rounds to zero here.                         *)
(****************************************************************************)
EXTENDS Integers, Sequences

CONSTANTS Linkage,      \* sine of a steering angle -> pulses of the front drive
          Words         \* commands: [auto, a, v], the mode and two 16-bit words

Int16 == -2^15 .. 2^15 - 1
MaxSine == 275          \* 0.279 rad, the end of the travel
MaxPulses == 2583788    \* L0, L1 and L2 in a row
ASSUME LinkageAssumption ==
  /\ {-MaxSine, 0, MaxSine} \subseteq DOMAIN Linkage /\ DOMAIN Linkage \subseteq -MaxSine .. MaxSine
  /\ \A r, s \in DOMAIN Linkage : r < s => Linkage[r] < Linkage[s]
  /\ \A s \in DOMAIN Linkage : Linkage[s] \in -MaxPulses .. MaxPulses
  /\ Linkage[-MaxSine] <= 0 /\ Linkage[MaxSine] >= 0
  /\ Words \subseteq [auto : BOOLEAN, a : Int16, v : Int16]

Abs(a) == IF a >= 0 THEN a ELSE -a
Trunc(a, b) == IF (a >= 0) = (b > 0) THEN Abs(a) \div Abs(b) ELSE -(Abs(a) \div Abs(b))
Clamp(a, m) == IF a > m THEN m ELSE IF a < -m THEN -m ELSE a
Near(a, b, tolerance) == Abs(a - b) <= tolerance
-----------------------------------------------------------------------------
(* Bytes: big-endian in commands and replies, little-endian on the bus.      *)
Byte(x, k) == (x \div 256^k) % 256
Signed(x, w) == IF x >= 2^(w - 1) THEN x - 2^w ELSE x
short2hexbyte(x) == <<Byte(x, 1), Byte(x, 0)>>
hexbyte2short(b) == Signed(256 * b[1] + b[2], 16)

setSendFramData(cmd, object, param) ==
  <<cmd, Byte(object, 1), Byte(object, 2), Byte(object, 0),
    Byte(param, 0), Byte(param, 1), Byte(param, 2), Byte(param, 3)>>
Object(data) == 65536 * data[3] + 256 * data[2] + data[4]
Value(data) == 256^3 * Signed(data[8], 8) + 65536 * data[7] + 256 * data[6] + data[5]

GetCruPos == 6316800        \* 0x606300
GetVelocity == 6319104      \* 0x606c00
SetVelocity == 6356736      \* 0x60ff00
DTargetPostion == 6322688   \* 0x607a00
WBYTE4 == 35                \* 0x23
GETKEY == 64                \* 0x40
RBYTE4 == 67                \* 0x43
DEC == 2731                 \* per r/min
Rear == {1, 2}              \* LEFT_ID, RIGHT_ID; FRONT_ID is 3
-----------------------------------------------------------------------------
VARIABLES
  stage,        \* of MessageHandle: "idle", "poll", "set"
  word,         \* the command in its hands, or the last one
  given,        \* how often in a row it was given before, up to Settled
  DCQ,          \* frames to send, [ID, data]
  position, speed,          \* what the front drive, the rear drives were told and did
  CruPosition, CruVelocity, \* what the program knows of it
  reply         \* bytes of the last reply: angular velocity, velocity

driveVars == <<stage, word, given, DCQ, position, speed, CruPosition, CruVelocity, reply>>

Settled == 4    \* bound
Stop == [auto |-> FALSE, a |-> 0, v |-> 0]
DriveInit ==
  /\ stage = "idle" /\ word = Stop /\ given = 0 /\ DCQ = <<>>
  /\ position = Linkage[0] /\ speed = [d \in Rear |-> 0]
  /\ CruPosition = 0 /\ CruVelocity = [d \in Rear |-> 0]
  /\ reply = [w |-> <<0, 0>>, v |-> <<0, 0>>]
-----------------------------------------------------------------------------
(* Kinematics.  getCurAngle is the inverse of Angle2Position.                *)
Angle2Position(sine) == Linkage[Clamp(sine, MaxSine)]
CurSine == CHOOSE s \in DOMAIN Linkage :
             \A r \in DOMAIN Linkage : Abs(Linkage[s] - CruPosition) <= Abs(Linkage[r] - CruPosition)
Cosine == [s \in -MaxSine .. MaxSine |->
             CHOOSE c \in 900 .. 1000 : c * c <= 1000000 - s * s /\ (c + 1) * (c + 1) > 1000000 - s * s]
Rpm(v) == Trunc(v * 191, 100)           \* vRatioa
MmPerS(r) == Trunc(r * 100, 191)

(* v * (cos - Width * sin / Length); the right wheel is mirrored.            *)
getExpLeftVelocity(v) == Trunc(Rpm(v) * (Cosine[CurSine] - Trunc(CurSine * 305, 556)), 1000)
NotMirrored(v) == Trunc(Rpm(v) * (Cosine[CurSine] + Trunc(CurSine * 305, 556)), 1000)  \* slip
getExpRightVelocity(v) == Trunc(-Rpm(v) * (Cosine[CurSine] + Trunc(CurSine * 305, 556)), 1000)
getVelocity == Trunc(Trunc(CruVelocity[1] - CruVelocity[2], 2), DEC)
getCurVelocity == MmPerS(getVelocity)
getCurAngleVel ==                       \* in 0.0001 rad/s
  Trunc(Trunc(getCurVelocity * CurSine * 100, Cosine[CurSine]) * 100, 556)

(* AngleMotionCmdHandle: 16 degrees for 34.  340 is to be 1 m/s              *)
(* (message.c:17), but 1000*1/340 is 2, an int: it is 0.68.                  *)
AngleOf(a) == Trunc(a * 82, 10)
vRatio == 1000 \div 340

(* MotionCmdHandle: 0.5 rad/s in units of 0.0001, 1 m/s.                     *)
vLimit(v) == Clamp(v, 1000)
SineOf(w, v) == Trunc(Trunc(Clamp(w, 5000) * 556, 10), v)

(* asin of more than 1 is not a number, and an (int) of it any number.       *)
getExpPosition(w, v) ==
  IF v = 0 THEN {0}
  ELSE IF Abs(SineOf(w, v)) <= 1000 THEN {Angle2Position(SineOf(w, v))}
  ELSE {Linkage[s] : s \in DOMAIN Linkage}
-----------------------------------------------------------------------------
Frame(id, data) == [ID |-> id, data |-> data]

(* A command of 4 bytes comes; MotionFeedbackHandle polls the drives.        *)
MotionFeedbackHandle ==
  /\ stage = "idle" /\ DCQ = <<>> /\ stage' = "poll"
  /\ \E c \in Words :
       /\ word' = [c EXCEPT !.a = hexbyte2short(short2hexbyte(c.a)),
                           !.v = hexbyte2short(short2hexbyte(c.v))]
       /\ given' = IF c # word THEN 0 ELSE IF given < Settled THEN given + 1 ELSE given
  /\ DCQ' = <<Frame(3, setSendFramData(GETKEY, GetCruPos, 0)),
              Frame(1, setSendFramData(GETKEY, GetVelocity, 0)),
              Frame(2, setSendFramData(GETKEY, GetVelocity, 0))>>
  /\ UNCHANGED <<position, speed, CruPosition, CruVelocity, reply>>

(* ... and replies with what it knows 10 ms later: no answer yet when it runs *)
(* in a handler and holds up can_thread, all of them when it runs in a task.  *)
Reply ==
  /\ stage = "poll" /\ stage' = "set"
  /\ reply' = [w |-> short2hexbyte(getCurAngleVel), v |-> short2hexbyte(getCurVelocity)]
  /\ UNCHANGED <<word, given, DCQ, position, speed, CruPosition, CruVelocity>>

SetPoints(pos, v) ==
  DCQ' = DCQ \o
    <<Frame(3, setSendFramData(WBYTE4, DTargetPostion, pos)),
      Frame(1, setSendFramData(WBYTE4, SetVelocity, getExpLeftVelocity(v) * DEC)),
      Frame(2, setSendFramData(WBYTE4, SetVelocity, getExpRightVelocity(v) * DEC))>>

AngleMotionCmdHandle == ~word.auto /\ SetPoints(Angle2Position(AngleOf(word.a)), word.v * vRatio)

MotionCmdHandle ==
  /\ word.auto
  /\ \E pos \in getExpPosition(word.a, vLimit(word.v)) : SetPoints(pos, vLimit(word.v))

MotionHandle ==
  /\ stage = "set" /\ stage' = "idle"
  /\ AngleMotionCmdHandle \/ MotionCmdHandle
  /\ UNCHANGED <<word, given, position, speed, CruPosition, CruVelocity, reply>>

(* FeedbackMessge, for the frame ReadCan has read.                           *)
FeedbackMessge(id, data) ==
  /\ CruPosition' = IF data[1] = RBYTE4 /\ Object(data) = GetCruPos THEN Value(data) ELSE CruPosition
  /\ CruVelocity' = IF data[1] = RBYTE4 /\ Object(data) = GetVelocity /\ id - 1408 \in Rear
                    THEN [CruVelocity EXCEPT ![id - 1408] = Value(data)] ELSE CruVelocity

(* A drive listens to 0x600 and its number, answers from 0x580 and its       *)
(* number, and says what it does now.                                        *)
Answered(d, data) ==
  LET value == IF Object(data) = GetCruPos THEN position ELSE speed[d]
  IN <<RBYTE4, data[2], data[3], data[4],
       value % 256, (value \div 256) % 256, (value \div 65536) % 256, (value \div 256^3) % 256>>
DriveObeys(d, data) ==
  /\ position' = IF d = 3 /\ Object(data) = DTargetPostion THEN Value(data) ELSE position
  /\ speed' = IF d \in Rear /\ Object(data) = SetVelocity THEN [speed EXCEPT ![d] = Value(data)] ELSE speed

(* One round of can_thread: SendCan, and ReadCan for the answer.             *)
StdId(f) == (f.ID + 1536) % 2048
can_thread ==
  /\ DCQ # <<>> /\ DCQ' = Tail(DCQ)
  /\ LET d == StdId(Head(DCQ)) - 1536
         data == Head(DCQ).data
     IN IF data[1] = GETKEY
        THEN FeedbackMessge(1408 + d, Answered(d, data)) /\ UNCHANGED <<position, speed>>
        ELSE DriveObeys(d, data) /\ UNCHANGED <<CruPosition, CruVelocity>>
  /\ UNCHANGED <<stage, word, given, reply>>

DriveNext == MotionFeedbackHandle \/ Reply \/ MotionHandle \/ can_thread
DriveSpec == DriveInit /\ [][DriveNext]_driveVars
-----------------------------------------------------------------------------
Bytes == 0 .. 255
DriveTypeOK ==
  /\ stage \in {"idle", "poll", "set"}
  /\ \A f \in {DCQ[i] : i \in DOMAIN DCQ} : f.ID \in 1 .. 3 /\ f.data \in [1 .. 8 -> Bytes]
  /\ reply.w \in [1 .. 2 -> Bytes] /\ reply.v \in [1 .. 2 -> Bytes]
  /\ position \in Linkage[-MaxSine] .. Linkage[MaxSine]
  /\ \A d \in Rear : Near(speed[d], 0, DEC * 5 * 32768)

(* The speed and the sine of the steering angle a command asks for, and      *)
(* whether the robot can turn like that.                                     *)
Asked(c) == IF c.auto THEN Clamp(c.v, 1000) ELSE 2 * c.v
AskedSine(c) ==
  IF ~c.auto THEN Clamp(Trunc(c.a * 82, 10), MaxSine)
  ELSE IF c.v = 0 THEN 0
  ELSE Clamp(Trunc(Clamp(c.a, 5000) * 556, 10 * Clamp(c.v, 1000)), MaxSine)
ASSUME WordsAssumption == \A c \in Words : AskedSine(c) \in DOMAIN Linkage
Drivable(c) ==
  /\ Abs(Asked(c)) <= 1000
  /\ c.auto /\ c.v # 0 => Abs(Clamp(c.a, 5000)) * 556 <= 10000 * Abs(Clamp(c.v, 1000))
ItsReply == stage = "set" /\ given = Settled

(* Once a command was given often enough for the answers to come in, for the *)
(* wheels to follow the angle and for both to be polled, the reply says what *)
(* was asked for: through both byte orders, the identifiers, the mirrored    *)
(* wheel and the linkage, for signed speeds and angles; within 3 mm/s and    *)
(* 0.004 rad/s, at up to 1 m/s.  A turn of 0.5 rad/s can be driven at        *)
(* 278 mm/s and more: below, kinematics.c:76 takes the asin of more than 1.  *)
MotionReported ==
  ItsReply /\ Drivable(word) =>
    LET v == Asked(word)
        s == AskedSine(word)
    IN /\ Near(hexbyte2short(reply.v), Trunc(v * Cosine[s], 1000), 3)
       /\ Near(hexbyte2short(reply.w), Trunc(v * s * 10, 556), 40)
=============================================================================
