------------------------- MODULE RobotPipelineProofs -------------------------
(****************************************************************************)
(* Proofs about the command path for every set of sources and handlers,     *)
(* every assignment of priorities, every capacity of the queue that holds   *)
(* the frames of boot, and any number of messages, late answers and lost    *)
(* frames.                                                                  *)
(****************************************************************************)
EXTENDS RobotPipeline, SequenceTheorems, TLAPS

(* The invariant is the conjunction of the parts that follow.               *)
Ops == {"setup", "tvel", "enable", "get", "set"}
Frames == [to : Drives \cup {"nobody"}, op : Ops, n : Nat]
DriveFrames == [to : Drives, op : Ops, n : Nat]

Types ==
  /\ booting \in Seq(Frames) /\ Len(booting) <= 9 /\ started \in BOOLEAN
  /\ \A i \in DOMAIN booting : booting[i].op = "setup"
  /\ DCQ \in Seq(Frames) /\ Len(DCQ) <= MaxCount
  /\ pc \in [Sources -> {"idle", "enqueue", "wait", "answer", "dispatch"}]
  /\ req \in [Sources -> Nat]
  /\ todo \in [Sources -> Seq(DriveFrames)]
  /\ \A s \in Sources : (pc[s] = "enqueue") = (todo[s] # <<>>)
  /\ canPc \in {"poll", "busy", "sleep"}
  /\ rx \in Seq(DriveFrames) /\ Len(rx) <= RxDepth
  /\ answers \in [Drives -> Seq(DriveFrames)]
  /\ cur \in [Drives -> Nat] /\ target \in [Drives -> Nat]
  /\ enabled \subseteq Drives
  /\ arrived \in Nat /\ motions \in Nat /\ late \in Nat /\ losses \in Nat
  /\ flushed \in BOOLEAN /\ overlapped \in BOOLEAN
  /\ lastPoll \in [Drives -> Nat]

(* Polls carry the number of a message, set points that of a command.       *)
Known(f, a, m) == (f.op = "get" => f.n <= a) /\ (f.op = "set" => f.n <= m)
Numbers ==
  /\ \A s \in Sources : req[s] <= arrived /\ \A i \in DOMAIN todo[s] : Known(todo[s][i], arrived, motions)
  /\ \A i \in DOMAIN DCQ : Known(DCQ[i], arrived, motions)
  /\ \A i \in DOMAIN rx : Known(rx[i], arrived, motions)
  /\ \A d \in Drives : \A i \in DOMAIN answers[d] : Known(answers[d][i], arrived, motions)
  /\ \A d \in Drives : cur[d] <= arrived /\ target[d] <= motions

(* What a source has still to enqueue is of one kind and one number.        *)
Uniform ==
  \A s \in Sources : \A i, j \in DOMAIN todo[s] :
    todo[s][i].op = todo[s][j].op /\ todo[s][i].n = todo[s][j].n

(* A drive is enabled, or it stands still and its enable frame waits ahead  *)
(* of all its set points.                                                   *)
SetFor(d, f) == f.op = "set" /\ f.to = d
EnableAhead(d) ==
  /\ target[d] = 0
  /\ \E i \in DOMAIN DCQ :
       /\ DCQ[i].op = "enable" /\ DCQ[i].to = d
       /\ \A j \in DOMAIN DCQ : SetFor(d, DCQ[j]) => i < j
EnableOrder == ~flushed /\ losses = 0 => \A d \in Drives : d \in enabled \/ EnableAhead(d)

(* Set points that do not overlap are numbered in the order they go from    *)
(* the sources through the queue to the drives.                             *)
QueueOrder ==
  \A i, j \in DOMAIN DCQ : i < j /\ DCQ[i].op = "set" /\ DCQ[j].op = "set" => DCQ[i].n <= DCQ[j].n
DriveOrder == \A d \in Drives : \A i \in DOMAIN DCQ : DCQ[i].op = "set" => target[d] <= DCQ[i].n
SourceOrder(s) ==
  \A k \in DOMAIN todo[s] : todo[s][k].op = "set" =>
    /\ \A d \in Drives : target[d] <= todo[s][k].n
    /\ \A i \in DOMAIN DCQ : DCQ[i].op = "set" => DCQ[i].n <= todo[s][k].n
Ordered == QueueOrder /\ DriveOrder /\ \A s \in Sources : SourceOrder(s)
SetOrder == ~overlapped => Ordered

(* The last command is on its way to each drive, or has arrived.            *)
IsLast(d, f) == SetFor(d, f) /\ f.n = motions
LastSet(d) ==
  \/ target[d] = motions
  \/ \E i \in DOMAIN DCQ : IsLast(d, DCQ[i])
  \/ \E s \in Sources : \E k \in DOMAIN todo[s] : IsLast(d, todo[s][k])
SetArrives == ~flushed /\ losses = 0 /\ ~overlapped => \A d \in Drives : LastSet(d)

(* The last poll of each drive is in the queue, no other behind it, or its  *)
(* answer is on its way, or the answer was read.                            *)
PollOf(d, f) == f.op = "get" /\ f.to = d
Elems(q) == {q[i] : i \in DOMAIN q}
Flying == Elems(rx) \cup UNION {Elems(answers[d]) : d \in Drives}
LastGet(d) ==
  \/ \E i \in DOMAIN DCQ :
       /\ PollOf(d, DCQ[i]) /\ DCQ[i].n = lastPoll[d]
       /\ \A j \in DOMAIN DCQ : i < j => ~PollOf(d, DCQ[j])
  \/ /\ \A j \in DOMAIN DCQ : ~PollOf(d, DCQ[j])
     /\ \/ \E f \in Flying : PollOf(d, f) /\ f.n = lastPoll[d]
        \/ cur[d] = lastPoll[d] /\ \A f \in Flying : ~PollOf(d, f)
PollArrives == ~flushed /\ losses = 0 /\ late = 0 => \A d \in Drives : LastGet(d)

IInv ==
  /\ Types /\ Numbers /\ Uniform /\ SkewBounded /\ EnableOrder /\ SetOrder /\ SetArrives
  /\ PollArrives
-----------------------------------------------------------------------------
(* What Append and Tail do to the elements of a sequence.                   *)
LEMMA Appended ==
  ASSUME NEW S, NEW q \in Seq(S), NEW f \in S
  PROVE  /\ Append(q, f) \in Seq(S) /\ Len(Append(q, f)) = Len(q) + 1
         /\ Len(q) \in Nat /\ DOMAIN q = 1 .. Len(q) /\ DOMAIN Append(q, f) = 1 .. Len(q) + 1
         /\ \A i \in 1 .. Len(q) : Append(q, f)[i] = q[i]
         /\ Append(q, f)[Len(q) + 1] = f
         /\ Append(q, f) # <<>>
OBVIOUS

LEMMA Shortened ==
  ASSUME NEW S, NEW q \in Seq(S), q # <<>>
  PROVE  /\ Tail(q) \in Seq(S) /\ Len(Tail(q)) = Len(q) - 1
         /\ Len(q) \in Nat \ {0} /\ DOMAIN q = 1 .. Len(q) /\ DOMAIN Tail(q) = 1 .. Len(q) - 1
         /\ \A i \in 1 .. Len(q) - 1 : Tail(q)[i] = q[i + 1]
         /\ Head(q) = q[1] /\ q[1] \in S
         /\ (Len(q) > 1) = (Tail(q) # <<>>)
<1>1. Len(q) \in Nat \ {0} /\ DOMAIN q = 1 .. Len(q) /\ Head(q) = q[1] /\ q[1] \in S
  OBVIOUS
<1>2. /\ Tail(q) \in Seq(S) /\ Len(Tail(q)) = Len(q) - 1
      /\ \A i \in 1 .. Len(q) - 1 : Tail(q)[i] = q[i + 1]
  OBVIOUS
<1>3. DOMAIN Tail(q) = 1 .. Len(q) - 1
  BY <1>2
<1>4. Tail(q) = <<>> <=> Len(Tail(q)) = 0
  BY <1>2, EmptySeq
<1>5. Len(q) > 1 <=> Tail(q) # <<>>
  BY <1>1, <1>2, <1>4
<1> QED
  BY <1>1, <1>2, <1>3, <1>5

LEMMA One ==
  ASSUME NEW S, NEW f \in S
  PROVE  <<f>> \in Seq(S) /\ Len(<<f>>) = 1 /\ DOMAIN <<f>> = {1} /\ <<f>>[1] = f
OBVIOUS

LEMMA Triple ==
  ASSUME NEW o \in Ops, NEW k \in Nat
  PROVE  /\ ForEach(o, k) \in Seq(DriveFrames) /\ Len(ForEach(o, k)) = 3
         /\ ForEach(o, k) # <<>> /\ DOMAIN ForEach(o, k) = 1 .. 3
         /\ \A i \in 1 .. 3 : ForEach(o, k)[i].op = o /\ ForEach(o, k)[i].n = k
         /\ ForEach(o, k)[1].to = "FRONT" /\ ForEach(o, k)[2].to = "LEFT"
         /\ ForEach(o, k)[3].to = "RIGHT"
BY DEF ForEach, Frame, DriveFrames, Drives

LEMMA TwoTriples ==
  ASSUME NEW S, NEW a \in Seq(S), NEW b \in Seq(S), Len(a) = 3, Len(b) = 3
  PROVE  /\ a \o b \in Seq(S) /\ Len(a \o b) = 6
         /\ \A i \in 1 .. 6 : (a \o b)[i] = IF i <= 3 THEN a[i] ELSE b[i - 3]
<1>1. /\ a \o b \in Seq(S) /\ Len(a \o b) = Len(a) + Len(b)
      /\ \A i \in 1 .. Len(a) + Len(b) : (a \o b)[i] = IF i <= Len(a) THEN a[i] ELSE b[i - Len(a)]
  BY ConcatProperties, Zenon
<1> QED
  BY <1>1

(* The frames of boot.                                                      *)
LEMMA BootFrames ==
  /\ InitDriverCmds \in Seq(Frames) /\ Len(InitDriverCmds) = 6
  /\ \A i \in 1 .. 6 : InitDriverCmds[i].op \in {"tvel", "enable"} /\ InitDriverCmds[i].n = 0
  /\ \A d \in Drives : \E i \in 1 .. 6 :
       InitDriverCmds[i].op = "enable" /\ InitDriverCmds[i].to = d
  /\ InitDriverFrames \in Seq(Frames) /\ Len(InitDriverFrames) = 9
  /\ \A i \in 1 .. 9 : InitDriverFrames[i].op = "setup"
<1> DEFINE A == ForEach("tvel", 0)
           B == ForEach("enable", 0)
<1>1. A \in Seq(DriveFrames) /\ B \in Seq(DriveFrames) /\ Len(A) = 3 /\ Len(B) = 3
  BY Triple DEF Ops
<1>2. DriveFrames \subseteq Frames
  BY DEF DriveFrames, Frames
<1>3. A \in Seq(Frames) /\ B \in Seq(Frames)
  BY <1>1, <1>2
<1>8. /\ \A i \in 1 .. 3 : A[i].op = "tvel" /\ A[i].n = 0 /\ B[i].op = "enable" /\ B[i].n = 0
      /\ B[1].to = "FRONT" /\ B[2].to = "LEFT" /\ B[3].to = "RIGHT"
  BY Triple DEF Ops
<1>9. InitDriverCmds = A \o B
  BY DEF InitDriverCmds
<1> HIDE DEF A, B
<1>4. /\ A \o B \in Seq(Frames) /\ Len(A \o B) = 6
      /\ \A i \in 1 .. 6 : (A \o B)[i] = IF i <= 3 THEN A[i] ELSE B[i - 3]
  BY <1>1, <1>3, TwoTriples
<1>5. \A i \in 1 .. 6 : (A \o B)[i].op \in {"tvel", "enable"} /\ (A \o B)[i].n = 0
  BY <1>4, <1>8
<1>6. \A d \in Drives : \E i \in 1 .. 6 : (A \o B)[i].op = "enable" /\ (A \o B)[i].to = d
  <2>2. (A \o B)[4] = B[1] /\ (A \o B)[5] = B[2] /\ (A \o B)[6] = B[3]
    BY <1>4
  <2>3. \A i \in 4 .. 6 : (A \o B)[i].op = "enable"
    BY <1>8, <1>4
  <2>4. /\ (A \o B)[4].to = "FRONT" /\ (A \o B)[5].to = "LEFT" /\ (A \o B)[6].to = "RIGHT"
    BY <1>8, <2>2
  <2>5. 4 \in 1 .. 6 /\ 5 \in 1 .. 6 /\ 6 \in 1 .. 6 /\ 4 \in 4 .. 6 /\ 5 \in 4 .. 6 /\ 6 \in 4 .. 6
    OBVIOUS
  <2> QED
    BY <2>3, <2>4, <2>5 DEF Drives
<1>7. /\ InitDriverFrames \in Seq(Frames) /\ Len(InitDriverFrames) = 9
      /\ \A i \in 1 .. 9 : InitDriverFrames[i].op = "setup"
  BY DEF InitDriverFrames, Frame, Frames, Ops
<1> QED
  BY <1>9, <1>4, <1>5, <1>6, <1>7
-----------------------------------------------------------------------------
LEMMA InitTypes == Init => Types
<1> SUFFICES ASSUME Init PROVE Types
  OBVIOUS
<1>1. /\ booting \in Seq(Frames) /\ Len(booting) <= 9
      /\ \A i \in DOMAIN booting : booting[i].op = "setup"
  BY BootFrames DEF Init
<1>2. DCQ \in Seq(Frames) /\ Len(DCQ) <= MaxCount
  BY BootFrames, PipelineAssumption DEF Init
<1>3. <<>> \in Seq(DriveFrames) /\ Len(<<>>) = 0
  BY EmptySeq
<1>4. /\ pc \in [Sources -> {"idle", "enqueue", "wait", "answer", "dispatch"}]
      /\ todo \in [Sources -> Seq(DriveFrames)]
      /\ \A s \in Sources : pc[s] # "enqueue" /\ todo[s] = <<>>
  BY <1>3 DEF Init
<1>5. rx \in Seq(DriveFrames) /\ Len(rx) <= RxDepth /\ answers \in [Drives -> Seq(DriveFrames)]
  BY <1>3 DEF Init, RxDepth
<1> QED
  BY <1>1, <1>2, <1>4, <1>5 DEF Init, Types

(* EnQueueinter either adds a frame or leaves it alone in the queue.        *)
LEMMA EnQueueKeeps ==
  ASSUME NEW f \in Frames, DCQ \in Seq(Frames), Len(DCQ) <= MaxCount, flushed \in BOOLEAN, EnQueue(f)
  PROVE  DCQ' \in Seq(Frames) /\ Len(DCQ') <= MaxCount /\ flushed' \in BOOLEAN
<1>1. CASE Len(DCQ) >= MaxCount
  BY <1>1, One, PipelineAssumption DEF EnQueue
<1>2. CASE Len(DCQ) < MaxCount
  BY <1>2, Appended, PipelineAssumption DEF EnQueue
<1> QED
  BY <1>1, <1>2, PipelineAssumption

LEMMA TypesNext == Types /\ [Next]_vars => Types'
<1> SUFFICES ASSUME Types, [Next]_vars PROVE Types'
  OBVIOUS
<1>0. DriveFrames \subseteq Frames
  BY DEF DriveFrames, Frames
<1>1. CASE BootEnqueue
  <2>1. /\ Head(booting) \in Frames /\ booting' \in Seq(Frames) /\ Len(booting') <= 9
        /\ \A i \in DOMAIN booting' : booting'[i].op = "setup"
    BY <1>1, Shortened DEF BootEnqueue, Types
  <2>2. DCQ' \in Seq(Frames) /\ Len(DCQ') <= MaxCount /\ flushed' \in BOOLEAN
    BY <1>1, <2>1, EnQueueKeeps DEF BootEnqueue, Types
  <2> QED
    BY <1>1, <2>1, <2>2 DEF BootEnqueue, Types, sources, bus, counters
<1>2. CASE OSStart
  BY <1>2 DEF OSStart, Types, sources, bus, counters, history
<1>3. ASSUME NEW s \in Sources, Receive(s) PROVE Types'
  <2>1. arrived + 1 \in Nat
    BY DEF Types
  <2>2. ForEach("get", arrived + 1) \in Seq(DriveFrames) /\ ForEach("get", arrived + 1) # <<>>
    BY <2>1, Triple DEF Ops
  <2> QED
    BY <1>3, <2>1, <2>2 DEF Receive, Types, bus, history
<1>4. ASSUME NEW s \in Sources, Enqueue(s) PROVE Types'
  <2>1. todo[s] # <<>> /\ todo[s] \in Seq(DriveFrames)
    BY <1>4 DEF Enqueue, Types
  <2>2. /\ Head(todo[s]) \in DriveFrames /\ Tail(todo[s]) \in Seq(DriveFrames)
        /\ (Len(todo[s]) > 1) = (Tail(todo[s]) # <<>>)
    BY <2>1, Shortened
  <2>3. DCQ' \in Seq(Frames) /\ Len(DCQ') <= MaxCount /\ flushed' \in BOOLEAN
    BY <1>0, <1>4, <2>2, EnQueueKeeps DEF Enqueue, Types
  <2>4. lastPoll' \in [Drives -> Nat]
    BY <1>4, <2>2 DEF Enqueue, Types, DriveFrames
  <2>5. todo' \in [Sources -> Seq(DriveFrames)] /\ overlapped' \in BOOLEAN
    BY <1>4, <2>2 DEF Enqueue, Types
  <2>6. /\ pc' \in [Sources -> {"idle", "enqueue", "wait", "answer", "dispatch"}]
        /\ \A r \in Sources : (pc'[r] = "enqueue") = (todo'[r] # <<>>)
    BY <1>4, <2>2 DEF Enqueue, Types, AfterPolls
  <2> QED
    BY <1>4, <2>3, <2>4, <2>5, <2>6 DEF Enqueue, Types, bus, counters
<1>5. ASSUME NEW s \in Sources, Wake(s) PROVE Types'
  BY <1>5 DEF Wake, Types, bus, counters, history
<1>6. ASSUME NEW s \in Sources, Answer(s) PROVE Types'
  BY <1>6 DEF Answer, Types, bus, counters
<1>7. ASSUME NEW s \in Sources, DispatchMotion(s) PROVE Types'
  <2>1. motions + 1 \in Nat
    BY DEF Types
  <2>2. SetPoints(motions + 1) \in Seq(DriveFrames) /\ SetPoints(motions + 1) # <<>>
    BY <2>1, Triple DEF Ops, SetPoints
  <2> QED
    BY <1>7, <2>1, <2>2 DEF DispatchMotion, Types, bus, history
<1>8. ASSUME NEW s \in Sources, DispatchQuery(s) PROVE Types'
  <2>1. ForEach("get", req[s]) \in Seq(DriveFrames) /\ ForEach("get", req[s]) # <<>>
    BY Triple DEF Ops, Types
  <2> QED
    BY <1>8, <2>1 DEF DispatchQuery, Types, bus, counters, history
<1>9. ASSUME NEW s \in Sources, DispatchOther(s) PROVE Types'
  BY <1>9 DEF DispatchOther, Types, bus, counters, history
<1>10. CASE CanSend \/ CanSendLost
  <2>1. DCQ # <<>> /\ DCQ' = Tail(DCQ) /\ canPc' = "busy"
    BY <1>10 DEF CanSend, CanSendLost
  <2>2. /\ DCQ' \in Seq(Frames) /\ Len(DCQ') <= MaxCount /\ Head(DCQ) \in Frames
    BY <2>1, Shortened, PipelineAssumption DEF Types
  <2>3. /\ target' \in [Drives -> Nat] /\ enabled' \subseteq Drives
        /\ answers' \in [Drives -> Seq(DriveFrames)]
    <3>1. CASE Head(DCQ).to \in Drives /\ CanSend
      <4>1. Head(DCQ) \in DriveFrames
        BY <2>2, <3>1 DEF Frames, DriveFrames
      <4>2. Deliver(Head(DCQ))
        BY <3>1 DEF CanSend
      <4>3. answers' \in [Drives -> Seq(DriveFrames)]
        BY <4>1, <4>2, <3>1, Appended DEF Deliver, Types
      <4> QED
        BY <4>1, <4>2, <4>3, <3>1 DEF Deliver, Types, DriveFrames
    <3>2. CASE ~(Head(DCQ).to \in Drives /\ CanSend)
      BY <1>10, <3>2 DEF CanSend, CanSendLost, Types, bus
    <3> QED
      BY <3>1, <3>2
  <2>4. losses' \in Nat
    BY <1>10 DEF CanSend, CanSendLost, Types, counters
  <2> QED
    BY <1>10, <2>1, <2>2, <2>3, <2>4
    DEF CanSend, CanSendLost, Types, sources, counters, history, bus
<1>11. CASE CanRead
  <2>1. Head(rx) \in DriveFrames /\ rx' \in Seq(DriveFrames) /\ Len(rx') <= RxDepth
    BY <1>11, Shortened DEF CanRead, Types, RxDepth
  <2> QED
    BY <1>11, <2>1 DEF CanRead, FeedbackMessge, DriveFrames, Types, sources, counters, history
<1>12. CASE CanReadNothing
  BY <1>12 DEF CanReadNothing, Types, sources, bus, history
<1>13. CASE CanSleep \/ CanWake
  BY <1>13 DEF CanSleep, CanWake, Types, sources, bus, counters, history
<1>14. ASSUME NEW d \in Drives, DriveAnswers(d) PROVE Types'
  <2>1. /\ answers[d] # <<>> /\ answers[d] \in Seq(DriveFrames)
    BY <1>14 DEF DriveAnswers, Types
  <2>2. Head(answers[d]) \in DriveFrames /\ Tail(answers[d]) \in Seq(DriveFrames)
    BY <2>1, Shortened
  <2>3. answers' \in [Drives -> Seq(DriveFrames)]
    BY <1>14, <2>2 DEF DriveAnswers, Types
  <2>4. rx' \in Seq(DriveFrames) /\ Len(rx') <= RxDepth
    <3>1. CASE Len(rx) < RxDepth
      BY <1>14, <2>2, <3>1, Appended DEF DriveAnswers, Types, RxDepth
    <3>2. CASE ~(Len(rx) < RxDepth)
      BY <1>14, <2>2, <3>2 DEF DriveAnswers, Types, RxDepth
    <3> QED
      BY <3>1, <3>2
  <2> QED
    BY <1>14, <2>3, <2>4 DEF DriveAnswers, Types, sources, counters, history
<1>15. CASE UNCHANGED vars
  BY <1>15 DEF vars, Types, sources, bus, counters, history
<1> QED
  BY <1>1, <1>2, <1>3, <1>4, <1>5, <1>6, <1>7, <1>8, <1>9, <1>10, <1>11, <1>12, <1>13, <1>14, <1>15
  DEF Next, Handle, CanStep
-----------------------------------------------------------------------------
(* The elements of a queue after a step were in it or are the new one.      *)
LEMMA EnQueueElems ==
  ASSUME Types, NEW f \in Frames, EnQueue(f), NEW i \in DOMAIN DCQ'
  PROVE  DCQ'[i] = f \/ \E j \in DOMAIN DCQ : DCQ'[i] = DCQ[j]
<1>1. CASE Len(DCQ) >= MaxCount
  BY <1>1, One DEF EnQueue
<1>2. CASE ~(Len(DCQ) >= MaxCount)
  BY <1>2, Appended DEF EnQueue, Types
<1> QED
  BY <1>1, <1>2

LEMMA TailElems ==
  ASSUME NEW S, NEW q \in Seq(S), q # <<>>, NEW i \in DOMAIN Tail(q)
  PROVE  i + 1 \in DOMAIN q /\ Tail(q)[i] = q[i + 1]
BY Shortened

LEMMA AppendElems ==
  ASSUME NEW S, NEW q \in Seq(S), NEW f \in S, NEW i \in DOMAIN Append(q, f)
  PROVE  Append(q, f)[i] = f \/ (i \in DOMAIN q /\ Append(q, f)[i] = q[i])
BY Appended

LEMMA StillKnown ==
  ASSUME NEW q \in Seq(Frames), NEW a \in Nat, NEW b \in Nat, NEW m \in Nat, NEW k \in Nat,
         a <= b, m <= k, \A i \in DOMAIN q : Known(q[i], a, m)
  PROVE  \A i \in DOMAIN q : Known(q[i], b, k)
<1> SUFFICES ASSUME NEW i \in DOMAIN q PROVE Known(q[i], b, k)
  OBVIOUS
<1>1. q[i] \in Frames /\ Known(q[i], a, m)
  OBVIOUS
<1>2. q[i].n \in Nat
  BY <1>1 DEF Frames
<1> QED
  BY <1>1, <1>2 DEF Known

LEMMA DrivesAreFrames == \A q \in Seq(DriveFrames) : q \in Seq(Frames)
<1>1. DriveFrames \subseteq Frames
  BY DEF DriveFrames, Frames
<1> QED
  BY <1>1

LEMMA TripleKnown ==
  ASSUME NEW o \in {"get", "set"}, NEW k \in Nat, NEW a \in Nat, NEW m \in Nat,
         o = "get" => k <= a, o = "set" => k <= m
  PROVE  \A i \in DOMAIN ForEach(o, k) : Known(ForEach(o, k)[i], a, m)
<1>1. DOMAIN ForEach(o, k) = 1 .. 3 /\ \A i \in 1 .. 3 : ForEach(o, k)[i].op = o /\ ForEach(o, k)[i].n = k
  BY Triple DEF Ops
<1> QED
  BY <1>1 DEF Known

LEMMA NumbersNext == Types /\ Numbers /\ [Next]_vars => Numbers'
<1> SUFFICES ASSUME Types, Numbers, [Next]_vars PROVE Numbers'
  OBVIOUS
<1>1. CASE BootEnqueue
  <2>1. Head(booting) \in Frames /\ Head(booting).op = "setup"
    BY <1>1, Shortened DEF BootEnqueue, Types
  <2>2. \A i \in DOMAIN DCQ' : Known(DCQ'[i], arrived, motions)
    BY <1>1, <2>1, EnQueueElems DEF BootEnqueue, Numbers, Known
  <2> QED
    BY <1>1, <2>2 DEF BootEnqueue, Numbers, sources, bus, counters
<1>2. CASE OSStart
  BY <1>2 DEF OSStart, Numbers, sources, bus, counters, history
<1>3. ASSUME NEW s \in Sources, Receive(s) PROVE Numbers'
  <2>1. /\ arrived' = arrived + 1 /\ motions' = motions /\ arrived <= arrived' /\ motions <= motions'
        /\ arrived \in Nat /\ motions \in Nat /\ arrived' \in Nat /\ motions' \in Nat
    BY <1>3 DEF Types, Receive
  <2>2. \A i \in DOMAIN ForEach("get", arrived + 1) : Known(ForEach("get", arrived + 1)[i], arrived', motions')
    BY <2>1, TripleKnown
  <2>3. \A r \in Sources : req'[r] <= arrived' /\ \A i \in DOMAIN todo'[r] : Known(todo'[r][i], arrived', motions')
    <3> SUFFICES ASSUME NEW r \in Sources
                 PROVE  req'[r] <= arrived' /\ \A i \in DOMAIN todo'[r] : Known(todo'[r][i], arrived', motions')
      OBVIOUS
    <3>1. CASE r = s
      BY <1>3, <2>1, <2>2, <3>1 DEF Receive, Types
    <3>2. CASE r # s
      <4>1. /\ req'[r] = req[r] /\ todo'[r] = todo[r] /\ req[r] \in Nat /\ todo[r] \in Seq(DriveFrames)
            /\ req[r] <= arrived /\ \A i \in DOMAIN todo[r] : Known(todo[r][i], arrived, motions)
        BY <1>3, <3>2 DEF Receive, Types, Numbers
      <4>2. req'[r] <= arrived'
        BY <2>1, <4>1
      <4> QED
        BY <2>1, <4>1, <4>2, StillKnown, DrivesAreFrames
    <3> QED
      BY <3>1, <3>2
  <2>4. \A i \in DOMAIN DCQ' : Known(DCQ'[i], arrived', motions')
    <3>1. DCQ' = DCQ /\ DCQ \in Seq(Frames) /\ \A i \in DOMAIN DCQ : Known(DCQ[i], arrived, motions)
      BY <1>3 DEF Receive, Types, Numbers
    <3> QED
      BY <2>1, <3>1, StillKnown
  <2>5. \A i \in DOMAIN rx' : Known(rx'[i], arrived', motions')
    <3>1. rx' = rx /\ rx \in Seq(DriveFrames) /\ \A i \in DOMAIN rx : Known(rx[i], arrived, motions)
      BY <1>3 DEF Receive, Types, Numbers, bus
    <3> QED
      BY <2>1, <3>1, StillKnown, DrivesAreFrames
  <2>6. ASSUME NEW d \in Drives
        PROVE  \A i \in DOMAIN answers'[d] : Known(answers'[d][i], arrived', motions')
    <3>1. /\ answers'[d] = answers[d] /\ answers[d] \in Seq(DriveFrames)
          /\ \A i \in DOMAIN answers[d] : Known(answers[d][i], arrived, motions)
      BY <1>3 DEF Receive, Types, Numbers, bus
    <3> QED
      BY <2>1, <3>1, StillKnown, DrivesAreFrames
  <2>7. \A d \in Drives : cur'[d] <= arrived' /\ target'[d] <= motions'
    BY <1>3, <2>1 DEF Receive, Types, Numbers, bus
  <2> QED
    BY <2>3, <2>4, <2>5, <2>6, <2>7 DEF Numbers
<1>4. ASSUME NEW s \in Sources, Enqueue(s) PROVE Numbers'
  <2>1. todo[s] # <<>> /\ todo[s] \in Seq(DriveFrames)
    BY <1>4 DEF Enqueue, Types
  <2>2. Head(todo[s]) = todo[s][1] /\ 1 \in DOMAIN todo[s] /\ Head(todo[s]) \in DriveFrames
    BY <2>1, Shortened
  <2>5. Head(todo[s]) \in Frames
    BY <2>2 DEF DriveFrames, Frames
  <2>3. \A i \in DOMAIN DCQ' : Known(DCQ'[i], arrived, motions)
    BY <1>4, <2>2, <2>5, EnQueueElems DEF Enqueue, Numbers
  <2>4. \A r \in Sources : \A i \in DOMAIN todo'[r] : Known(todo'[r][i], arrived, motions)
    <3> SUFFICES ASSUME NEW r \in Sources, NEW i \in DOMAIN todo'[r] PROVE Known(todo'[r][i], arrived, motions)
      OBVIOUS
    <3>1. CASE r = s
      <4>1. todo'[r] = Tail(todo[s])
        BY <1>4, <3>1 DEF Enqueue, Types
      <4> QED
        BY <2>1, <3>1, <4>1, TailElems DEF Numbers
    <3>2. CASE r # s
      BY <1>4, <3>2 DEF Enqueue, Types, Numbers
    <3> QED
      BY <3>1, <3>2
  <2> QED
    BY <1>4, <2>3, <2>4 DEF Enqueue, Numbers, bus, counters
<1>5. ASSUME NEW s \in Sources, Wake(s) PROVE Numbers'
  BY <1>5 DEF Wake, Numbers, bus, counters, history
<1>6. ASSUME NEW s \in Sources, Answer(s) PROVE Numbers'
  BY <1>6 DEF Answer, Numbers, bus, counters
<1>7. ASSUME NEW s \in Sources, DispatchMotion(s) PROVE Numbers'
  <2>1. /\ arrived' = arrived /\ motions' = motions + 1 /\ arrived <= arrived' /\ motions <= motions'
        /\ arrived \in Nat /\ motions \in Nat /\ arrived' \in Nat /\ motions' \in Nat
    BY <1>7 DEF Types, DispatchMotion
  <2>2. \A i \in DOMAIN SetPoints(motions + 1) : Known(SetPoints(motions + 1)[i], arrived', motions')
    BY <2>1, TripleKnown DEF SetPoints
  <2>3. \A r \in Sources : req'[r] <= arrived' /\ \A i \in DOMAIN todo'[r] : Known(todo'[r][i], arrived', motions')
    <3> SUFFICES ASSUME NEW r \in Sources
                 PROVE  req'[r] <= arrived' /\ \A i \in DOMAIN todo'[r] : Known(todo'[r][i], arrived', motions')
      OBVIOUS
    <3>1. CASE r = s
      BY <1>7, <2>1, <2>2, <3>1 DEF DispatchMotion, Types, Numbers
    <3>2. CASE r # s
      <4>1. /\ req'[r] = req[r] /\ todo'[r] = todo[r] /\ req[r] \in Nat /\ todo[r] \in Seq(DriveFrames)
            /\ req[r] <= arrived /\ \A i \in DOMAIN todo[r] : Known(todo[r][i], arrived, motions)
        BY <1>7, <3>2 DEF DispatchMotion, Types, Numbers
      <4>2. req'[r] <= arrived'
        BY <2>1, <4>1
      <4> QED
        BY <2>1, <4>1, <4>2, StillKnown, DrivesAreFrames
    <3> QED
      BY <3>1, <3>2
  <2>4. \A i \in DOMAIN DCQ' : Known(DCQ'[i], arrived', motions')
    <3>1. DCQ' = DCQ /\ DCQ \in Seq(Frames) /\ \A i \in DOMAIN DCQ : Known(DCQ[i], arrived, motions)
      BY <1>7 DEF DispatchMotion, Types, Numbers
    <3> QED
      BY <2>1, <3>1, StillKnown
  <2>5. \A i \in DOMAIN rx' : Known(rx'[i], arrived', motions')
    <3>1. rx' = rx /\ rx \in Seq(DriveFrames) /\ \A i \in DOMAIN rx : Known(rx[i], arrived, motions)
      BY <1>7 DEF DispatchMotion, Types, Numbers, bus
    <3> QED
      BY <2>1, <3>1, StillKnown, DrivesAreFrames
  <2>6. ASSUME NEW d \in Drives
        PROVE  \A i \in DOMAIN answers'[d] : Known(answers'[d][i], arrived', motions')
    <3>1. /\ answers'[d] = answers[d] /\ answers[d] \in Seq(DriveFrames)
          /\ \A i \in DOMAIN answers[d] : Known(answers[d][i], arrived, motions)
      BY <1>7 DEF DispatchMotion, Types, Numbers, bus
    <3> QED
      BY <2>1, <3>1, StillKnown, DrivesAreFrames
  <2>7. \A d \in Drives : cur'[d] <= arrived' /\ target'[d] <= motions'
    BY <1>7, <2>1 DEF DispatchMotion, Types, Numbers, bus
  <2> QED
    BY <2>3, <2>4, <2>5, <2>6, <2>7 DEF Numbers
<1>8. ASSUME NEW s \in Sources, DispatchQuery(s) PROVE Numbers'
  <2>1. \A i \in DOMAIN ForEach("get", req[s]) : Known(ForEach("get", req[s])[i], arrived, motions)
    BY TripleKnown DEF Types, Numbers
  <2>2. \A r \in Sources : \A i \in DOMAIN todo'[r] : Known(todo'[r][i], arrived, motions)
    BY <1>8, <2>1 DEF DispatchQuery, Types, Numbers
  <2> QED
    BY <1>8, <2>2 DEF DispatchQuery, Numbers, bus, counters, history
<1>9. ASSUME NEW s \in Sources, DispatchOther(s) PROVE Numbers'
  BY <1>9 DEF DispatchOther, Numbers, bus, counters, history
<1>10. CASE CanSend \/ CanSendLost
  <2>1. DCQ # <<>> /\ DCQ' = Tail(DCQ) /\ DCQ \in Seq(Frames)
    BY <1>10 DEF CanSend, CanSendLost, Types
  <2>2. \A i \in DOMAIN DCQ' : Known(DCQ'[i], arrived, motions)
    BY <2>1, TailElems DEF Numbers
  <2>3. Head(DCQ) = DCQ[1] /\ 1 \in DOMAIN DCQ /\ Head(DCQ) \in Frames
    BY <2>1, Shortened
  <2>4. /\ \A d \in Drives : \A i \in DOMAIN answers'[d] : Known(answers'[d][i], arrived, motions)
        /\ \A d \in Drives : target'[d] <= motions
    <3>1. CASE Head(DCQ).to \in Drives /\ CanSend
      <4>1. Head(DCQ) \in DriveFrames /\ Deliver(Head(DCQ))
        BY <2>3, <3>1 DEF Frames, DriveFrames, CanSend
      <4>2. ASSUME NEW d \in Drives, NEW i \in DOMAIN answers'[d] PROVE Known(answers'[d][i], arrived, motions)
        <5>1. CASE d = Head(DCQ).to
          <6>1. answers'[d] = Append(answers[d], Head(DCQ)) /\ answers[d] \in Seq(DriveFrames)
            BY <4>1, <5>1 DEF Deliver, Types
          <6> QED
            BY <2>3, <4>1, <6>1, AppendElems DEF Numbers
        <5>2. CASE d # Head(DCQ).to
          BY <4>1, <4>2, <5>2 DEF Deliver, Types, Numbers
        <5> QED
          BY <5>1, <5>2
      <4>3. \A d \in Drives : target'[d] <= motions
        BY <2>3, <4>1, <3>1 DEF Deliver, Types, Numbers, Known
      <4> QED
        BY <4>2, <4>3
    <3>2. CASE ~(Head(DCQ).to \in Drives /\ CanSend)
      BY <1>10, <3>2 DEF CanSend, CanSendLost, Numbers, bus
    <3> QED
      BY <3>1, <3>2
  <2> QED
    BY <1>10, <2>2, <2>4 DEF CanSend, CanSendLost, Numbers, sources, counters, history, bus
<1>11. CASE CanRead
  <2>1. /\ Head(rx) = rx[1] /\ 1 \in DOMAIN rx /\ Head(rx) \in DriveFrames
        /\ rx # <<>> /\ rx' = Tail(rx)
    BY <1>11, Shortened DEF CanRead, Types
  <2>2. \A i \in DOMAIN rx' : Known(rx'[i], arrived, motions)
    BY <2>1, TailElems DEF Numbers, Types
  <2>3. \A d \in Drives : cur'[d] <= arrived
    BY <1>11, <2>1 DEF CanRead, FeedbackMessge, Types, Numbers, DriveFrames, Known
  <2> QED
    BY <1>11, <2>2, <2>3 DEF CanRead, Numbers, sources, counters, history
<1>12. CASE CanReadNothing
  BY <1>12 DEF CanReadNothing, Numbers, sources, bus, history
<1>13. CASE CanSleep \/ CanWake
  BY <1>13 DEF CanSleep, CanWake, Numbers, sources, bus, counters, history
<1>14. ASSUME NEW d \in Drives, DriveAnswers(d) PROVE Numbers'
  <2>1. answers[d] # <<>> /\ answers[d] \in Seq(DriveFrames) /\ rx \in Seq(DriveFrames)
    BY <1>14 DEF DriveAnswers, Types
  <2>2. /\ Head(answers[d]) = answers[d][1] /\ 1 \in DOMAIN answers[d]
        /\ Head(answers[d]) \in DriveFrames
    BY <2>1, Shortened
  <2>3. \A e \in Drives : \A i \in DOMAIN answers'[e] : Known(answers'[e][i], arrived, motions)
    <3> SUFFICES ASSUME NEW e \in Drives, NEW i \in DOMAIN answers'[e] PROVE Known(answers'[e][i], arrived, motions)
      OBVIOUS
    <3>1. CASE e = d
      <4>1. answers'[e] = Tail(answers[d])
        BY <1>14, <3>1 DEF DriveAnswers, Types
      <4> QED
        BY <2>1, <3>1, <4>1, TailElems DEF Numbers
    <3>2. CASE e # d
      BY <1>14, <3>2 DEF DriveAnswers, Types, Numbers
    <3> QED
      BY <3>1, <3>2
  <2>4. \A i \in DOMAIN rx' : Known(rx'[i], arrived, motions)
    <3>1. CASE Len(rx) < RxDepth
      BY <1>14, <2>1, <2>2, <3>1, AppendElems DEF DriveAnswers, Numbers
    <3>2. CASE ~(Len(rx) < RxDepth)
      BY <1>14, <2>1, <2>2, <3>2 DEF DriveAnswers, Numbers
    <3> QED
      BY <3>1, <3>2
  <2> QED
    BY <1>14, <2>3, <2>4 DEF DriveAnswers, Numbers, sources, counters, history
<1>15. CASE UNCHANGED vars
  BY <1>15 DEF vars, Numbers, sources, bus, counters, history
<1> QED
  BY <1>1, <1>2, <1>3, <1>4, <1>5, <1>6, <1>7, <1>8, <1>9, <1>10, <1>11, <1>12, <1>13, <1>14, <1>15
  DEF Next, Handle, CanStep
-----------------------------------------------------------------------------
(* What the steps do to the variables the other parts relate.               *)
LEMMA EnqueueEffect ==
  ASSUME Types, NEW s \in Sources, Enqueue(s)
  PROVE  /\ todo[s] # <<>> /\ 1 \in DOMAIN todo[s] /\ todo[s] \in Seq(DriveFrames)
         /\ todo[s][1] \in DriveFrames /\ todo[s][1] \in Frames /\ EnQueue(todo[s][1])
         /\ todo'[s] = Tail(todo[s]) /\ \A r \in Sources \ {s} : todo'[r] = todo[r]
         /\ lastPoll' = IF todo[s][1].op = "get"
                        THEN [lastPoll EXCEPT ![todo[s][1].to] = todo[s][1].n] ELSE lastPoll
         /\ UNCHANGED <<bus, cur, counters>>
         /\ overlapped' = (overlapped \/
              (todo[s][1].op = "set" /\ \E r \in Sources \ {s} : todo[r] # <<>> /\ Head(todo[r]).op = "set"))
<1>1. todo[s] # <<>> /\ todo[s] \in Seq(DriveFrames)
  BY DEF Enqueue, Types
<1>2. 1 \in DOMAIN todo[s] /\ Head(todo[s]) = todo[s][1] /\ todo[s][1] \in DriveFrames
  BY <1>1, Shortened
<1>3. todo[s][1] \in Frames
  BY <1>2 DEF DriveFrames, Frames
<1>4. todo'[s] = Tail(todo[s]) /\ \A r \in Sources \ {s} : todo'[r] = todo[r]
  BY DEF Enqueue, Types
<1> QED
  BY <1>1, <1>2, <1>3, <1>4 DEF Enqueue

LEMMA BootEffect ==
  ASSUME Types, BootEnqueue
  PROVE  \E f \in Frames : f.op = "setup" /\ EnQueue(f)
BY Shortened DEF BootEnqueue, Types

LEMMA SendEffect ==
  ASSUME Types, CanSend
  PROVE  /\ DCQ # <<>> /\ DCQ \in Seq(Frames) /\ DCQ' = Tail(DCQ) /\ DCQ[1] \in Frames /\ 1 \in DOMAIN DCQ
         /\ target' = IF DCQ[1].to \in Drives /\ DCQ[1].op = "set"
                      THEN [target EXCEPT ![DCQ[1].to] = DCQ[1].n] ELSE target
         /\ enabled' = IF DCQ[1].to \in Drives /\ DCQ[1].op = "enable"
                       THEN enabled \cup {DCQ[1].to} ELSE enabled
         /\ answers' = IF DCQ[1].to \in Drives
                       THEN [answers EXCEPT ![DCQ[1].to] = Append(@, DCQ[1])] ELSE answers
         /\ UNCHANGED <<todo, rx, cur, counters, history>>
<1>1. DCQ # <<>> /\ DCQ \in Seq(Frames) /\ DCQ' = Tail(DCQ)
  BY DEF CanSend, Types
<1>2. Head(DCQ) = DCQ[1] /\ DCQ[1] \in Frames /\ 1 \in DOMAIN DCQ
  BY <1>1, Shortened
<1>3. CASE DCQ[1].to \in Drives
  BY <1>1, <1>2, <1>3 DEF CanSend, Deliver, sources
<1>4. CASE DCQ[1].to \notin Drives
  BY <1>1, <1>2, <1>4 DEF CanSend, sources
<1> QED
  BY <1>3, <1>4

LEMMA RoomAppends ==
  ASSUME NEW f \in Frames, EnQueue(f), ~flushed'
  PROVE  DCQ' = Append(DCQ, f) /\ ~flushed
BY DEF EnQueue

(* The other steps leave the queue and the drives' state alone.             *)
Quiet == UNCHANGED <<DCQ, target, enabled, losses, flushed, overlapped, lastPoll>>
LEMMA Kinds ==
  ASSUME [Next]_vars
  PROVE  \/ BootEnqueue \/ (\E s \in Sources : Enqueue(s)) \/ CanSend \/ CanSendLost
         \/ Quiet
<1>1. ASSUME NEW s \in Sources, Receive(s) PROVE Quiet
  BY <1>1 DEF Receive, Quiet, bus, counters, history
<1>2. ASSUME NEW s \in Sources, Wake(s) \/ Answer(s) \/ DispatchMotion(s) \/ DispatchQuery(s) \/ DispatchOther(s)
      PROVE Quiet
  BY <1>2 DEF Wake, Answer, DispatchMotion, DispatchQuery, DispatchOther, Quiet, bus, counters, history
<1>3. CASE OSStart \/ CanRead \/ CanReadNothing \/ CanSleep \/ CanWake
  BY <1>3 DEF OSStart, CanRead, CanReadNothing, CanSleep, CanWake, Quiet, bus, counters, history
<1>4. ASSUME NEW d \in Drives, DriveAnswers(d) PROVE Quiet
  BY <1>4 DEF DriveAnswers, Quiet, bus, counters, history
<1>5. CASE UNCHANGED vars
  BY <1>5 DEF vars, Quiet, bus, counters, history
<1> QED
  BY <1>1, <1>2, <1>3, <1>4, <1>5 DEF Next, Handle, CanStep

(* What happened once stays so.                                             *)
LEMMA Lasting ==
  ASSUME Types, [Next]_vars
  PROVE  /\ (flushed => flushed') /\ (overlapped => overlapped')
         /\ (losses' = 0 => losses = 0)
<1>1. CASE BootEnqueue
  BY <1>1 DEF BootEnqueue, EnQueue, counters
<1>2. ASSUME NEW s \in Sources, Enqueue(s) PROVE /\ (flushed => flushed') /\ (overlapped => overlapped')
                                                /\ (losses' = 0 => losses = 0)
  BY <1>2 DEF Enqueue, EnQueue, counters
<1>3. CASE CanSend
  BY <1>3 DEF CanSend, counters, history
<1>4. CASE CanSendLost
  BY <1>4 DEF CanSendLost, Types, history
<1>5. CASE Quiet
  BY <1>5 DEF Quiet
<1> QED
  BY <1>1, <1>2, <1>3, <1>4, <1>5, Kinds

LEMMA EnableOrderNext == Types /\ EnableOrder /\ [Next]_vars => EnableOrder'
<1> SUFFICES ASSUME Types, EnableOrder, [Next]_vars, ~flushed', losses' = 0, NEW d \in Drives
             PROVE  (d \in enabled \/ EnableAhead(d))'
  BY DEF EnableOrder
<1>0. d \in enabled \/ EnableAhead(d)
  BY Lasting DEF EnableOrder
<1>1. ASSUME NEW f \in Frames, EnQueue(f), UNCHANGED <<target, enabled>>
      PROVE (d \in enabled \/ EnableAhead(d))'
  <2>1. DCQ' = Append(DCQ, f) /\ DCQ \in Seq(Frames)
    BY <1>1, RoomAppends DEF Types
  <2>2. CASE EnableAhead(d)
    <3>1. PICK i \in DOMAIN DCQ : /\ DCQ[i].op = "enable" /\ DCQ[i].to = d
                                  /\ \A j \in DOMAIN DCQ : SetFor(d, DCQ[j]) => i < j
      BY <2>2 DEF EnableAhead
    <3>2. i \in DOMAIN DCQ' /\ DCQ'[i] = DCQ[i] /\ i \in Nat
      BY <2>1, Appended
    <3>3. ASSUME NEW j \in DOMAIN DCQ', SetFor(d, DCQ'[j]) PROVE i < j
      <4>1. j = Len(DCQ) + 1 \/ (j \in DOMAIN DCQ /\ DCQ'[j] = DCQ[j])
        BY <2>1, Appended
      <4>2. i <= Len(DCQ) /\ Len(DCQ) \in Nat
        BY <2>1, Appended
      <4> QED
        BY <3>1, <3>2, <3>3, <4>1, <4>2
    <3> QED
      BY <1>1, <2>2, <3>1, <3>2, <3>3 DEF EnableAhead
  <2> QED
    BY <1>0, <1>1, <2>2
<1>2. CASE BootEnqueue
  BY <1>1, <1>2, BootEffect DEF BootEnqueue, bus
<1>3. ASSUME NEW s \in Sources, Enqueue(s) PROVE (d \in enabled \/ EnableAhead(d))'
  BY <1>1, <1>3, EnqueueEffect DEF bus
<1>4. CASE CanSend
  <2>1. CASE EnableAhead(d)
    <3>1. PICK i \in DOMAIN DCQ : /\ DCQ[i].op = "enable" /\ DCQ[i].to = d
                                  /\ \A j \in DOMAIN DCQ : SetFor(d, DCQ[j]) => i < j
      BY <2>1 DEF EnableAhead
    <3>2. /\ DCQ # <<>> /\ DCQ \in Seq(Frames) /\ DCQ' = Tail(DCQ) /\ 1 \in DOMAIN DCQ
          /\ Len(DCQ) \in Nat /\ DOMAIN DCQ = 1 .. Len(DCQ) /\ DOMAIN DCQ' = 1 .. Len(DCQ) - 1
          /\ \A k \in 1 .. Len(DCQ) - 1 : DCQ'[k] = DCQ[k + 1]
      BY <1>4, SendEffect, Shortened
    <3>3. CASE i = 1
      BY <1>4, <3>1, <3>3, SendEffect
    <3>4. CASE i # 1
      <4>1. i - 1 \in DOMAIN DCQ' /\ DCQ'[i - 1] = DCQ[i]
        BY <3>2, <3>4
      <4>2. ASSUME NEW j \in DOMAIN DCQ', SetFor(d, DCQ'[j]) PROVE i - 1 < j
        <5>1. j + 1 \in DOMAIN DCQ /\ DCQ'[j] = DCQ[j + 1] /\ j \in Int /\ i \in Int
          BY <3>2
        <5> QED
          BY <3>1, <4>2, <5>1
      <4>3. ~SetFor(d, DCQ[1])
        BY <3>1, <3>2, <3>4
      <4>4. target'[d] = 0
        BY <1>4, <2>1, <4>3, SendEffect DEF SetFor, EnableAhead, Types
      <4> QED
        BY <3>1, <4>1, <4>2, <4>4 DEF EnableAhead
    <3> QED
      BY <3>3, <3>4
  <2>2. CASE d \in enabled
    BY <1>4, <2>2, SendEffect
  <2> QED
    BY <1>0, <2>1, <2>2
<1>5. CASE CanSendLost
  BY <1>5 DEF CanSendLost, Types
<1>6. CASE Quiet
  BY <1>0, <1>6 DEF Quiet, EnableAhead
<1> QED
  BY <1>2, <1>3, <1>4, <1>5, <1>6, Kinds
-----------------------------------------------------------------------------
(* What a step does to the frames the sources have still to enqueue.        *)
Refill(s, k) == todo[s] = <<>> /\ todo' = [todo EXCEPT ![s] = ForEach("get", k)]
Command(s) ==
  /\ todo[s] = <<>> /\ motions' = motions + 1
  /\ todo' = [todo EXCEPT ![s] = ForEach("set", motions + 1)]
LEMMA TodoKinds ==
  ASSUME Types, [Next]_vars
  PROVE  \/ \E s \in Sources : Enqueue(s)
         \/ Quiet /\ UNCHANGED motions /\ \E s \in Sources, k \in Nat : Refill(s, k)
         \/ Quiet /\ \E s \in Sources : Command(s)
         \/ UNCHANGED <<todo, motions>>
<1>1. ASSUME NEW s \in Sources, Receive(s)
      PROVE  Quiet /\ UNCHANGED motions /\ \E k \in Nat : Refill(s, k)
  <2>1. arrived + 1 \in Nat
    BY DEF Types
  <2>3. todo[s] = <<>>
    BY <1>1 DEF Receive, Types
  <2>2. Refill(s, arrived + 1)
    BY <1>1, <2>3 DEF Receive, Refill
  <2> QED
    BY <1>1, <2>1, <2>2 DEF Receive, Quiet, bus, history
<1>2. ASSUME NEW s \in Sources, DispatchQuery(s)
      PROVE  Quiet /\ UNCHANGED motions /\ \E k \in Nat : Refill(s, k)
  <2>1. req[s] \in Nat /\ todo[s] = <<>>
    BY <1>2 DEF DispatchQuery, Types
  <2> QED
    BY <1>2, <2>1 DEF DispatchQuery, Refill, Quiet, bus, counters, history
<1>3. ASSUME NEW s \in Sources, DispatchMotion(s) PROVE Quiet /\ Command(s)
  <2>1. todo[s] = <<>>
    BY <1>3 DEF DispatchMotion, Types
  <2> QED
    BY <1>3, <2>1 DEF DispatchMotion, Command, SetPoints, Quiet, bus, counters, history
<1>4. ASSUME NEW s \in Sources, Wake(s) \/ Answer(s) \/ DispatchOther(s)
      PROVE  UNCHANGED <<todo, motions>>
  BY <1>4 DEF Wake, Answer, DispatchOther, counters
<1>5. CASE BootEnqueue \/ OSStart \/ CanStep
  BY <1>5 DEF BootEnqueue, OSStart, CanStep, CanSend, CanSendLost, CanRead, CanReadNothing,
    CanSleep, CanWake, sources, counters
<1>6. ASSUME NEW d \in Drives, DriveAnswers(d) PROVE UNCHANGED <<todo, motions>>
  BY <1>6 DEF DriveAnswers, sources, counters
<1>7. CASE UNCHANGED vars
  BY <1>7 DEF vars, sources, counters
<1> QED
  BY <1>1, <1>2, <1>3, <1>4, <1>5, <1>6, <1>7 DEF Next, Handle

(* A sequence of one kind and number.                                       *)
Alike(q) == \A i, j \in DOMAIN q : q[i].op = q[j].op /\ q[i].n = q[j].n
LEMMA TripleOf ==
  ASSUME NEW o \in Ops, NEW k \in Nat, NEW i \in DOMAIN ForEach(o, k)
  PROVE  ForEach(o, k)[i].op = o /\ ForEach(o, k)[i].n = k
<1>1. DOMAIN ForEach(o, k) = 1 .. 3 /\ \A j \in 1 .. 3 : ForEach(o, k)[j].op = o /\ ForEach(o, k)[j].n = k
  BY Triple
<1> QED
  BY <1>1

LEMMA TripleAlike == \A o \in Ops, k \in Nat : Alike(ForEach(o, k))
BY TripleOf DEF Alike

LEMMA UniformNext == Types /\ Uniform /\ [Next]_vars => Uniform'
<1> SUFFICES ASSUME Types, Uniform, [Next]_vars, NEW r \in Sources PROVE Alike(todo'[r])
  BY DEF Uniform, Alike
<1>0. Alike(todo[r])
  BY DEF Uniform, Alike
<1>1. ASSUME NEW s \in Sources, Enqueue(s) PROVE Alike(todo'[r])
  <2>1. CASE r = s
    <3>1. todo'[r] = Tail(todo[r]) /\ todo[r] # <<>> /\ todo[r] \in Seq(DriveFrames)
      BY <1>1, <2>1, EnqueueEffect
    <3> QED
      BY <1>0, <3>1, TailElems DEF Alike
  <2>2. CASE r # s
    BY <1>0, <1>1, <2>2, EnqueueEffect
  <2> QED
    BY <2>1, <2>2
<1>2. ASSUME NEW s \in Sources, NEW k \in Nat, Refill(s, k) PROVE Alike(todo'[r])
  BY <1>0, <1>2, TripleAlike DEF Refill, Types, Ops
<1>3. ASSUME NEW s \in Sources, Command(s) PROVE Alike(todo'[r])
  <2>1. motions + 1 \in Nat
    BY DEF Types
  <2> QED
    BY <1>0, <1>3, <2>1, TripleAlike DEF Command, Types, Ops
<1>4. CASE UNCHANGED <<todo, motions>>
  BY <1>0, <1>4
<1> QED
  BY <1>1, <1>2, <1>3, <1>4, TodoKinds
-----------------------------------------------------------------------------
(* The answers that are owed or unread.                                     *)
Size(q) == Len(q)
Count(q, a) == Size(q) + Size(a["FRONT"]) + Size(a["LEFT"]) + Size(a["RIGHT"])
Owed == [Drives -> Seq(DriveFrames)]
LEMMA Sizes ==
  ASSUME NEW a \in Owed
  PROVE  Size(a["FRONT"]) \in Nat /\ Size(a["LEFT"]) \in Nat /\ Size(a["RIGHT"]) \in Nat
<1>1. "FRONT" \in Drives /\ "LEFT" \in Drives /\ "RIGHT" \in Drives
  BY DEF Drives
<1> QED
  BY <1>1 DEF Owed, Size

LEMMA OneMore ==
  ASSUME NEW q, Size(q) \in Nat, NEW d \in Drives, NEW a \in Owed, NEW b \in Owed,
         Size(b[d]) = Size(a[d]) + 1, \A e \in Drives \ {d} : b[e] = a[e]
  PROVE  Count(q, b) = Count(q, a) + 1
<1>1. /\ Size(a["FRONT"]) \in Nat /\ Size(a["LEFT"]) \in Nat /\ Size(a["RIGHT"]) \in Nat
      /\ Size(b["FRONT"]) \in Nat /\ Size(b["LEFT"]) \in Nat /\ Size(b["RIGHT"]) \in Nat
  BY Sizes
<1>2. \/ Size(b["FRONT"]) = Size(a["FRONT"]) + 1 /\ b["LEFT"] = a["LEFT"] /\ b["RIGHT"] = a["RIGHT"]
      \/ b["FRONT"] = a["FRONT"] /\ Size(b["LEFT"]) = Size(a["LEFT"]) + 1 /\ b["RIGHT"] = a["RIGHT"]
      \/ b["FRONT"] = a["FRONT"] /\ b["LEFT"] = a["LEFT"] /\ Size(b["RIGHT"]) = Size(a["RIGHT"]) + 1
  <2>1. d = "FRONT" \/ d = "LEFT" \/ d = "RIGHT"
    BY DEF Drives
  <2>2. "FRONT" \in Drives /\ "LEFT" \in Drives /\ "RIGHT" \in Drives
    BY DEF Drives
  <2> QED
    BY <2>1, <2>2
<1> QED
  BY <1>1, <1>2 DEF Count

LEMMA OtherQueue ==
  ASSUME NEW q, Size(q) \in Nat, NEW r, Size(r) \in Nat, NEW a \in Owed
  PROVE  /\ Count(q, a) \in Nat
         /\ Size(r) <= Size(q) + 1 => Count(r, a) <= Count(q, a) + 1
         /\ Size(q) = Size(r) + 1 => Count(q, a) = Count(r, a) + 1
BY Sizes DEF Count

LEMMA SkewNext == Types /\ SkewBounded /\ [Next]_vars => SkewBounded'
<1> SUFFICES ASSUME Types, SkewBounded, [Next]_vars PROVE SkewBounded'
  OBVIOUS
<1> DEFINE Bound == late + (IF canPc = "busy" THEN 1 ELSE 0)
<1>U. Unread = Count(rx, answers) /\ Unread' = Count(rx', answers')
  BY DEF Unread, Count, Size
<1>0. /\ Count(rx, answers) <= Bound /\ late \in Nat
      /\ Size(rx) \in Nat /\ rx \in Seq(DriveFrames) /\ answers \in Owed
  BY <1>U DEF SkewBounded, Types, Owed, Size
<1>00. ASSUME Count(rx', answers') <= Bound' PROVE SkewBounded'
  BY <1>00, <1>U DEF SkewBounded
<1>01. Count(rx, answers) \in Nat
  BY <1>0, OtherQueue
<1>1. CASE UNCHANGED <<rx, answers, late, canPc>>
  BY <1>0, <1>00, <1>1
<1>2. CASE CanSend
  <2>1. canPc = "poll" /\ canPc' = "busy" /\ late' = late /\ rx' = rx
    BY <1>2 DEF CanSend, counters
  <2>2. Count(rx, answers') <= Count(rx, answers) + 1 /\ Count(rx, answers') \in Nat
    <3>1. CASE DCQ[1].to \in Drives
      <4>1. DCQ[1] \in DriveFrames
        BY <1>2, <3>1, SendEffect DEF Frames, DriveFrames
      <4>2. answers' = [answers EXCEPT ![DCQ[1].to] = Append(@, DCQ[1])]
        BY <1>2, <3>1, SendEffect
      <4>3. /\ answers' \in Owed
            /\ Size(answers'[DCQ[1].to]) = Size(answers[DCQ[1].to]) + 1
            /\ \A e \in Drives \ {DCQ[1].to} : answers'[e] = answers[e]
        BY <1>0, <3>1, <4>1, <4>2, Appended DEF Owed, Size
      <4> QED
        BY <1>0, <1>01, <3>1, <4>3, OneMore
    <3>2. CASE DCQ[1].to \notin Drives
      BY <1>01, <1>2, <3>2, SendEffect
    <3> QED
      BY <3>1, <3>2
  <2> QED
    BY <1>0, <1>00, <1>01, <2>1, <2>2
<1>3. CASE CanSendLost
  <2>1. canPc = "poll" /\ canPc' = "busy" /\ late' = late /\ rx' = rx /\ answers' = answers
    BY <1>3 DEF CanSendLost, bus
  <2> QED
    BY <1>0, <1>00, <1>01, <2>1
<1>4. CASE CanRead
  <2>1. /\ canPc = "busy" /\ canPc' = "poll" /\ late' = late /\ answers' = answers
        /\ rx # <<>> /\ rx' = Tail(rx)
    BY <1>4 DEF CanRead, counters
  <2>2. Size(rx') = Size(rx) - 1
    BY <1>0, <2>1, Shortened DEF Size
  <2>3. Count(rx', answers') = Count(rx, answers) - 1
    <3>1. Size(rx') \in Nat /\ Size(rx) = Size(rx') + 1
      BY <1>0, <2>1, <2>2, Shortened DEF Size
    <3>2. Count(rx, answers) = Count(rx', answers) + 1 /\ Count(rx', answers) \in Nat
      BY <1>0, <3>1, OtherQueue
    <3> QED
      BY <2>1, <3>2
  <2> QED
    BY <1>0, <1>00, <1>01, <2>1, <2>3
<1>5. CASE CanReadNothing
  <2>1. canPc = "busy" /\ canPc' = "poll" /\ rx = <<>> /\ rx' = rx /\ answers' = answers
    BY <1>5 DEF CanReadNothing, bus
  <2>2. CASE late' = late + 1
    BY <1>0, <1>00, <1>01, <2>1, <2>2
  <2>3. CASE late' = late /\ \A d \in Drives : answers[d] = <<>>
    <3>1. Size(rx) = 0 /\ Size(answers["FRONT"]) = 0 /\ Size(answers["LEFT"]) = 0 /\ Size(answers["RIGHT"]) = 0
      BY <2>1, <2>3, EmptySeq DEF Drives, Size
    <3>2. Count(rx', answers') = 0
      BY <2>1, <3>1 DEF Count
    <3> QED
      BY <1>0, <1>00, <2>1, <2>3, <3>2
  <2> QED
    BY <1>5, <2>2, <2>3 DEF CanReadNothing
<1>6. CASE CanSleep \/ CanWake
  <2>1. canPc # "busy" /\ canPc' # "busy" /\ UNCHANGED <<rx, answers, late>>
    BY <1>6 DEF CanSleep, CanWake, bus, counters
  <2> QED
    BY <1>0, <1>00, <2>1
<1>7. ASSUME NEW d \in Drives, DriveAnswers(d) PROVE SkewBounded'
  <2>1. /\ canPc' = canPc /\ late' = late /\ answers[d] # <<>>
        /\ answers' = [answers EXCEPT ![d] = Tail(@)]
    BY <1>7 DEF DriveAnswers, counters
  <2>2. Size(rx') \in Nat /\ Size(rx') <= Size(rx) + 1
    <3>1. Head(answers[d]) \in DriveFrames
      BY <1>0, <2>1, Shortened DEF Owed, Size
    <3> QED
      BY <1>0, <1>7, <3>1, Appended DEF DriveAnswers, Size
  <2>3. Count(rx', answers) = Count(rx', answers') + 1
    <3>1. /\ answers' \in Owed
          /\ Size(answers[d]) = Size(answers'[d]) + 1
          /\ \A e \in Drives \ {d} : answers[e] = answers'[e]
      BY <1>0, <2>1, Shortened DEF Owed, Size
    <3> QED
      BY <1>0, <2>2, <3>1, OneMore
  <2>4. Count(rx', answers) <= Count(rx, answers) + 1 /\ Count(rx', answers) \in Int
    BY <1>0, <2>2, OtherQueue
  <2>5. Count(rx', answers') \in Nat
    <3>1. answers' \in Owed
      BY <1>0, <2>1, Shortened DEF Owed, Size
    <3> QED
      BY <2>2, <3>1, OtherQueue
  <2> QED
    BY <1>0, <1>00, <1>01, <2>1, <2>3, <2>4, <2>5
<1>8. CASE BootEnqueue \/ OSStart
  BY <1>1, <1>8 DEF BootEnqueue, OSStart, bus, counters
<1>9. ASSUME NEW s \in Sources, Receive(s) PROVE SkewBounded'
  BY <1>1, <1>9 DEF Receive, bus
<1>10. ASSUME NEW s \in Sources, Handle(s) PROVE SkewBounded'
  BY <1>1, <1>10 DEF Handle, Enqueue, Wake, Answer, DispatchMotion, DispatchQuery, DispatchOther, bus, counters
<1>11. CASE UNCHANGED vars
  BY <1>1, <1>11 DEF vars, bus, counters
<1> QED
  BY <1>2, <1>3, <1>4, <1>5, <1>6, <1>7, <1>8, <1>9, <1>10, <1>11 DEF Next, CanStep
-----------------------------------------------------------------------------
LEMMA EnQueueOrder ==
  ASSUME Types, NEW f \in Frames, EnQueue(f)
  PROVE  /\ \A i \in DOMAIN DCQ' : DCQ'[i] = f \/ (i \in DOMAIN DCQ /\ DCQ'[i] = DCQ[i])
         /\ \A i, j \in DOMAIN DCQ' : i < j => i \in DOMAIN DCQ /\ DCQ'[i] = DCQ[i]
<1>1. CASE Len(DCQ) >= MaxCount
  BY <1>1, One DEF EnQueue
<1>2. CASE ~(Len(DCQ) >= MaxCount)
  <2>1. DCQ' = Append(DCQ, f) /\ DCQ \in Seq(Frames)
    BY <1>2 DEF EnQueue, Types
  <2>2. /\ Len(DCQ) \in Nat /\ DOMAIN DCQ = 1 .. Len(DCQ) /\ DOMAIN DCQ' = 1 .. Len(DCQ) + 1
        /\ \A i \in 1 .. Len(DCQ) : DCQ'[i] = DCQ[i]
        /\ DCQ'[Len(DCQ) + 1] = f
    BY <2>1, Appended
  <2> QED
    BY <2>2
<1> QED
  BY <1>1, <1>2

LEMMA SetOrderNext == Types /\ Numbers /\ Uniform /\ SetOrder /\ [Next]_vars => SetOrder'
<1> SUFFICES ASSUME Types, Numbers, Uniform, SetOrder, [Next]_vars, ~overlapped' PROVE Ordered'
  BY DEF SetOrder
<1>0. Ordered
  BY Lasting DEF SetOrder
<1>1. ASSUME NEW f \in Frames, EnQueue(f), f.op # "set", UNCHANGED <<target, todo>> PROVE Ordered'
  <2>1. QueueOrder' /\ DriveOrder'
    BY <1>0, <1>1, EnQueueOrder DEF Ordered, QueueOrder, DriveOrder
  <2>2. ASSUME NEW s \in Sources PROVE SourceOrder(s)'
    BY <1>0, <1>1, EnQueueOrder DEF Ordered, SourceOrder
  <2> QED
    BY <2>1, <2>2 DEF Ordered
<1>2. CASE BootEnqueue
  BY <1>1, <1>2, BootEffect DEF BootEnqueue, bus, sources
<1>3. ASSUME NEW s \in Sources, Enqueue(s) PROVE Ordered'
  <2> DEFINE f == todo[s][1]
  <2>1. /\ f \in Frames /\ EnQueue(f) /\ target' = target /\ 1 \in DOMAIN todo[s] /\ todo[s] # <<>>
        /\ todo[s] \in Seq(DriveFrames) /\ todo'[s] = Tail(todo[s])
        /\ \A r \in Sources \ {s} : todo'[r] = todo[r]
    BY <1>3, EnqueueEffect DEF bus
  <2>2. /\ \A i \in DOMAIN DCQ' : DCQ'[i] = f \/ (i \in DOMAIN DCQ /\ DCQ'[i] = DCQ[i])
        /\ \A i, j \in DOMAIN DCQ' : i < j => i \in DOMAIN DCQ /\ DCQ'[i] = DCQ[i]
    BY <2>1, EnQueueOrder
  <2>3. f.op = "set" => /\ \A d \in Drives : target[d] <= f.n
                        /\ \A i \in DOMAIN DCQ : DCQ[i].op = "set" => DCQ[i].n <= f.n
    BY <1>0, <2>1 DEF Ordered, SourceOrder
  <2>4. \A k \in DOMAIN todo[s] : todo[s][k].op = f.op /\ todo[s][k].n = f.n
    BY <2>1 DEF Uniform
  <2>5. \A k \in DOMAIN todo'[s] : todo'[s][k].op = f.op /\ todo'[s][k].n = f.n
    BY <2>1, <2>4, TailElems
  <2>6. ASSUME NEW r \in Sources \ {s}, f.op = "set" PROVE \A k \in DOMAIN todo[r] : todo[r][k].op # "set"
    <3>1. todo[r] = <<>> \/ Head(todo[r]).op # "set"
      BY <1>3, <2>6, EnqueueEffect
    <3>2. todo[r] \in Seq(DriveFrames)
      BY DEF Types
    <3>3. CASE todo[r] = <<>>
      BY <3>3
    <3>4. CASE todo[r] # <<>>
      <4>1. 1 \in DOMAIN todo[r] /\ todo[r][1].op # "set"
        BY <3>1, <3>2, <3>4, Shortened
      <4> QED
        BY <4>1 DEF Uniform
    <3> QED
      BY <3>3, <3>4
  <2>9. f.n \in Nat
    BY <2>1 DEF Frames
  <2> HIDE DEF f
  <2>7. QueueOrder' /\ DriveOrder'
    BY <1>0, <2>1, <2>2, <2>3 DEF Ordered, QueueOrder, DriveOrder
  <2>8. ASSUME NEW r \in Sources PROVE SourceOrder(r)'
    <3>1. CASE r = s
      <4> SUFFICES ASSUME NEW k \in DOMAIN todo'[s], todo'[s][k].op = "set"
                   PROVE  /\ \A d \in Drives : target'[d] <= todo'[s][k].n
                          /\ \A i \in DOMAIN DCQ' : DCQ'[i].op = "set" => DCQ'[i].n <= todo'[s][k].n
        BY <3>1 DEF SourceOrder
      <4>1. todo'[s][k].n = f.n /\ f.op = "set"
        BY <2>5
      <4>2. f.n <= f.n
        BY <2>9
      <4> QED
        BY <2>1, <2>2, <2>3, <4>1, <4>2
    <3>2. CASE r # s /\ f.op = "set"
      BY <2>1, <2>6, <3>2 DEF SourceOrder
    <3>3. CASE r # s /\ f.op # "set"
      BY <1>0, <2>1, <2>2, <3>3 DEF Ordered, SourceOrder
    <3> QED
      BY <3>1, <3>2, <3>3
  <2> QED
    BY <2>7, <2>8 DEF Ordered
<1>4. CASE CanSend \/ CanSendLost
  <2>0. DCQ # <<>> /\ DCQ \in Seq(Frames) /\ DCQ' = Tail(DCQ) /\ todo' = todo
    BY <1>4 DEF CanSend, CanSendLost, Types, sources
  <2>1. /\ 1 \in DOMAIN DCQ /\ todo' = todo
        /\ Len(DCQ) \in Nat /\ DOMAIN DCQ = 1 .. Len(DCQ) /\ DOMAIN DCQ' = 1 .. Len(DCQ) - 1
        /\ \A k \in 1 .. Len(DCQ) - 1 : DCQ'[k] = DCQ[k + 1]
    BY <2>0, Shortened
  <2>2. \A i \in DOMAIN DCQ' : i + 1 \in DOMAIN DCQ /\ i + 1 > 1 /\ DCQ'[i] = DCQ[i + 1]
    BY <2>1
  <2>3. ASSUME NEW d \in Drives
        PROVE  target'[d] = target[d] \/ (DCQ[1].op = "set" /\ target'[d] = DCQ[1].n)
    <3>1. CASE CanSend
      BY <3>1, SendEffect DEF Types
    <3>2. CASE CanSendLost
      BY <3>2 DEF CanSendLost, bus
    <3> QED
      BY <1>4, <3>1, <3>2
  <2>4. QueueOrder'
    <3> SUFFICES ASSUME NEW i \in DOMAIN DCQ', NEW j \in DOMAIN DCQ', i < j,
                        DCQ'[i].op = "set", DCQ'[j].op = "set"
                 PROVE  DCQ'[i].n <= DCQ'[j].n
      BY DEF QueueOrder
    <3>1. i + 1 < j + 1
      BY <2>1
    <3> QED
      BY <1>0, <2>2, <3>1 DEF Ordered, QueueOrder
  <2>5. DriveOrder'
    <3> SUFFICES ASSUME NEW d \in Drives, NEW i \in DOMAIN DCQ', DCQ'[i].op = "set"
                 PROVE  target'[d] <= DCQ'[i].n
      BY DEF DriveOrder
    <3>1. 1 < i + 1 /\ i + 1 \in DOMAIN DCQ /\ DCQ'[i] = DCQ[i + 1]
      BY <2>1, <2>2
    <3>2. target[d] <= DCQ[i + 1].n
      BY <1>0, <3>1 DEF Ordered, DriveOrder
    <3>3. DCQ[1].op = "set" => DCQ[1].n <= DCQ[i + 1].n
      BY <1>0, <2>1, <3>1 DEF Ordered, QueueOrder
    <3> QED
      BY <2>3, <3>1, <3>2, <3>3
  <2>6. ASSUME NEW s \in Sources PROVE SourceOrder(s)'
    BY <1>0, <2>1, <2>2, <2>3 DEF Ordered, SourceOrder
  <2> QED
    BY <2>4, <2>5, <2>6 DEF Ordered
<1>5. ASSUME NEW s \in Sources, NEW k \in Nat, Quiet, Refill(s, k) PROVE Ordered'
  <2>1. QueueOrder' /\ DriveOrder'
    BY <1>0, <1>5 DEF Quiet, Ordered, QueueOrder, DriveOrder
  <2>2. ASSUME NEW r \in Sources PROVE SourceOrder(r)'
    <3>1. CASE r = s
      <4>1. todo'[r] = ForEach("get", k)
        BY <1>5, <3>1 DEF Refill, Types
      <4>2. \A i \in DOMAIN todo'[r] : todo'[r][i].op = "get"
        BY <4>1, TripleOf DEF Ops
      <4> QED
        BY <4>2 DEF SourceOrder
    <3>2. CASE r # s
      BY <1>0, <1>5, <3>2 DEF Refill, Quiet, Types, Ordered, SourceOrder
    <3> QED
      BY <3>1, <3>2
  <2> QED
    BY <2>1, <2>2 DEF Ordered
<1>6. ASSUME NEW s \in Sources, Quiet, Command(s) PROVE Ordered'
  <2>1. QueueOrder' /\ DriveOrder'
    BY <1>0, <1>6 DEF Quiet, Ordered, QueueOrder, DriveOrder
  <2>2. ASSUME NEW r \in Sources PROVE SourceOrder(r)'
    <3>1. CASE r = s
      <4>1. todo'[r] = ForEach("set", motions + 1) /\ motions + 1 \in Nat
        BY <1>6, <3>1 DEF Command, Types
      <4>2. \A i \in DOMAIN todo'[r] : todo'[r][i].n = motions + 1
        BY <4>1, TripleOf DEF Ops
      <4>3. \A d \in Drives : target'[d] <= motions + 1
        BY <1>6 DEF Quiet, Numbers, Types
      <4>4. \A i \in DOMAIN DCQ' : DCQ'[i].op = "set" => DCQ'[i].n <= motions + 1
        <5> SUFFICES ASSUME NEW i \in DOMAIN DCQ, DCQ[i].op = "set" PROVE DCQ[i].n <= motions + 1
          BY <1>6 DEF Quiet
        <5>1. DCQ[i] \in Frames /\ motions \in Nat /\ DCQ[i].n <= motions
          BY DEF Types, Numbers, Known
        <5>2. DCQ[i].n \in Nat
          BY <5>1 DEF Frames
        <5> QED
          BY <5>1, <5>2
      <4> QED
        BY <4>2, <4>3, <4>4 DEF SourceOrder
    <3>2. CASE r # s
      BY <1>0, <1>6, <3>2 DEF Command, Quiet, Types, Ordered, SourceOrder
    <3> QED
      BY <3>1, <3>2
  <2> QED
    BY <2>1, <2>2 DEF Ordered
<1>7. CASE Quiet /\ UNCHANGED <<todo, motions>>
  BY <1>0, <1>7 DEF Quiet, Ordered, QueueOrder, DriveOrder, SourceOrder
<1> QED
  BY <1>2, <1>3, <1>4, <1>5, <1>6, <1>7, Kinds, TodoKinds
-----------------------------------------------------------------------------
(* A queue with room keeps its frames where they are.                       *)
LEMMA RoomKeeps ==
  ASSUME Types, NEW f \in Frames, EnQueue(f), ~flushed'
  PROVE  /\ ~flushed /\ Len(DCQ) \in Nat /\ DOMAIN DCQ = 1 .. Len(DCQ)
         /\ DOMAIN DCQ' = 1 .. Len(DCQ) + 1 /\ DCQ'[Len(DCQ) + 1] = f
         /\ \A i \in DOMAIN DCQ : i \in DOMAIN DCQ' /\ DCQ'[i] = DCQ[i]
<1>1. DCQ' = Append(DCQ, f) /\ ~flushed /\ DCQ \in Seq(Frames)
  BY RoomAppends DEF Types
<1>2. /\ Len(DCQ) \in Nat /\ DOMAIN DCQ = 1 .. Len(DCQ) /\ DOMAIN DCQ' = 1 .. Len(DCQ) + 1
      /\ \A i \in 1 .. Len(DCQ) : DCQ'[i] = DCQ[i]
      /\ DCQ'[Len(DCQ) + 1] = f
  BY <1>1, Appended
<1> QED
  BY <1>1, <1>2

(* What is sent is the oldest frame; the others move up.                    *)
LEMMA TailMoves ==
  ASSUME NEW S, NEW q \in Seq(S), q # <<>>
  PROVE  /\ \A i \in DOMAIN q : i = 1 \/ (i - 1 \in DOMAIN Tail(q) /\ Tail(q)[i - 1] = q[i])
         /\ \A i \in DOMAIN Tail(q) : i + 1 \in DOMAIN q /\ i + 1 # 1 /\ Tail(q)[i] = q[i + 1]
         /\ 1 \in DOMAIN q /\ DOMAIN q \subseteq Nat /\ DOMAIN Tail(q) \subseteq Nat
<1>1. /\ Len(q) \in Nat \ {0} /\ DOMAIN q = 1 .. Len(q) /\ DOMAIN Tail(q) = 1 .. Len(q) - 1
      /\ \A i \in 1 .. Len(q) - 1 : Tail(q)[i] = q[i + 1]
  BY Shortened
<1> QED
  BY <1>1

LEMMA SetArrivesNext ==
  Types /\ Numbers /\ SetOrder /\ SetArrives /\ [Next]_vars => SetArrives'
<1> SUFFICES ASSUME Types, Numbers, SetOrder, SetArrives, [Next]_vars,
                    ~flushed', losses' = 0, ~overlapped', NEW d \in Drives
             PROVE  LastSet(d)'
  BY DEF SetArrives
<1>0. LastSet(d) /\ Ordered
  BY Lasting DEF SetArrives, SetOrder
<1>1. CASE BootEnqueue
  <2>1. PICK f \in Frames : EnQueue(f)
    BY <1>1, BootEffect
  <2>2. UNCHANGED <<todo, target, motions>>
    BY <1>1 DEF BootEnqueue, sources, bus, counters
  <2>3. \A i \in DOMAIN DCQ : i \in DOMAIN DCQ' /\ DCQ'[i] = DCQ[i]
    BY <2>1, RoomKeeps
  <2> QED
    BY <1>0, <2>2, <2>3 DEF LastSet, IsLast
<1>2. ASSUME NEW s \in Sources, Enqueue(s) PROVE LastSet(d)'
  <2>1. /\ todo[s][1] \in Frames /\ EnQueue(todo[s][1]) /\ UNCHANGED <<target, motions>>
        /\ todo[s] # <<>> /\ todo[s] \in Seq(DriveFrames) /\ todo'[s] = Tail(todo[s])
        /\ \A r \in Sources \ {s} : todo'[r] = todo[r]
    BY <1>2, EnqueueEffect DEF bus, counters
  <2>2. /\ \A i \in DOMAIN DCQ : i \in DOMAIN DCQ' /\ DCQ'[i] = DCQ[i]
        /\ Len(DCQ) + 1 \in DOMAIN DCQ' /\ DCQ'[Len(DCQ) + 1] = todo[s][1]
    BY <2>1, RoomKeeps
  <2>3. CASE target[d] = motions \/ \E i \in DOMAIN DCQ : IsLast(d, DCQ[i])
    BY <2>1, <2>2, <2>3 DEF LastSet, IsLast
  <2>4. ASSUME NEW r \in Sources, NEW k \in DOMAIN todo[r], IsLast(d, todo[r][k]) PROVE LastSet(d)'
    <3>1. CASE r # s
      BY <2>1, <2>4, <3>1 DEF LastSet, IsLast
    <3>2. CASE r = s /\ k = 1
      BY <2>1, <2>2, <2>4, <3>2 DEF LastSet, IsLast
    <3>3. CASE r = s /\ k # 1
      <4>1. k - 1 \in DOMAIN todo'[s] /\ todo'[s][k - 1] = todo[s][k]
        BY <2>1, <2>4, <3>3, TailMoves
      <4> QED
        BY <2>1, <2>4, <3>3, <4>1 DEF LastSet, IsLast
    <3> QED
      BY <3>1, <3>2, <3>3
  <2> QED
    BY <1>0, <2>3, <2>4 DEF LastSet
<1>3. CASE CanSend
  <2>1. /\ DCQ # <<>> /\ DCQ \in Seq(Frames) /\ DCQ' = Tail(DCQ) /\ DCQ[1] \in Frames
        /\ UNCHANGED <<todo, motions>>
        /\ target' = IF DCQ[1].to \in Drives /\ DCQ[1].op = "set"
                     THEN [target EXCEPT ![DCQ[1].to] = DCQ[1].n] ELSE target
    BY <1>3, SendEffect DEF counters
  <2>2. /\ \A i \in DOMAIN DCQ : i = 1 \/ (i - 1 \in DOMAIN DCQ' /\ DCQ'[i - 1] = DCQ[i])
        /\ 1 \in DOMAIN DCQ
    BY <2>1, TailMoves
  <2>3. CASE target[d] = motions
    <3>1. CASE SetFor(d, DCQ[1])
      <4>1. target[d] <= DCQ[1].n /\ DCQ[1].n <= motions
        BY <1>0, <2>2, <3>1 DEF Ordered, DriveOrder, Numbers, Known, SetFor
      <4>2. DCQ[1].n \in Nat /\ motions \in Nat
        BY <2>1 DEF Frames, Types
      <4>3. target'[d] = motions
        BY <2>1, <2>3, <3>1, <4>1, <4>2 DEF SetFor, Types
      <4> QED
        BY <2>1, <4>3 DEF LastSet
    <3>2. CASE ~SetFor(d, DCQ[1])
      <4>1. target'[d] = motions
        BY <2>1, <2>3, <3>2 DEF SetFor, Types
      <4> QED
        BY <2>1, <4>1 DEF LastSet
    <3> QED
      BY <3>1, <3>2
  <2>4. ASSUME NEW i \in DOMAIN DCQ, IsLast(d, DCQ[i]) PROVE LastSet(d)'
    <3>1. CASE i = 1
      <4>1. target'[d] = motions
        BY <2>1, <2>4, <3>1 DEF IsLast, SetFor, Types
      <4> QED
        BY <2>1, <4>1 DEF LastSet
    <3>2. CASE i # 1
      BY <2>1, <2>2, <2>4, <3>2 DEF LastSet, IsLast
    <3> QED
      BY <3>1, <3>2
  <2>5. ASSUME NEW r \in Sources, NEW k \in DOMAIN todo[r], IsLast(d, todo[r][k]) PROVE LastSet(d)'
    BY <2>1, <2>5 DEF LastSet, IsLast
  <2> QED
    BY <1>0, <2>3, <2>4, <2>5 DEF LastSet
<1>4. CASE CanSendLost
  BY <1>4 DEF CanSendLost, Types
<1>5. ASSUME NEW s \in Sources, NEW k \in Nat, Quiet, UNCHANGED motions, Refill(s, k) PROVE LastSet(d)'
  <2>1. \A r \in Sources \ {s} : todo'[r] = todo[r]
    BY <1>5 DEF Refill, Types
  <2>2. todo[s] = <<>> /\ UNCHANGED <<DCQ, target, motions>>
    BY <1>5 DEF Refill, Quiet
  <2>3. ASSUME NEW r \in Sources, NEW j \in DOMAIN todo[r], IsLast(d, todo[r][j]) PROVE LastSet(d)'
    <3>1. r # s
      BY <2>2, EmptySeq
    <3> QED
      BY <2>1, <2>2, <2>3, <3>1 DEF LastSet, IsLast
  <2> QED
    BY <1>0, <2>2, <2>3 DEF LastSet, IsLast
<1>6. ASSUME NEW s \in Sources, Quiet, Command(s) PROVE LastSet(d)'
  <2>1. motions + 1 \in Nat /\ motions' = motions + 1 /\ todo'[s] = ForEach("set", motions + 1)
    BY <1>6 DEF Command, Types
  <2>2. PICK k \in 1 .. 3 : ForEach("set", motions + 1)[k].to = d
    BY <2>1, Triple DEF Drives, Ops
  <2>3. k \in DOMAIN ForEach("set", motions + 1)
    BY <2>1, Triple DEF Ops
  <2>4. ForEach("set", motions + 1)[k].op = "set" /\ ForEach("set", motions + 1)[k].n = motions + 1
    BY <2>1, <2>3, TripleOf DEF Ops
  <2> QED
    BY <2>1, <2>2, <2>3, <2>4 DEF LastSet, IsLast, SetFor
<1>7. CASE Quiet /\ UNCHANGED <<todo, motions>>
  BY <1>0, <1>7 DEF Quiet, LastSet, IsLast
<1> QED
  BY <1>1, <1>2, <1>3, <1>4, <1>5, <1>6, <1>7, Kinds, TodoKinds
-----------------------------------------------------------------------------
LEMMA AppendedElems ==
  ASSUME NEW S, NEW q \in Seq(S), NEW f \in S
  PROVE  Elems(Append(q, f)) = Elems(q) \cup {f}
<1>1. /\ Len(q) \in Nat /\ DOMAIN q = 1 .. Len(q) /\ DOMAIN Append(q, f) = 1 .. Len(q) + 1
      /\ \A i \in 1 .. Len(q) : Append(q, f)[i] = q[i]
      /\ Append(q, f)[Len(q) + 1] = f
  BY Appended
<1> QED
  BY <1>1 DEF Elems

LEMMA ShortenedElems ==
  ASSUME NEW S, NEW q \in Seq(S), q # <<>>
  PROVE  Elems(q) = {q[1]} \cup Elems(Tail(q))
<1>1. /\ \A i \in DOMAIN q : i = 1 \/ (i - 1 \in DOMAIN Tail(q) /\ Tail(q)[i - 1] = q[i])
      /\ \A i \in DOMAIN Tail(q) : i + 1 \in DOMAIN q /\ Tail(q)[i] = q[i + 1]
      /\ 1 \in DOMAIN q
  BY TailMoves
<1>2. Elems(q) \subseteq {q[1]} \cup Elems(Tail(q))
  <2> SUFFICES ASSUME NEW i \in DOMAIN q PROVE q[i] \in {q[1]} \cup Elems(Tail(q))
    BY DEF Elems
  <2> QED
    BY <1>1 DEF Elems
<1>3. Elems(Tail(q)) \subseteq Elems(q)
  <2> SUFFICES ASSUME NEW i \in DOMAIN Tail(q) PROVE Tail(q)[i] \in Elems(q)
    BY DEF Elems
  <2> QED
    BY <1>1 DEF Elems
<1>4. q[1] \in Elems(q)
  BY <1>1 DEF Elems
<1> QED
  BY <1>2, <1>3, <1>4

LEMMA NoElems == Elems(<<>>) = {}
BY DEF Elems

LEMMA OneElem == ASSUME NEW f PROVE Elems(Append(<<>>, f)) = {f}
<1>1. Append(<<>>, f) = <<f>>
  OBVIOUS
<1>2. Elems(<<f>>) = {f}
  BY DEF Elems
<1> QED
  BY <1>1, <1>2

(* While no answer was late, one is owed or unread at most, and none but    *)
(* while can_thread waits for it.                                           *)
LEMMA AtMostOne ==
  ASSUME Types, SkewBounded, late = 0
  PROVE  /\ canPc # "busy" => rx = <<>> /\ \A d \in Drives : answers[d] = <<>>
         /\ rx # <<>> => Tail(rx) = <<>> /\ \A d \in Drives : answers[d] = <<>>
         /\ Len(rx) < RxDepth
<1>1. /\ Size(answers["FRONT"]) \in Nat /\ Size(answers["LEFT"]) \in Nat /\ Size(answers["RIGHT"]) \in Nat
      /\ Size(rx) \in Nat
  BY Sizes DEF Types, Owed, Size
<1>2. Unread = Size(rx) + Size(answers["FRONT"]) + Size(answers["LEFT"]) + Size(answers["RIGHT"])
  BY DEF Unread, Size
<1>3. Unread <= 1 /\ (canPc # "busy" => Unread <= 0)
  BY <1>1, <1>2 DEF SkewBounded
<1>4. /\ canPc # "busy" => Size(rx) = 0 /\ Size(answers["FRONT"]) = 0 /\ Size(answers["LEFT"]) = 0 /\ Size(answers["RIGHT"]) = 0
      /\ Size(rx) # 0 => Size(rx) = 1 /\ Size(answers["FRONT"]) = 0 /\ Size(answers["LEFT"]) = 0 /\ Size(answers["RIGHT"]) = 0
      /\ Size(rx) < 3
  BY <1>1, <1>2, <1>3
<1>5. \A d \in Drives : answers[d] \in Seq(DriveFrames)
  BY DEF Types
<1>6. (Size(rx) = 0 <=> rx = <<>>) /\ \A d \in Drives : Size(answers[d]) = 0 <=> answers[d] = <<>>
  BY <1>5, EmptySeq DEF Types, Size
<1>7. rx # <<>> /\ Size(rx) = 1 => Tail(rx) = <<>>
  <2>1. rx \in Seq(DriveFrames)
    BY DEF Types
  <2>2. rx # <<>> => (Len(rx) > 1) = (Tail(rx) # <<>>)
    BY <2>1, Shortened
  <2> QED
    BY <2>2 DEF Size
<1>8. Drives = {"FRONT", "LEFT", "RIGHT"} /\ RxDepth = 3
  BY DEF Drives, RxDepth
<1> QED
  BY <1>4, <1>6, <1>7, <1>8 DEF Size

LEMMA NotLateYet == ASSUME Types, [Next]_vars, late' = 0 PROVE late = 0
<1>1. late' = late \/ late' = late + 1
  BY DEF Next, BootEnqueue, OSStart, Receive, Handle, Enqueue, Wake, Answer, DispatchMotion, DispatchQuery,
    DispatchOther, CanStep, CanSend, CanSendLost, CanRead, CanReadNothing, CanSleep, CanWake, DriveAnswers,
    vars, counters
<1> QED
  BY <1>1 DEF Types

(* The steps that matter to the answers.                                    *)
LEMMA AnswerKinds ==
  ASSUME [Next]_vars
  PROVE  \/ BootEnqueue \/ (\E s \in Sources : Enqueue(s)) \/ CanSend \/ CanSendLost \/ CanRead
         \/ (\E d \in Drives : DriveAnswers(d)) \/ UNCHANGED <<DCQ, rx, answers, cur, lastPoll>>
<1>1. ASSUME NEW s \in Sources, Receive(s) PROVE UNCHANGED <<DCQ, rx, answers, cur, lastPoll>>
  BY <1>1 DEF Receive, bus, history
<1>2. ASSUME NEW s \in Sources, Wake(s) \/ Answer(s) \/ DispatchMotion(s) \/ DispatchQuery(s) \/ DispatchOther(s)
      PROVE  UNCHANGED <<DCQ, rx, answers, cur, lastPoll>>
  BY <1>2 DEF Wake, Answer, DispatchMotion, DispatchQuery, DispatchOther, bus, history
<1>3. CASE OSStart \/ CanReadNothing \/ CanSleep \/ CanWake
  BY <1>3 DEF OSStart, CanReadNothing, CanSleep, CanWake, bus, history
<1>4. CASE UNCHANGED vars
  BY <1>4 DEF vars, bus, history
<1> QED
  BY <1>1, <1>2, <1>3, <1>4 DEF Next, Handle, CanStep

LEMMA PollArrivesNext == Types /\ SkewBounded /\ PollArrives /\ [Next]_vars => PollArrives'
<1> SUFFICES ASSUME Types, SkewBounded, PollArrives, [Next]_vars,
                    ~flushed', losses' = 0, late' = 0, NEW d \in Drives
             PROVE  LastGet(d)'
  BY DEF PollArrives
<1>0. LastGet(d) /\ late = 0
  BY Lasting, NotLateYet DEF PollArrives
<1>1. ASSUME NEW f \in Frames, EnQueue(f), ~PollOf(d, f), lastPoll'[d] = lastPoll[d], UNCHANGED <<rx, answers, cur>>
      PROVE  LastGet(d)'
  <2>1. /\ \A i \in DOMAIN DCQ : i \in DOMAIN DCQ' /\ DCQ'[i] = DCQ[i]
        /\ \A i \in DOMAIN DCQ' : DCQ'[i] = f \/ (i \in DOMAIN DCQ /\ DCQ'[i] = DCQ[i])
    BY <1>1, RoomKeeps, EnQueueOrder
  <2>2. Flying' = Flying
    BY <1>1 DEF Flying
  <2>3. ASSUME NEW i \in DOMAIN DCQ, PollOf(d, DCQ[i]), DCQ[i].n = lastPoll[d],
               \A j \in DOMAIN DCQ : i < j => ~PollOf(d, DCQ[j])
        PROVE  LastGet(d)'
    <3>1. \A j \in DOMAIN DCQ' : i < j => ~PollOf(d, DCQ'[j])
      BY <1>1, <2>1, <2>3
    <3> QED
      BY <1>1, <2>1, <2>3, <3>1 DEF LastGet
  <2>4. CASE \A j \in DOMAIN DCQ : ~PollOf(d, DCQ[j])
    <3>1. \A j \in DOMAIN DCQ' : ~PollOf(d, DCQ'[j])
      BY <1>1, <2>1, <2>4
    <3>2. \/ \E g \in Flying : PollOf(d, g) /\ g.n = lastPoll[d]
          \/ cur[d] = lastPoll[d] /\ \A g \in Flying : ~PollOf(d, g)
      BY <1>0, <2>4 DEF LastGet
    <3> QED
      BY <1>1, <2>2, <3>1, <3>2 DEF LastGet
  <2> QED
    BY <1>0, <2>3, <2>4 DEF LastGet
<1>2. CASE BootEnqueue
  <2>1. PICK f \in Frames : f.op = "setup" /\ EnQueue(f)
    BY <1>2, BootEffect
  <2>2. UNCHANGED <<rx, answers, cur, lastPoll>>
    BY <1>2 DEF BootEnqueue, bus
  <2> QED
    BY <1>1, <2>1, <2>2 DEF PollOf
<1>3. ASSUME NEW s \in Sources, Enqueue(s) PROVE LastGet(d)'
  <2> DEFINE f == todo[s][1]
  <2>1. /\ f \in Frames /\ f \in DriveFrames /\ EnQueue(f) /\ UNCHANGED <<rx, answers, cur>>
        /\ lastPoll' = IF f.op = "get" THEN [lastPoll EXCEPT ![f.to] = f.n] ELSE lastPoll
    BY <1>3, EnqueueEffect DEF bus
  <2>2. f.to \in Drives
    BY <2>1 DEF DriveFrames
  <2> HIDE DEF f
  <2>3. CASE PollOf(d, f)
    <3>1. lastPoll'[d] = f.n
      BY <2>1, <2>2, <2>3 DEF PollOf, Types
    <3>2. /\ Len(DCQ) \in Nat /\ DOMAIN DCQ' = 1 .. Len(DCQ) + 1 /\ DCQ'[Len(DCQ) + 1] = f
      BY <2>1, RoomKeeps
    <3>3. Len(DCQ) + 1 \in DOMAIN DCQ' /\ \A j \in DOMAIN DCQ' : ~(Len(DCQ) + 1 < j)
      BY <3>2
    <3> QED
      BY <2>3, <3>1, <3>2, <3>3 DEF LastGet
  <2>4. CASE ~PollOf(d, f)
    <3>1. lastPoll'[d] = lastPoll[d]
      BY <2>1, <2>2, <2>4 DEF PollOf, Types
    <3> QED
      BY <1>1, <2>1, <2>4, <3>1
  <2> QED
    BY <2>3, <2>4
<1>4. CASE CanSend
  <2> DEFINE f == DCQ[1]
  <2>1. /\ DCQ # <<>> /\ DCQ \in Seq(Frames) /\ DCQ' = Tail(DCQ) /\ f \in Frames
        /\ UNCHANGED <<rx, cur, lastPoll>>
        /\ answers' = IF f.to \in Drives THEN [answers EXCEPT ![f.to] = Append(@, f)] ELSE answers
    BY <1>4, SendEffect DEF history
  <2>2. /\ \A i \in DOMAIN DCQ : i = 1 \/ (i - 1 \in DOMAIN DCQ' /\ DCQ'[i - 1] = DCQ[i])
        /\ \A i \in DOMAIN DCQ' : i + 1 \in DOMAIN DCQ /\ i + 1 # 1 /\ DCQ'[i] = DCQ[i + 1]
        /\ 1 \in DOMAIN DCQ /\ DOMAIN DCQ \subseteq Nat /\ DOMAIN DCQ' \subseteq Nat
    BY <2>1, TailMoves
  <2>3. rx = <<>> /\ \A e \in Drives : answers[e] = <<>>
    BY <1>0, <1>4, AtMostOne DEF CanSend
  <2>4. Flying = {}
    BY <2>3, NoElems DEF Flying
  <2>5. Flying' = IF f.to \in Drives THEN {f} ELSE {}
    <3>1. CASE f.to \in Drives
      <4>1. f \in DriveFrames
        BY <2>1, <3>1 DEF Frames, DriveFrames
      <4>2. answers'[f.to] = Append(<<>>, f) /\ \A e \in Drives \ {f.to} : answers'[e] = <<>>
        BY <2>1, <2>3, <3>1 DEF Types
      <4>3. Elems(answers'[f.to]) = {f}
        BY <4>2, OneElem
      <4> QED
        BY <2>1, <2>3, <3>1, <4>2, <4>3, NoElems DEF Flying
    <3>2. CASE f.to \notin Drives
      BY <2>1, <2>4, <3>2 DEF Flying
    <3> QED
      BY <3>1, <3>2
  <2>6. ASSUME NEW i \in DOMAIN DCQ, PollOf(d, DCQ[i]), DCQ[i].n = lastPoll[d],
               \A j \in DOMAIN DCQ : i < j => ~PollOf(d, DCQ[j])
        PROVE  LastGet(d)'
    <3>1. CASE i = 1
      <4>1. \A j \in DOMAIN DCQ' : ~PollOf(d, DCQ'[j])
        <5> SUFFICES ASSUME NEW j \in DOMAIN DCQ' PROVE ~PollOf(d, DCQ[j + 1]) /\ DCQ'[j] = DCQ[j + 1]
          OBVIOUS
        <5>1. j + 1 \in DOMAIN DCQ /\ DCQ'[j] = DCQ[j + 1] /\ 1 < j + 1
          BY <2>2
        <5> QED
          BY <2>6, <3>1, <5>1
      <4>2. f \in Flying' /\ PollOf(d, f) /\ f.n = lastPoll'[d]
        BY <2>1, <2>5, <2>6, <3>1 DEF PollOf
      <4> QED
        BY <4>1, <4>2 DEF LastGet
    <3>2. CASE i # 1
      <4>1. \A j \in DOMAIN DCQ' : i - 1 < j => ~PollOf(d, DCQ'[j])
        <5> SUFFICES ASSUME NEW j \in DOMAIN DCQ', i - 1 < j PROVE ~PollOf(d, DCQ'[j])
          OBVIOUS
        <5>1. j + 1 \in DOMAIN DCQ /\ DCQ'[j] = DCQ[j + 1] /\ i < j + 1
          BY <2>2
        <5> QED
          BY <2>6, <5>1
      <4> QED
        BY <2>1, <2>2, <2>6, <3>2, <4>1 DEF LastGet
    <3> QED
      BY <3>1, <3>2
  <2>7. CASE \A j \in DOMAIN DCQ : ~PollOf(d, DCQ[j])
    <3>1. \A j \in DOMAIN DCQ' : ~PollOf(d, DCQ'[j])
      BY <2>2, <2>7
    <3>2. cur[d] = lastPoll[d]
      BY <1>0, <2>4, <2>7 DEF LastGet
    <3>3. \A g \in Flying' : ~PollOf(d, g)
      BY <2>2, <2>5, <2>7
    <3> QED
      BY <2>1, <3>1, <3>2, <3>3 DEF LastGet
  <2> QED
    BY <1>0, <2>6, <2>7 DEF LastGet
<1>5. CASE CanSendLost
  BY <1>5 DEF CanSendLost, Types
<1>6. CASE CanRead
  <2> DEFINE f == rx[1]
  <2>1. rx # <<>> /\ rx' = Tail(rx) /\ UNCHANGED <<DCQ, answers, lastPoll>> /\ cur' = FeedbackMessge(Head(rx))
    BY <1>6 DEF CanRead, history
  <2>2. rx \in Seq(DriveFrames) /\ Head(rx) = f /\ f \in DriveFrames
    BY <2>1, Shortened DEF Types
  <2>3. Tail(rx) = <<>> /\ \A e \in Drives : answers[e] = <<>>
    BY <1>0, <2>1, AtMostOne
  <2>4. Flying = {f}
    BY <2>1, <2>2, <2>3, ShortenedElems, NoElems DEF Flying
  <2>5. Flying' = {}
    BY <2>1, <2>3, NoElems DEF Flying
  <2>6. cur'[d] = IF PollOf(d, f) THEN f.n ELSE cur[d]
    BY <2>1, <2>2 DEF FeedbackMessge, PollOf, DriveFrames, Types
  <2> HIDE DEF f
  <2> QED
    BY <1>0, <2>1, <2>4, <2>5, <2>6 DEF LastGet
<1>7. ASSUME NEW e \in Drives, DriveAnswers(e) PROVE LastGet(d)'
  <2>1. /\ answers[e] # <<>> /\ UNCHANGED <<DCQ, cur, lastPoll>>
        /\ answers' = [answers EXCEPT ![e] = Tail(@)]
        /\ Len(rx) < RxDepth => rx' = Append(rx, Head(answers[e]))
    BY <1>7 DEF DriveAnswers, history
  <2>2. answers[e] \in Seq(DriveFrames) /\ rx \in Seq(DriveFrames)
    BY DEF Types
  <2>3. Head(answers[e]) = answers[e][1] /\ answers[e][1] \in DriveFrames
    BY <2>1, <2>2, Shortened
  <2>4. rx' = Append(rx, answers[e][1])
    BY <1>0, <2>1, <2>3, AtMostOne
  <2>5. Elems(rx') = Elems(rx) \cup {answers[e][1]} /\ Elems(answers[e]) = {answers[e][1]} \cup Elems(Tail(answers[e]))
    BY <2>1, <2>2, <2>3, <2>4, AppendedElems, ShortenedElems
  <2>6. answers'[e] = Tail(answers[e]) /\ \A c \in Drives \ {e} : answers'[c] = answers[c]
    BY <2>1 DEF Types
  <2>7. Flying' = Flying
    BY <2>5, <2>6 DEF Flying
  <2> QED
    BY <1>0, <2>1, <2>7 DEF LastGet
<1>8. CASE UNCHANGED <<DCQ, rx, answers, cur, lastPoll>>
  <2>1. Flying' = Flying
    BY <1>8 DEF Flying
  <2> QED
    BY <1>0, <1>8, <2>1 DEF LastGet
<1> QED
  BY <1>2, <1>3, <1>4, <1>5, <1>6, <1>7, <1>8, AnswerKinds
-----------------------------------------------------------------------------
LEMMA InitIInv == Init => IInv
<1> SUFFICES ASSUME Init PROVE IInv
  OBVIOUS
<1>1. Types
  BY InitTypes
<1>2. /\ rx = <<>> /\ answers = [d \in Drives |-> <<>>] /\ todo = [s \in Sources |-> <<>>]
      /\ req = [s \in Sources |-> 0] /\ cur = [d \in Drives |-> 0] /\ target = [d \in Drives |-> 0]
      /\ lastPoll = [d \in Drives |-> 0] /\ arrived = 0 /\ motions = 0 /\ late = 0
      /\ DCQ = InitDriverCmds
  BY DEF Init
<1>3. /\ DOMAIN DCQ = 1 .. 6
      /\ \A i \in 1 .. 6 : DCQ[i].op \in {"tvel", "enable"}
      /\ \A d \in Drives : \E i \in 1 .. 6 : DCQ[i].op = "enable" /\ DCQ[i].to = d
  <2>1. DCQ \in Seq(Frames) /\ Len(DCQ) = 6
    BY <1>2, BootFrames
  <2> QED
    BY <1>2, <2>1, BootFrames
<1>4. Numbers
  BY <1>2, <1>3 DEF Numbers, Known
<1>5. Uniform
  BY <1>2 DEF Uniform
<1>6. SkewBounded
  BY <1>2, EmptySeq DEF SkewBounded, Unread, Drives, Init
<1>7. \A j \in DOMAIN DCQ : DCQ[j].op # "set" /\ DCQ[j].op # "get"
  BY <1>3
<1>8. EnableOrder
  BY <1>2, <1>3, <1>7 DEF EnableOrder, EnableAhead, SetFor
<1>9. SetOrder
  BY <1>2, <1>7 DEF SetOrder, Ordered, QueueOrder, DriveOrder, SourceOrder
<1>10. SetArrives
  BY <1>2 DEF SetArrives, LastSet
<1>11. PollArrives
  <2>1. Flying = {}
    BY <1>2, NoElems DEF Flying
  <2> QED
    BY <1>2, <1>7, <2>1 DEF PollArrives, LastGet, PollOf
<1> QED
  BY <1>1, <1>4, <1>5, <1>6, <1>8, <1>9, <1>10, <1>11 DEF IInv

LEMMA NextIInv == IInv /\ [Next]_vars => IInv'
BY TypesNext, NumbersNext, UniformNext, SkewNext, EnableOrderNext, SetOrderNext, SetArrivesNext, PollArrivesNext
DEF IInv

(* Every state of every run satisfies the invariant: the queue, the sources  *)
(* and can_thread (message.c, can.c:38-49) keep their numbers in order.      *)
THEOREM PipelineInvariant == Spec => []IInv
<1> QED
  BY InitIInv, NextIInv, PTL DEF Spec

(* Queue.c's capacity, the receive FIFO and the states of MessageHandle and *)
(* can_thread stay in their ranges.                                         *)
THEOREM TypeCorrect == Spec => []TypeOK
<1>1. IInv => TypeOK
  <2> SUFFICES ASSUME Types, Numbers PROVE TypeOK
    BY DEF IInv
  <2>1. \A i \in DOMAIN DCQ : DCQ[i].to \in Drives \cup {"nobody"}
    <3> SUFFICES ASSUME NEW i \in DOMAIN DCQ PROVE DCQ[i].to \in Drives \cup {"nobody"}
      OBVIOUS
    <3>1. DCQ[i] \in Frames
      BY DEF Types
    <3> QED
      BY <3>1 DEF Frames
  <2>2. \A d \in Drives : cur[d] <= arrived /\ target[d] <= motions
    BY DEF Numbers
  <2>3. \A s \in Sources : (pc[s] = "enqueue") = (todo[s] # <<>>)
    BY DEF Types
  <2> QED
    BY <2>1, <2>2, <2>3 DEF Types, TypeOK
<1> QED
  BY <1>1, PipelineInvariant, PTL

(* Request and answer of can_thread differ by no more than the answers that *)
(* were late, for any number of sources, messages and lost frames.          *)
THEOREM SkewAlwaysBounded == Spec => []SkewBounded
<1>1. IInv => SkewBounded
  BY DEF IInv
<1> QED
  BY <1>1, PipelineInvariant, PTL

(* No drive moves before it is enabled: the enable frame is in front of     *)
(* every set point until the drive has it.                                  *)
THEOREM EnabledBeforeMoved == Spec => []EnabledFirst
<1>1. IInv => EnabledFirst
  BY DEF IInv, EnableOrder, EnableAhead, EnabledFirst
<1> QED
  BY <1>1, PipelineInvariant, PTL

LEMMA SettledEmpty ==
  ASSUME Types, Settled
  PROVE  /\ DOMAIN DCQ = {} /\ \A s \in Sources : DOMAIN todo[s] = {}
         /\ \A d \in Drives : answers[d] = <<>>
<1>1. DCQ = <<>> /\ \A d \in Drives : answers[d] = <<>>
  BY DEF Settled
<1>2. ASSUME NEW s \in Sources PROVE todo[s] = <<>>
  BY DEF Settled, Types
<1> QED
  BY <1>1, <1>2

(* When the robot has settled its drives follow one command, the last.      *)
THEOREM TargetsAgree == Spec => []TargetsCoherent
<1>1. IInv => TargetsCoherent
  BY SettledEmpty DEF IInv, SetArrives, LastSet, TargetsCoherent
<1> QED
  BY <1>1, PipelineInvariant, PTL

(* When the robot has settled and no answer was late, the values it reports *)
(* are those of the last poll of each drive.                                *)
THEOREM ValuesAreCurrent == Spec => []ValuesCurrent
<1>1. IInv => ValuesCurrent
  <2> SUFFICES ASSUME IInv, Settled, ~flushed, losses = 0, late = 0 PROVE cur = lastPoll
    BY DEF ValuesCurrent
  <2>1. DOMAIN DCQ = {} /\ \A d \in Drives : answers[d] = <<>>
    BY SettledEmpty DEF IInv
  <2>2. rx = <<>>
    BY AtMostOne DEF IInv, Settled
  <2>3. Flying = {}
    BY <2>1, <2>2, NoElems DEF Flying
  <2>4. \A d \in Drives : cur[d] = lastPoll[d]
    BY <2>1, <2>3 DEF IInv, PollArrives, LastGet
  <2> QED
    BY <2>4 DEF IInv, Types
<1> QED
  BY <1>1, PipelineInvariant, PTL

(* A drive goes back to an older command only when the set points of two    *)
(* commands were interleaved; flushes and lost frames never do that.        *)
THEOREM NeverRolledBack == Spec => NoRollback
<1> DEFINE Forward == ~overlapped' => \A d \in Drives : target'[d] >= target[d]
<1>1. IInv /\ [Next]_vars => [Forward]_vars
  <2> SUFFICES ASSUME IInv, [Next]_vars, ~overlapped', NEW d \in Drives PROVE target'[d] >= target[d]
    OBVIOUS
  <2>1. Types /\ Ordered
    BY Lasting DEF IInv, SetOrder
  <2>2. target[d] \in Nat
    BY <2>1 DEF Types
  <2>3. CASE CanSend
    <3>1. /\ 1 \in DOMAIN DCQ
          /\ target' = IF DCQ[1].to \in Drives /\ DCQ[1].op = "set"
                       THEN [target EXCEPT ![DCQ[1].to] = DCQ[1].n] ELSE target
      BY <2>1, <2>3, SendEffect
    <3>2. DCQ[1].op = "set" => target[d] <= DCQ[1].n
      BY <2>1, <3>1 DEF Ordered, DriveOrder
    <3>3. target'[d] = target[d] \/ (DCQ[1].op = "set" /\ target'[d] = DCQ[1].n)
      BY <2>1, <3>1 DEF Types
    <3>4. DCQ[1].n \in Nat
      <4>1. DCQ[1] \in Frames
        BY <2>1, <2>3, SendEffect
      <4> QED
        BY <4>1 DEF Frames
    <3> QED
      BY <2>2, <3>2, <3>3, <3>4
  <2>4. CASE BootEnqueue \/ (\E s \in Sources : Enqueue(s)) \/ CanSendLost \/ Quiet
    <3>1. target' = target
      BY <2>4 DEF BootEnqueue, Enqueue, CanSendLost, Quiet, bus
    <3> QED
      BY <2>2, <3>1
  <2> QED
    BY <2>3, <2>4, Kinds
<1> QED
  BY <1>1, PipelineInvariant, PTL DEF Spec, NoRollback
=============================================================================
