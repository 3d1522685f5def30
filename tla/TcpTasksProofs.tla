---------------------------- MODULE TcpTasksProofs ----------------------------
(* Proofs about TcpTasks, for every size of the pools and mailboxes and any  *)
(* number of commands and messages: pools stay accounted for, commands run   *)
(* in order, and feedback is lost only where the client is caught.           *)
EXTENDS TcpTasks, FiniteSetTheorems, TLAPS

(* Where each task can be; it has a connection but in its outer loop.        *)
Places ==
  /\ pc["server"] \in {"accept", "recv", "check", "fetch", "handle", "delete"}
  /\ pc["client"] \in Labels \ {"accept"}
  /\ (pc["server"] = "accept") <=> (conn["server"] = NoConn)
  /\ (pc["client"] = "new") <=> (conn["client"] = NoConn)

(* Every netconn in use has one user.                                        *)
Waits(c) == \E i \in DOMAIN acceptmbox : acceptmbox[i] = c
Owners ==
  /\ \A c \in Netconns : c \in used <=>
       c = Listener \/ c = conn["server"] \/ c = conn["client"] \/ Waits(c)
  /\ Listener # conn["server"] /\ Listener # conn["client"] /\ ~Waits(Listener)
  /\ conn["server"] = conn["client"] => conn["server"] = NoConn
  /\ ~Waits(conn["server"]) /\ ~Waits(conn["client"])
  /\ \A i, j \in DOMAIN acceptmbox : acceptmbox[i] = acceptmbox[j] => i = j

HasBuf(t) == IF pc[t] \in {"check", "fetch", "handle"} THEN 1 ELSE 0
Bufs == netbufs = HasBuf("server") + HasBuf("client")

(* A closed connection is left at once, so a client that fails to write is   *)
(* on one that was reset.                                                    *)
Errors ==
  /\ pc["client"] \notin {"new", "delete"} => last_err[conn["client"]] # "CLSD"
  /\ LossMeansStuck

Count == FMQ + lost + (IF pc["client"] = "write" THEN 1 ELSE 0) <= produced

(* Commands in a mailbox are in order, and behind those handled.             *)
Stream(c) ==
  /\ \A i, j \in DOMAIN handled[c] : i < j => handled[c][i] < handled[c][j]
  /\ \A i \in DOMAIN handled[c] : handled[c][i] <= sent[c]
  /\ \A i, j \in DOMAIN recvmbox[c] :
       (i < j /\ recvmbox[c][i] > 0 /\ recvmbox[c][j] > 0) => recvmbox[c][i] < recvmbox[c][j]
  /\ \A j \in DOMAIN recvmbox[c] : recvmbox[c][j] > 0 =>
       /\ recvmbox[c][j] <= sent[c]
       /\ \A i \in DOMAIN handled[c] : handled[c][i] < recvmbox[c][j]
Streams == \A c \in Netconns : Stream(c)

IInv == TypeOK /\ Places /\ Owners /\ Bufs /\ Errors /\ Count /\ Streams
-----------------------------------------------------------------------------
(* A part of the invariant whose variables a step leaves alone stays.        *)
LEMMA OwnersStay == ASSUME Owners, UNCHANGED <<used, conn, acceptmbox>> PROVE Owners'
BY DEF Owners, Waits
LEMMA BufsStay == ASSUME Bufs, UNCHANGED <<pc, netbufs>> PROVE Bufs'
BY DEF Bufs, HasBuf
LEMMA StreamsStay == ASSUME Streams, UNCHANGED <<recvmbox, sent, handled>> PROVE Streams'
BY DEF Streams, Stream
LEMMA ErrorsStay == ASSUME Errors, UNCHANGED <<pc, conn, last_err, lost>> PROVE Errors'
BY DEF Errors, LossMeansStuck
LEMMA CountStays == ASSUME Count, UNCHANGED <<pc, FMQ, produced, lost>> PROVE Count'
BY DEF Count
LEMMA PlacesStay == ASSUME Places, UNCHANGED <<pc, conn>> PROVE Places'
BY DEF Places

LEMMA Constants ==
  /\ Listener \in Netconns /\ NoConn \notin Netconns
  /\ Netbufs \in Nat /\ RecvMbox \in Nat /\ RecvMbox > 0 /\ MaxCmds \in Nat /\ MaxFeedback \in Nat
BY TcpAssumption

LEMMA ConnFacts ==
  ASSUME IInv, NEW t \in Threads, pc[t] \notin {"accept", "new"}
  PROVE  conn[t] \in Netconns /\ conn[t] \in used /\ conn[t] # Listener
<1>1. conn[t] # NoConn /\ conn[t] \in Netconns \cup {NoConn}
  BY DEF IInv, Places, TypeOK, Threads
<1> QED  BY <1>1 DEF IInv, Owners, Threads

LEMMA InitInv == Init => IInv
<1> SUFFICES ASSUME Init PROVE IInv  OBVIOUS
<1> USE Constants
<1>1. TypeOK  BY DEF Init, TypeOK, Threads, Labels, Segments
<1>2. Places /\ Owners  BY DEF Init, Places, Owners, Waits, Threads, Labels
<1>3. Bufs /\ Count  BY DEF Init, Bufs, HasBuf, Count, Threads
<1>4. Errors  BY DEF Init, Errors, LossMeansStuck, Threads
<1>5. Streams  BY DEF Init, Streams, Stream
<1> QED  BY <1>1, <1>2, <1>3, <1>4, <1>5 DEF IInv
-----------------------------------------------------------------------------
(* A fresh netconn has no commands.                                          *)
LEMMA FreshStream ==
  ASSUME Streams, TypeOK, NEW c \in Netconns, Fresh(c)
  PROVE  Streams'
<1> SUFFICES ASSUME NEW d \in Netconns PROVE Stream(d)'  BY DEF Streams
<1>1. CASE d = c
  <2>1. recvmbox'[d] = <<>> /\ handled'[d] = <<>>  BY <1>1 DEF Fresh, TypeOK
  <2> QED  BY <2>1 DEF Stream
<1>2. CASE d # c
  <2>1. recvmbox'[d] = recvmbox[d] /\ handled'[d] = handled[d] /\ sent'[d] = sent[d]
    BY <1>2 DEF Fresh, TypeOK
  <2> QED  BY <2>1 DEF Stream, Streams
<1> QED  BY <1>1, <1>2

LEMMA FreshType ==
  ASSUME TypeOK, NEW c \in Netconns, Fresh(c)
  PROVE  /\ last_err' \in [Netconns -> {"ok", "CLSD", "RST"}]
         /\ recvmbox' \in [Netconns -> Seq(Segments)]
         /\ \A d \in Netconns : Len(recvmbox'[d]) <= RecvMbox
         /\ sent' \in [Netconns -> 0 .. MaxCmds] /\ handled' \in [Netconns -> Seq(1 .. MaxCmds)]
<1> USE Constants
<1>1. last_err' \in [Netconns -> {"ok", "CLSD", "RST"}]  BY DEF TypeOK, Fresh
<1>2. recvmbox' \in [Netconns -> Seq(Segments)]
  <2>1. <<>> \in Seq(Segments)  OBVIOUS
  <2> QED  BY <2>1 DEF TypeOK, Fresh
<1>3. \A d \in Netconns : Len(recvmbox'[d]) <= RecvMbox
  BY DEF TypeOK, Fresh
<1>4. sent' \in [Netconns -> 0 .. MaxCmds]  BY DEF TypeOK, Fresh
<1>5. handled' \in [Netconns -> Seq(1 .. MaxCmds)]
  <2>1. <<>> \in Seq(1 .. MaxCmds)  OBVIOUS
  <2> QED  BY <2>1 DEF TypeOK, Fresh
<1> QED  BY <1>1, <1>2, <1>3, <1>4, <1>5

(* What a post does to the commands of a connection: m is none, or the next. *)
LEMMA PostStream ==
  ASSUME Streams, TypeOK, NEW c \in Netconns, NEW m \in Segments, Post(c, m),
         \/ m <= 0 /\ sent'[c] >= sent[c]
         \/ m = sent[c] + 1 /\ sent'[c] = m,
         sent'[c] \in Nat, \A d \in Netconns \ {c} : sent'[d] = sent[d], UNCHANGED handled
  PROVE  Streams' /\ recvmbox' \in [Netconns -> Seq(Segments)]
         /\ \A d \in Netconns : Len(recvmbox'[d]) <= RecvMbox
<1> USE Constants
<1>1. /\ recvmbox[c] \in Seq(Segments) /\ Len(recvmbox[c]) \in Nat /\ Len(recvmbox[c]) <= RecvMbox
      /\ handled[c] \in Seq(1 .. MaxCmds) /\ sent[c] \in Nat
      /\ \A d \in Netconns : recvmbox[d] \in Seq(Segments)
  BY DEF TypeOK
<1>2. CASE ~Valid(c)
  <2>1. recvmbox' = recvmbox  BY <1>2 DEF Post
  <2>2. Streams'
    <3> SUFFICES ASSUME NEW d \in Netconns PROVE Stream(d)'  BY DEF Streams
    <3>1. CASE d = c
      <4>1. \A i \in DOMAIN handled[c] : handled[c][i] \in Nat  BY <1>1
      <4>2. \A j \in DOMAIN recvmbox[c] : recvmbox[c][j] \in Int  BY <1>1 DEF Segments, NULL, Rejected
      <4>3. sent'[c] >= sent[c]  BY <1>1
      <4> QED  BY <1>1, <2>1, <3>1, <4>1, <4>2, <4>3 DEF Stream, Streams
    <3>2. CASE d # c  BY <2>1, <3>2 DEF Stream, Streams
    <3> QED  BY <3>1, <3>2
  <2> QED  BY <2>1, <2>2 DEF TypeOK
<1>3. CASE Valid(c)
  <2>1. recvmbox' = [recvmbox EXCEPT ![c] = Append(@, m)]  BY <1>3 DEF Post
  <2>2. recvmbox'[c] = Append(recvmbox[c], m) /\ \A d \in Netconns \ {c} : recvmbox'[d] = recvmbox[d]
    BY <2>1 DEF TypeOK
  <2>3. recvmbox' \in [Netconns -> Seq(Segments)]  BY <1>1, <2>1 DEF TypeOK
  <2>4. \A d \in Netconns : Len(recvmbox'[d]) <= RecvMbox
    <3>1. Len(recvmbox'[c]) <= RecvMbox  BY <1>1, <1>3, <2>2 DEF Valid
    <3> QED  BY <2>2, <3>1 DEF TypeOK
  <2>5. Streams'
    <3> SUFFICES ASSUME NEW d \in Netconns PROVE Stream(d)'  BY DEF Streams
    <3>1. CASE d = c
      <4> DEFINE n == Len(recvmbox[c])
      <4>1. /\ DOMAIN recvmbox'[c] = 1 .. n + 1 /\ DOMAIN recvmbox[c] = 1 .. n /\ n \in Nat
            /\ recvmbox'[c][n + 1] = m /\ \A j \in 1 .. n : recvmbox'[c][j] = recvmbox[c][j]
        BY <1>1, <2>2
      <4>2. \A i \in DOMAIN handled[c] : handled[c][i] \in Nat /\ handled[c][i] <= sent[c]
        BY <1>1 DEF Streams, Stream
      <4>3. \A j \in 1 .. n : recvmbox[c][j] \in Int /\ (recvmbox[c][j] > 0 => recvmbox[c][j] <= sent[c])
        BY <1>1, <4>1 DEF Segments, NULL, Rejected, Streams, Stream
      <4>4. sent'[c] >= sent[c] /\ sent'[c] \in Nat /\ m \in Int /\ (m > 0 => m > sent[c] /\ m <= sent'[c])
        BY <1>1 DEF Segments, NULL, Rejected
      <4> HIDE DEF n
      <4>5. \A i, j \in DOMAIN handled'[c] : i < j => handled'[c][i] < handled'[c][j]
        BY DEF Streams, Stream
      <4>6. \A i \in DOMAIN handled'[c] : handled'[c][i] <= sent'[c]
        BY <1>1, <4>2, <4>4
      <4>7. ASSUME NEW i \in 1 .. n + 1, NEW j \in 1 .. n + 1, i < j,
                   recvmbox'[c][i] > 0, recvmbox'[c][j] > 0
            PROVE  recvmbox'[c][i] < recvmbox'[c][j]
        <5>1. CASE j = n + 1
          <6>1. i \in 1 .. n  BY <4>1, <4>7, <5>1
          <6>2. recvmbox'[c][i] = recvmbox[c][i] /\ recvmbox'[c][j] = m /\ m > 0
            BY <4>1, <4>7, <5>1, <6>1
          <6>3. recvmbox[c][i] \in Int /\ recvmbox[c][i] <= sent[c]
            BY <4>3, <4>7, <6>1, <6>2
          <6> QED  BY <1>1, <4>4, <6>2, <6>3
        <5>2. CASE j # n + 1
          <6>1. i \in 1 .. n /\ j \in 1 .. n  BY <4>1, <4>7, <5>2
          <6> QED  BY <4>1, <4>7, <6>1 DEF Streams, Stream
        <5> QED  BY <5>1, <5>2
      <4>8. ASSUME NEW j \in 1 .. n + 1, recvmbox'[c][j] > 0
            PROVE  /\ recvmbox'[c][j] <= sent'[c]
                   /\ \A i \in DOMAIN handled'[c] : handled'[c][i] < recvmbox'[c][j]
        <5>1. CASE j = n + 1
          <6>1. recvmbox'[c][j] = m /\ m > 0  BY <4>1, <4>8, <5>1
          <6>2. m > sent[c] /\ m <= sent'[c]  BY <4>4, <6>1
          <6>3. \A i \in DOMAIN handled'[c] : handled'[c][i] < m
            BY <1>1, <4>2, <4>4, <6>2
          <6> QED  BY <6>1, <6>2, <6>3
        <5>2. CASE j # n + 1
          <6>1. j \in 1 .. n  BY <4>1, <5>2
          <6>2. /\ recvmbox[c][j] <= sent[c]
                /\ \A i \in DOMAIN handled[c] : handled[c][i] < recvmbox[c][j]
            BY <4>1, <4>8, <6>1 DEF Streams, Stream
          <6> QED  BY <1>1, <4>1, <4>3, <4>4, <6>1, <6>2
        <5> QED  BY <5>1, <5>2
      <4> QED  BY <3>1, <4>1, <4>5, <4>6, <4>7, <4>8 DEF Stream
    <3>2. CASE d # c  BY <2>2, <3>2 DEF Stream, Streams
    <3> QED  BY <3>1, <3>2
  <2> QED  BY <2>3, <2>4, <2>5
<1> QED  BY <1>2, <1>3
-----------------------------------------------------------------------------
(* A task goes to a label.                                                   *)
LEMMA GotoFacts ==
  ASSUME TypeOK, NEW t \in Threads, NEW l \in Labels, Goto(t, l)
  PROVE  /\ pc' \in [Threads -> Labels] /\ pc'[t] = l
         /\ \A s \in Threads \ {t} : pc'[s] = pc[s]
BY DEF TypeOK, Goto

LEMMA TwoTasks == "server" \in Threads /\ "client" \in Threads /\ \A t \in Threads : t = "server" \/ t = "client"
BY DEF Threads

(* Steps of a task's inner loop that touch only pc and netbufs.              *)
LEMMA LoopStep ==
  ASSUME IInv, NEW t \in Threads, NEW l \in {"send", "recv", "check", "fetch"},
         pc[t] \in {"send", "recv", "check", "fetch", "handle"},
         Goto(t, l), t = "server" => l # "send", netbufs' \in 0 .. Netbufs,
         netbufs' - netbufs = (IF l \in {"check", "fetch"} THEN 1 ELSE 0) - HasBuf(t),
         l = "fetch" => last_err[conn[t]] = "ok",
         UNCHANGED <<net, conn, feedback>>
  PROVE  IInv'
<1> USE Constants, TwoTasks
<1>1. l \in Labels  BY DEF Labels
<1>2. /\ pc' \in [Threads -> Labels] /\ pc'[t] = l
      /\ \A s \in Threads \ {t} : pc'[s] = pc[s]
  BY <1>1, GotoFacts DEF IInv
<1>3. TypeOK'  BY <1>2 DEF IInv, TypeOK, net, feedback
<1>4. Places'  BY <1>2 DEF IInv, Places
<1>5. Owners'  BY OwnersStay DEF IInv, net
<1>6. Bufs'
  <2>1. netbufs \in Int /\ netbufs' \in Int  BY DEF IInv, TypeOK
  <2>2. HasBuf(t)' = IF l \in {"check", "fetch"} THEN 1 ELSE 0  BY <1>2 DEF HasBuf
  <2>3. \A s \in Threads \ {t} : HasBuf(s)' = HasBuf(s)  BY <1>2 DEF HasBuf
  <2>4. \A s \in Threads : HasBuf(s) \in Int /\ HasBuf(s)' \in Int  BY DEF HasBuf
  <2>5. netbufs = HasBuf("server") + HasBuf("client")  BY DEF IInv, Bufs
  <2>6. netbufs' = HasBuf("server")' + HasBuf("client")'
    <3> HIDE DEF HasBuf
    <3>1. netbufs' - netbufs = HasBuf(t)' - HasBuf(t)  BY <2>2
    <3>2. CASE t = "server"
      <4>1. HasBuf("client")' = HasBuf("client")  BY <2>3, <3>2
      <4> QED  BY <2>1, <2>4, <2>5, <3>1, <3>2, <4>1
    <3>3. CASE t = "client"
      <4>1. HasBuf("server")' = HasBuf("server")  BY <2>3, <3>3
      <4> QED  BY <2>1, <2>4, <2>5, <3>1, <3>3, <4>1
    <3> QED  BY <3>2, <3>3
  <2> QED  BY <2>6 DEF Bufs
<1>7. Errors'
  <2>1. CASE t = "server"
    BY <1>2, <2>1 DEF IInv, Errors, LossMeansStuck, net, feedback
  <2>2. CASE t = "client"
    BY <1>2, <2>2 DEF IInv, Errors, LossMeansStuck, net, feedback
  <2> QED  BY <2>1, <2>2
<1>8. Count'
  BY <1>2 DEF IInv, Count, feedback, TypeOK
<1>9. Streams'  BY StreamsStay DEF IInv, net
<1> QED  BY <1>3, <1>4, <1>5, <1>6, <1>7, <1>8, <1>9 DEF IInv

LEMMA HasBufFacts ==
  ASSUME IInv, NEW t \in Threads
  PROVE  /\ netbufs \in Nat /\ netbufs <= Netbufs
         /\ HasBuf(t) = 1 => netbufs > 0
<1>1. netbufs \in Nat /\ netbufs <= Netbufs  BY Constants DEF IInv, TypeOK
<1>2. HasBuf("server") \in {0, 1} /\ HasBuf("client") \in {0, 1}  BY DEF HasBuf
<1>3. netbufs = HasBuf("server") + HasBuf("client")  BY DEF IInv, Bufs
<1>4. t = "server" \/ t = "client"  BY TwoTasks
<1> HIDE DEF HasBuf
<1> QED  BY <1>1, <1>2, <1>3, <1>4

LEMMA RecvFailsStep ==
  ASSUME IInv, NEW t \in Threads, RecvFails(t) PROVE IInv'
<1> USE Constants, TwoTasks
<1>1. pc[t] = "recv" /\ HasBuf(t) = 0 /\ netbufs' = netbufs  BY DEF RecvFails, HasBuf
<1>2. netbufs \in 0 .. Netbufs  BY DEF IInv, TypeOK
<1>3. Loop(t) \in {"send", "recv"} /\ (t = "server" => Loop(t) # "send")  BY DEF Loop
<1> QED  BY <1>1, <1>2, <1>3, LoopStep DEF RecvFails

LEMMA RecvStep ==
  ASSUME IInv, NEW t \in Threads, Recv(t) PROVE IInv'
<1> USE Constants, TwoTasks
<1>1. pc[t] = "recv" /\ HasBuf(t) = 0 /\ netbufs' = netbufs + 1 /\ netbufs < Netbufs  BY DEF Recv, HasBuf
<1>2. netbufs \in 0 .. Netbufs  BY DEF IInv, TypeOK
<1>3. netbufs' \in 0 .. Netbufs /\ netbufs' - netbufs = 1 - HasBuf(t)  BY <1>1, <1>2
<1> QED  BY <1>1, <1>3, LoopStep DEF Recv

LEMMA CheckLastErrStep ==
  ASSUME IInv, NEW t \in Threads, CheckLastErr(t) PROVE IInv'
<1> USE Constants, TwoTasks
<1>1. pc[t] = "check" /\ HasBuf(t) = 1  BY DEF CheckLastErr, HasBuf
<1>2. netbufs \in Nat /\ netbufs <= Netbufs /\ netbufs > 0  BY <1>1, HasBufFacts
<1>3. CASE Fatal(conn[t]) \/ ~Valid(conn[t])
  <2>1. netbufs' \in 0 .. Netbufs /\ netbufs' - netbufs = 0 - HasBuf(t)
    BY <1>1, <1>2, <1>3 DEF CheckLastErr
  <2>2. Loop(t) \in {"send", "recv"} /\ (t = "server" => Loop(t) # "send")  BY DEF Loop
  <2>3. Goto(t, Loop(t)) /\ UNCHANGED <<net, conn, feedback>>  BY <1>3 DEF CheckLastErr
  <2> QED  BY <1>1, <2>1, <2>2, <2>3, LoopStep
<1>4. CASE ~(Fatal(conn[t]) \/ ~Valid(conn[t]))
  <2>1. netbufs' \in 0 .. Netbufs /\ netbufs' - netbufs = 1 - HasBuf(t)
    BY <1>1, <1>2, <1>4 DEF CheckLastErr
  <2>2. last_err[conn[t]] = "ok"  BY <1>4 DEF Fatal
  <2>3. Goto(t, "fetch") /\ UNCHANGED <<net, conn, feedback>>  BY <1>4 DEF CheckLastErr
  <2> QED  BY <1>1, <2>1, <2>2, <2>3, LoopStep
<1> QED  BY <1>3, <1>4

LEMMA WaitEndsStep ==
  ASSUME IInv, NEW t \in Threads, FetchTimeout(t) \/ Handled(t) PROVE IInv'
<1> USE Constants, TwoTasks
<1>1. pc[t] \in {"fetch", "handle"} /\ HasBuf(t) = 1 /\ netbufs' = netbufs - 1
  BY DEF FetchTimeout, Handled, HasBuf
<1>2. netbufs \in Nat /\ netbufs <= Netbufs /\ netbufs > 0  BY <1>1, HasBufFacts
<1>3. netbufs' \in 0 .. Netbufs /\ netbufs' - netbufs = 0 - HasBuf(t)  BY <1>1, <1>2
<1>4. Loop(t) \in {"send", "recv"} /\ (t = "server" => Loop(t) # "send")  BY DEF Loop
<1>5. Goto(t, Loop(t)) /\ UNCHANGED <<net, conn, feedback>>  BY DEF FetchTimeout, Handled
<1> QED  BY <1>1, <1>3, <1>4, <1>5, LoopStep

LEMMA NothingToSendStep ==
  ASSUME IInv, NothingToSend PROVE IInv'
<1> USE Constants, TwoTasks
<1>1. pc["client"] = "send" /\ HasBuf("client") = 0 /\ netbufs' = netbufs  BY DEF NothingToSend, HasBuf
<1>2. netbufs \in 0 .. Netbufs  BY DEF IInv, TypeOK
<1> QED  BY <1>1, <1>2, LoopStep DEF NothingToSend
-----------------------------------------------------------------------------
(* Feedback: queued, taken, written or lost.                                 *)
LEMMA EnFeedBackStep ==
  ASSUME IInv, EnFeedBackMsgQueue PROVE IInv'
<1> USE Constants, TwoTasks
<1>1. produced' = produced + 1 /\ FMQ' = FMQ + 1 /\ produced < MaxFeedback
      /\ UNCHANGED <<net, pc, conn, netbufs, lost>>
  BY DEF EnFeedBackMsgQueue
<1>2. {FMQ, produced, lost} \subseteq 0 .. MaxFeedback  BY DEF IInv, TypeOK
<1>3. FMQ + lost <= produced
  BY <1>2 DEF IInv, Count
<1>4. TypeOK'  BY <1>1, <1>2, <1>3 DEF IInv, TypeOK, net
<1>5. Count'  BY <1>1, <1>2 DEF IInv, Count
<1> QED  BY <1>1, <1>4, <1>5, PlacesStay, OwnersStay, BufsStay, ErrorsStay, StreamsStay DEF IInv, net

LEMMA WriteStep ==
  ASSUME IInv, Write PROVE IInv'
<1> USE Constants, TwoTasks
<1>1. pc["client"] = "send" /\ FMQ > 0 /\ FMQ' = FMQ - 1 /\ UNCHANGED <<net, conn, netbufs, produced>>
  BY DEF Write
<1>2. {FMQ, produced, lost} \subseteq 0 .. MaxFeedback /\ FMQ + lost <= produced
  BY <1>1 DEF IInv, TypeOK, Count
<1>3. PICK l \in {"recv", "write"} :
        /\ Goto("client", l)
        /\ IF Fatal(conn["client"]) THEN l = "recv" /\ lost' = lost + 1 ELSE lost' = lost
  BY DEF Write
<1>4. /\ pc' \in [Threads -> Labels] /\ pc'["client"] = l /\ pc'["server"] = pc["server"]
  <2>1. l \in Labels  BY DEF Labels
  <2> QED  BY <1>3, <2>1, GotoFacts DEF IInv
<1>5. TypeOK'
  <2>1. {FMQ', produced', lost'} \subseteq 0 .. MaxFeedback  BY <1>1, <1>2, <1>3
  <2> QED  BY <1>1, <1>4, <2>1 DEF IInv, TypeOK, net
<1>6. Places'  BY <1>1, <1>4 DEF IInv, Places, Labels
<1>7. Bufs'  BY <1>1, <1>4 DEF IInv, Bufs, HasBuf
<1>8. Errors'
  <2>1. last_err[conn["client"]] \in {"ok", "CLSD", "RST"} /\ last_err[conn["client"]] # "CLSD"
    <3>1. conn["client"] \in Netconns  BY <1>1, ConnFacts
    <3> QED  BY <1>1, <3>1 DEF IInv, TypeOK, Errors
  <2>2. CASE Fatal(conn["client"])
    BY <1>1, <1>3, <1>4, <2>1, <2>2 DEF Errors, LossMeansStuck, Fatal, net
  <2>3. CASE ~Fatal(conn["client"])
    <3>1. ~(lost > 0)  BY <2>3 DEF Fatal, IInv, Errors, LossMeansStuck
    <3> QED  BY <1>1, <1>3, <1>4, <2>1, <2>3, <3>1 DEF Errors, LossMeansStuck, net
  <2> QED  BY <2>2, <2>3
<1>9. Count'  BY <1>1, <1>2, <1>3, <1>4 DEF IInv, Count
<1> QED  BY <1>1, <1>5, <1>6, <1>7, <1>8, <1>9, OwnersStay, StreamsStay DEF IInv, net

LEMMA WriteDoneStep ==
  ASSUME IInv, WriteDone PROVE IInv'
<1> USE Constants, TwoTasks
<1>1. pc["client"] = "write" /\ UNCHANGED <<net, conn, netbufs, feedback>>  BY DEF WriteDone
<1>2. /\ pc' \in [Threads -> Labels] /\ pc'["client"] = "recv" /\ pc'["server"] = pc["server"]
  <2>1. "recv" \in Labels  BY DEF Labels
  <2> QED  BY <2>1, GotoFacts DEF IInv, WriteDone
<1>3. TypeOK'  BY <1>1, <1>2 DEF IInv, TypeOK, net, feedback
<1>4. Places'  BY <1>1, <1>2 DEF IInv, Places, Labels
<1>5. Bufs'  BY <1>1, <1>2 DEF IInv, Bufs, HasBuf
<1>6. Errors'  BY <1>1, <1>2 DEF IInv, Errors, LossMeansStuck, net, feedback
<1>7. {FMQ, produced, lost} \subseteq Int  BY DEF IInv, TypeOK
<1>8. Count'  BY <1>1, <1>2, <1>7 DEF IInv, Count, feedback
<1> QED  BY <1>1, <1>3, <1>4, <1>5, <1>6, <1>8, OwnersStay, StreamsStay DEF IInv, net
-----------------------------------------------------------------------------
(* A change to one netconn's error, other than the client's, leaves Errors.  *)
LEMMA ErrorsOthers ==
  ASSUME IInv, NEW c \in Netconns, c # conn["client"],
         \A d \in Netconns \ {c} : last_err'[d] = last_err[d],
         pc'["client"] = pc["client"], conn'["client"] = conn["client"], lost' = lost
  PROVE  Errors'
<1> USE TwoTasks
<1>1. CASE pc["client"] = "new"
  BY <1>1 DEF IInv, Errors, LossMeansStuck
<1>2. CASE pc["client"] # "new"
  <2>1. conn["client"] \in Netconns  BY <1>2, ConnFacts DEF IInv, Places, Labels
  <2> QED  BY <2>1 DEF IInv, Errors, LossMeansStuck
<1> QED  BY <1>1, <1>2

LEMMA RecvTcpStep ==
  ASSUME IInv, NEW c \in Netconns, RecvTcp(c) PROVE IInv'
<1> USE Constants, TwoTasks
<1>1. PICK m \in {sent[c] + 1, Rejected} : Post(c, m)  BY DEF RecvTcp
<1>2. /\ sent \in [Netconns -> 0 .. MaxCmds] /\ sent[c] < MaxCmds
      /\ sent' = [sent EXCEPT ![c] = @ + 1]
      /\ UNCHANGED <<used, pcb, last_err, acceptmbox, handled, pc, conn, netbufs, feedback>>
  BY DEF IInv, TypeOK, RecvTcp
<1>3. sent[c] \in Nat /\ sent[c] + 1 <= MaxCmds /\ sent'[c] = sent[c] + 1
      /\ \A d \in Netconns \ {c} : sent'[d] = sent[d]
  BY <1>2
<1>4. m \in Segments  BY <1>1, <1>3 DEF Segments
<1>5. Streams' /\ recvmbox' \in [Netconns -> Seq(Segments)]
      /\ \A d \in Netconns : Len(recvmbox'[d]) <= RecvMbox
  <2>1. \/ m <= 0 /\ sent'[c] >= sent[c]
        \/ m = sent[c] + 1 /\ sent'[c] = m
    BY <1>1, <1>3 DEF Rejected
  <2> QED  BY <1>1, <1>2, <1>3, <1>4, <2>1, PostStream DEF IInv
<1>6. sent' \in [Netconns -> 0 .. MaxCmds]  BY <1>2, <1>3
<1>7. TypeOK'  BY <1>2, <1>5, <1>6 DEF IInv, TypeOK, feedback
<1> QED  BY <1>2, <1>5, <1>7, PlacesStay, OwnersStay, BufsStay, ErrorsStay, CountStays DEF IInv, feedback

(* The null message in a mailbox.                                            *)
LEMMA PostNull ==
  ASSUME IInv, NEW c \in Netconns, Post(c, NULL), UNCHANGED <<sent, handled>>
  PROVE  Streams' /\ recvmbox' \in [Netconns -> Seq(Segments)]
         /\ \A d \in Netconns : Len(recvmbox'[d]) <= RecvMbox
<1> USE Constants
<1>1. sent[c] \in Nat  BY DEF IInv, TypeOK
<1>2. NULL \in Segments /\ NULL <= 0  BY DEF Segments, NULL
<1>3. sent'[c] >= sent[c] /\ sent'[c] \in Nat  BY <1>1
<1> QED  BY <1>2, <1>3, PostStream DEF IInv

LEMMA RecvTcpFinStep ==
  ASSUME IInv, NEW c \in Netconns, RecvTcpFin(c) PROVE IInv'
<1> USE Constants, TwoTasks
<1>1. /\ Post(c, NULL) /\ pcb' = [pcb EXCEPT ![c] = "closewait"]
      /\ UNCHANGED <<used, last_err, acceptmbox, sent, handled, pc, conn, netbufs, feedback>>
  BY DEF RecvTcpFin
<1>2. Streams' /\ recvmbox' \in [Netconns -> Seq(Segments)]
      /\ \A d \in Netconns : Len(recvmbox'[d]) <= RecvMbox
  BY <1>1, PostNull
<1>3. TypeOK'  BY <1>1, <1>2 DEF IInv, TypeOK, feedback
<1> QED  BY <1>1, <1>2, <1>3, PlacesStay, OwnersStay, BufsStay, ErrorsStay, CountStays DEF IInv, feedback

LEMMA ErrTcpStep ==
  ASSUME IInv, NEW c \in Netconns, ErrTcp(c) PROVE IInv'
<1> USE Constants, TwoTasks
<1>1. /\ Post(c, NULL) /\ pcb' = [pcb EXCEPT ![c] = "none"]
      /\ last_err' = [last_err EXCEPT ![c] = "RST"]
      /\ UNCHANGED <<used, acceptmbox, sent, handled, conn, netbufs, FMQ, produced>>
  BY DEF ErrTcp
<1>2. Streams' /\ recvmbox' \in [Netconns -> Seq(Segments)]
      /\ \A d \in Netconns : Len(recvmbox'[d]) <= RecvMbox
  BY <1>1, PostNull
<1>3. last_err' \in [Netconns -> {"ok", "CLSD", "RST"}]
      /\ last_err'[c] = "RST" /\ \A d \in Netconns \ {c} : last_err'[d] = last_err[d]
  BY <1>1 DEF IInv, TypeOK
<1>4. {FMQ, produced, lost} \subseteq 0 .. MaxFeedback  BY DEF IInv, TypeOK
<1>5. CASE pc["client"] = "write" /\ conn["client"] = c
  <2>1. Goto("client", "recv") /\ lost' = lost + 1  BY <1>5 DEF ErrTcp
  <2>2. /\ pc' \in [Threads -> Labels] /\ pc'["client"] = "recv" /\ pc'["server"] = pc["server"]
    <3>1. "recv" \in Labels  BY DEF Labels
    <3> QED  BY <2>1, <3>1, GotoFacts DEF IInv
  <2>3. FMQ + lost + 1 <= produced  BY <1>5 DEF IInv, Count
  <2>4. lost' \in 0 .. MaxFeedback  BY <1>4, <2>1, <2>3
  <2>5. TypeOK'  BY <1>1, <1>2, <1>3, <2>2, <2>4 DEF IInv, TypeOK
  <2>6. Places'  BY <1>1, <1>5, <2>2 DEF IInv, Places, Labels
  <2>7. Bufs'  BY <1>1, <1>5, <2>2 DEF IInv, Bufs, HasBuf
  <2>8. Errors'  BY <1>1, <1>3, <1>5, <2>1, <2>2 DEF Errors, LossMeansStuck
  <2>9. Count'  BY <1>1, <1>4, <2>1, <2>2, <2>3 DEF Count
  <2> QED  BY <1>1, <1>2, <2>5, <2>6, <2>7, <2>8, <2>9, OwnersStay DEF IInv
<1>6. CASE ~(pc["client"] = "write" /\ conn["client"] = c)
  <2>1. UNCHANGED <<pc, lost>>  BY <1>6 DEF ErrTcp
  <2>2. TypeOK'  BY <1>1, <1>2, <1>3, <2>1 DEF IInv, TypeOK
  <2>3. Errors'
    <3>1. CASE c = conn["client"]
      BY <1>1, <1>3, <2>1, <3>1 DEF IInv, Errors, LossMeansStuck
    <3>2. CASE c # conn["client"]
      BY <1>1, <1>3, <2>1, <3>2, ErrorsOthers
    <3> QED  BY <3>1, <3>2
  <2> QED  BY <1>1, <1>2, <2>1, <2>2, <2>3, PlacesStay, OwnersStay, BufsStay, CountStays DEF IInv
<1> QED  BY <1>5, <1>6

LEMMA ConnectedStep ==
  ASSUME IInv, DoConnected PROVE IInv'
<1> USE Constants, TwoTasks
<1>1. /\ pc["client"] = "connect"
      /\ pcb' = [pcb EXCEPT ![conn["client"]] = "established"]
      /\ UNCHANGED <<used, last_err, recvmbox, acceptmbox, sent, handled, conn, netbufs, feedback>>
  BY DEF DoConnected
<1>2. /\ pc' \in [Threads -> Labels] /\ pc'["client"] = "send" /\ pc'["server"] = pc["server"]
  <2>1. "send" \in Labels  BY DEF Labels
  <2> QED  BY <2>1, GotoFacts DEF IInv, DoConnected
<1>3. TypeOK'  BY <1>1, <1>2 DEF IInv, TypeOK, feedback
<1>4. Places'  BY <1>1, <1>2 DEF IInv, Places, Labels
<1>5. Bufs'  BY <1>1, <1>2 DEF IInv, Bufs, HasBuf
<1>6. Errors'  BY <1>1, <1>2 DEF IInv, Errors, LossMeansStuck, feedback
<1>7. Count'  BY <1>1, <1>2 DEF IInv, Count, feedback
<1> QED  BY <1>1, <1>3, <1>4, <1>5, <1>6, <1>7, OwnersStay, StreamsStay DEF IInv

LEMMA ConnectFailsStep ==
  ASSUME IInv, ConnectFails PROVE IInv'
<1> USE Constants, TwoTasks
<1> DEFINE c == conn["client"]
<1>1. /\ pc["client"] = "connect" /\ Post(c, NULL)
      /\ pcb' = [pcb EXCEPT ![c] = "none"] /\ last_err' = [last_err EXCEPT ![c] = "RST"]
      /\ UNCHANGED <<used, acceptmbox, sent, handled, conn, netbufs, feedback>>
  BY DEF ConnectFails
<1>2. c \in Netconns  BY <1>1, ConnFacts
<1>3. Streams' /\ recvmbox' \in [Netconns -> Seq(Segments)]
      /\ \A d \in Netconns : Len(recvmbox'[d]) <= RecvMbox
  BY <1>1, <1>2, PostNull
<1>4. /\ pc' \in [Threads -> Labels] /\ pc'["client"] = "delete" /\ pc'["server"] = pc["server"]
  <2>1. "delete" \in Labels  BY DEF Labels
  <2> QED  BY <2>1, GotoFacts DEF IInv, ConnectFails
<1>5. TypeOK'  BY <1>1, <1>3, <1>4 DEF IInv, TypeOK, feedback
<1>6. Places'  BY <1>1, <1>4 DEF IInv, Places, Labels
<1>7. Bufs'  BY <1>1, <1>4 DEF IInv, Bufs, HasBuf
<1>8. Errors'  BY <1>1, <1>4 DEF IInv, Errors, LossMeansStuck, feedback
<1>9. Count'  BY <1>1, <1>4 DEF IInv, Count, feedback
<1> QED  BY <1>1, <1>3, <1>5, <1>6, <1>7, <1>8, <1>9, OwnersStay DEF IInv
-----------------------------------------------------------------------------
(* Connections begin.                                                        *)
LEMMA AcceptFunctionStep ==
  ASSUME IInv, AcceptFunction PROVE IInv'
<1> USE Constants, TwoTasks
<1>1. PICK c \in Netconns : Alloc(c, "established") /\ acceptmbox' = Append(acceptmbox, c)
  BY DEF AcceptFunction
<1>2. /\ c \notin used /\ used' = used \cup {c} /\ Fresh(c)
      /\ pcb' = [pcb EXCEPT ![c] = "established"]
      /\ UNCHANGED <<pc, conn, netbufs, feedback>>
  BY <1>1 DEF Alloc, AcceptFunction
<1>3. acceptmbox \in Seq(Netconns) /\ Len(acceptmbox) \in Nat  BY DEF IInv, TypeOK
<1>4. TypeOK'
  <2>1. acceptmbox' \in Seq(Netconns)  BY <1>1, <1>3
  <2> QED  BY <1>2, <2>1, FreshType DEF IInv, TypeOK, feedback
<1>5. c # Listener /\ c # conn["server"] /\ c # conn["client"] /\ ~Waits(c)
  BY <1>2 DEF IInv, Owners
<1>6. Owners'
  <2> DEFINE n == Len(acceptmbox)
  <2>1. /\ DOMAIN acceptmbox' = 1 .. n + 1 /\ DOMAIN acceptmbox = 1 .. n /\ n \in Nat
        /\ acceptmbox'[n + 1] = c /\ \A i \in 1 .. n : acceptmbox'[i] = acceptmbox[i]
    BY <1>1, <1>3
  <2> HIDE DEF n
  <2>2. \A i \in 1 .. n + 1 : i \in 1 .. n \/ i = n + 1  BY <2>1
  <2>3. \A d : Waits(d)' <=> Waits(d) \/ d = c
    BY <2>1, <2>2 DEF Waits
  <2>4. \A d \in Netconns : d \in used' <=> d \in used \/ d = c  BY <1>2
  <2>5. \A i, j \in DOMAIN acceptmbox' : acceptmbox'[i] = acceptmbox'[j] => i = j
    <3> SUFFICES ASSUME NEW i \in 1 .. n + 1, NEW j \in 1 .. n + 1, acceptmbox'[i] = acceptmbox'[j]
                 PROVE  i = j
      BY <2>1
    <3> QED  BY <1>5, <2>1, <2>2 DEF IInv, Owners, Waits
  <2> QED  BY <1>2, <1>5, <2>3, <2>4, <2>5 DEF IInv, Owners
<1>7. Errors'
  <2>1. \A d \in Netconns \ {c} : last_err'[d] = last_err[d]  BY <1>2 DEF Fresh, IInv, TypeOK
  <2> QED  BY <1>2, <1>5, <2>1, ErrorsOthers DEF feedback
<1>8. Streams'  BY <1>2, FreshStream DEF IInv
<1> QED  BY <1>2, <1>4, <1>6, <1>7, <1>8, PlacesStay, BufsStay, CountStays DEF IInv, feedback

LEMMA ConnectStep ==
  ASSUME IInv, Connect PROVE IInv'
<1> USE Constants, TwoTasks
<1>1. PICK c \in Netconns : Alloc(c, "synsent") /\ conn' = [conn EXCEPT !["client"] = c]
  BY DEF Connect
<1>2. /\ c \notin used /\ used' = used \cup {c} /\ Fresh(c)
      /\ pcb' = [pcb EXCEPT ![c] = "synsent"] /\ pc["client"] = "new"
      /\ UNCHANGED <<acceptmbox, netbufs, feedback>>
  BY <1>1 DEF Alloc, Connect
<1>3. /\ conn' \in [Threads -> Netconns \cup {NoConn}]
      /\ conn'["client"] = c /\ conn'["server"] = conn["server"] /\ conn["client"] = NoConn
  BY <1>1, <1>2 DEF IInv, TypeOK, Places
<1>4. /\ pc' \in [Threads -> Labels] /\ pc'["client"] = "connect" /\ pc'["server"] = pc["server"]
  <2>1. "connect" \in Labels  BY DEF Labels
  <2> QED  BY <2>1, GotoFacts DEF IInv, Connect
<1>5. TypeOK'  BY <1>2, <1>3, <1>4, FreshType DEF IInv, TypeOK, feedback
<1>6. Places'  BY <1>2, <1>3, <1>4 DEF IInv, Places, Labels
<1>7. Owners'
  <2>1. c # Listener /\ c # conn["server"] /\ ~Waits(c)  BY <1>2 DEF IInv, Owners
  <2>2. \A d : Waits(d)' <=> Waits(d)  BY <1>2 DEF Waits
  <2>3. \A d \in Netconns : d \in used' <=> d \in used \/ d = c  BY <1>2
  <2> QED  BY <1>2, <1>3, <2>1, <2>2, <2>3 DEF IInv, Owners
<1>8. Bufs'  BY <1>2, <1>4 DEF IInv, Bufs, HasBuf
<1>9. Errors'
  <2>1. last_err'[c] = "ok"  BY <1>2 DEF Fresh, IInv, TypeOK
  <2>2. ~(lost' > 0)  BY <1>2 DEF feedback, IInv, Errors, LossMeansStuck
  <2> QED  BY <1>3, <2>1, <2>2 DEF Errors, LossMeansStuck
<1>10. Count'  BY <1>2, <1>4 DEF IInv, Count, feedback
<1>11. Streams'  BY <1>2, FreshStream DEF IInv
<1> QED  BY <1>5, <1>6, <1>7, <1>8, <1>9, <1>10, <1>11 DEF IInv

LEMMA AcceptStep ==
  ASSUME IInv, Accept PROVE IInv'
<1> USE Constants, TwoTasks
<1> DEFINE c == Head(acceptmbox)
<1>1. /\ pc["server"] = "accept" /\ acceptmbox # <<>> /\ acceptmbox' = Tail(acceptmbox)
      /\ conn' = [conn EXCEPT !["server"] = c]
      /\ UNCHANGED <<used, pcb, last_err, recvmbox, sent, handled, netbufs, feedback>>
  BY DEF Accept
<1>2. acceptmbox \in Seq(Netconns) /\ Len(acceptmbox) \in Nat /\ Len(acceptmbox) > 0
      /\ c = acceptmbox[1] /\ c \in Netconns
  BY <1>1 DEF IInv, TypeOK
<1>3. /\ conn' \in [Threads -> Netconns \cup {NoConn}]
      /\ conn'["server"] = c /\ conn'["client"] = conn["client"] /\ conn["server"] = NoConn
  BY <1>1, <1>2 DEF IInv, TypeOK, Places
<1>4. /\ pc' \in [Threads -> Labels] /\ pc'["server"] = "recv" /\ pc'["client"] = pc["client"]
  <2>1. "recv" \in Labels  BY DEF Labels
  <2> QED  BY <2>1, GotoFacts DEF IInv, Accept
<1>5. TypeOK'
  <2>1. acceptmbox' \in Seq(Netconns)  BY <1>1, <1>2
  <2> QED  BY <1>1, <1>3, <1>4, <2>1 DEF IInv, TypeOK, feedback
<1>6. Places'  BY <1>1, <1>2, <1>3, <1>4 DEF IInv, Places
<1>7. Owners'
  <2> DEFINE n == Len(acceptmbox)
  <2>1. /\ DOMAIN acceptmbox' = 1 .. n - 1 /\ DOMAIN acceptmbox = 1 .. n /\ n \in Nat /\ n > 0
        /\ \A i \in 1 .. n - 1 : acceptmbox'[i] = acceptmbox[i + 1]
    BY <1>1, <1>2
  <2> HIDE DEF n
  <2>2. \A i, j \in 1 .. n : acceptmbox[i] = acceptmbox[j] => i = j
    BY <2>1 DEF IInv, Owners
  <2>3. Waits(c)  BY <1>2, <2>1 DEF Waits
  <2>4. \A d : Waits(d)' <=> Waits(d) /\ d # c
    <3>1. ASSUME NEW d, Waits(d)' PROVE Waits(d) /\ d # c
      <4>1. PICK i \in 1 .. n - 1 : acceptmbox[i + 1] = d  BY <2>1, <3>1 DEF Waits
      <4>2. i + 1 \in 1 .. n /\ i + 1 # 1 /\ 1 \in 1 .. n  BY <2>1
      <4> QED  BY <1>2, <2>1, <2>2, <4>1, <4>2 DEF Waits
    <3>2. ASSUME NEW d, Waits(d), d # c PROVE Waits(d)'
      <4>1. PICK i \in 1 .. n : acceptmbox[i] = d  BY <2>1, <3>2 DEF Waits
      <4>2. i # 1  BY <1>2, <3>2, <4>1
      <4>3. i - 1 \in 1 .. n - 1 /\ (i - 1) + 1 = i  BY <2>1, <4>2
      <4> QED  BY <2>1, <4>1, <4>3 DEF Waits
    <3> QED  BY <3>1, <3>2
  <2>5. \A i, j \in DOMAIN acceptmbox' : acceptmbox'[i] = acceptmbox'[j] => i = j
    <3> SUFFICES ASSUME NEW i \in 1 .. n - 1, NEW j \in 1 .. n - 1, acceptmbox'[i] = acceptmbox'[j]
                 PROVE  i = j
      BY <2>1
    <3>1. i + 1 \in 1 .. n /\ j + 1 \in 1 .. n /\ acceptmbox[i + 1] = acceptmbox[j + 1]  BY <2>1
    <3>2. i + 1 = j + 1  BY <2>2, <3>1
    <3> QED  BY <3>2
  <2>6. c # Listener /\ c # conn["client"] /\ c \in used /\ c # NoConn
    BY <1>2, <2>3 DEF IInv, Owners
  <2>7. \A d \in Netconns : d \in used' <=>
          d = Listener \/ d = conn'["server"] \/ d = conn'["client"] \/ Waits(d)'
    <3>1. \A d \in Netconns : d # NoConn  OBVIOUS
    <3> QED  BY <1>1, <1>3, <2>3, <2>4, <2>6, <3>1 DEF IInv, Owners
  <2>8. ~Waits(Listener)' /\ ~Waits(conn["server"])' /\ ~Waits(conn["client"])'
    <3>1. ~Waits(Listener) /\ ~Waits(conn["client"])  BY DEF IInv, Owners
    <3>2. ~Waits(conn["server"])'
      <4>1. conn'["server"] = c /\ ~(c # c)  BY <1>3
      <4> QED  BY <2>4, <4>1 DEF Waits
    <3> QED  BY <1>3, <2>4, <3>1, <3>2 DEF Waits
  <2>9. Listener # conn'["server"] /\ Listener # conn'["client"]
        /\ (conn'["server"] = conn'["client"] => conn'["server"] = NoConn)
    BY <1>3, <2>6 DEF IInv, Owners
  <2> QED  BY <2>5, <2>7, <2>8, <2>9 DEF Owners
<1>8. Bufs'  BY <1>1, <1>4 DEF IInv, Bufs, HasBuf
<1>9. Errors'  BY <1>1, <1>3, <1>4 DEF IInv, Errors, LossMeansStuck, feedback
<1>10. Count'  BY <1>1, <1>4 DEF IInv, Count, feedback
<1> QED  BY <1>1, <1>5, <1>6, <1>7, <1>8, <1>9, <1>10, StreamsStay DEF IInv
-----------------------------------------------------------------------------
(* The head leaves a mailbox, handled or not.                                *)
LEMMA HeadStream ==
  ASSUME IInv, NEW c \in Netconns, recvmbox[c] # <<>>,
         recvmbox' = [recvmbox EXCEPT ![c] = Tail(@)], UNCHANGED sent,
         \/ handled' = handled
         \/ /\ Head(recvmbox[c]) > 0
            /\ handled' = [handled EXCEPT ![c] = Append(@, Head(recvmbox[c]))]
  PROVE  /\ Streams' /\ recvmbox' \in [Netconns -> Seq(Segments)]
         /\ \A d \in Netconns : Len(recvmbox'[d]) <= RecvMbox
         /\ handled' \in [Netconns -> Seq(1 .. MaxCmds)]
<1> USE Constants
<1> DEFINE n == Len(recvmbox[c])
           k == Len(handled[c])
           m == Head(recvmbox[c])
<1>1. /\ recvmbox \in [Netconns -> Seq(Segments)] /\ recvmbox[c] \in Seq(Segments)
      /\ n \in Nat /\ n > 0 /\ n <= RecvMbox /\ m = recvmbox[c][1] /\ m \in Segments
      /\ handled \in [Netconns -> Seq(1 .. MaxCmds)] /\ handled[c] \in Seq(1 .. MaxCmds)
      /\ k \in Nat /\ sent[c] \in Nat
  BY DEF IInv, TypeOK
<1>2. /\ recvmbox'[c] = Tail(recvmbox[c])
      /\ \A d \in Netconns \ {c} : recvmbox'[d] = recvmbox[d] /\ handled'[d] = handled[d]
  BY <1>1
<1>3. recvmbox' \in [Netconns -> Seq(Segments)] /\ Len(recvmbox'[c]) = n - 1
      /\ DOMAIN recvmbox'[c] = 1 .. n - 1 /\ DOMAIN recvmbox[c] = 1 .. n
      /\ \A i \in 1 .. n - 1 : recvmbox'[c][i] = recvmbox[c][i + 1]
  BY <1>1, <1>2
<1>4. \A d \in Netconns : Len(recvmbox'[d]) <= RecvMbox
  <2>1. Len(recvmbox'[c]) <= RecvMbox  BY <1>1, <1>3
  <2> QED  BY <1>2, <2>1 DEF IInv, TypeOK
<1>5. m > 0 => m \in 1 .. MaxCmds  BY <1>1 DEF Segments, NULL, Rejected
<1>6. handled' \in [Netconns -> Seq(1 .. MaxCmds)]
  <2>1. CASE handled' = handled  BY <1>1, <2>1
  <2>2. CASE m > 0 /\ handled' = [handled EXCEPT ![c] = Append(@, m)]
    <3>1. Append(handled[c], m) \in Seq(1 .. MaxCmds)  BY <1>1, <1>5, <2>2
    <3> QED  BY <1>1, <2>2, <3>1
  <2> QED  BY <2>1, <2>2
<1>7. Stream(c)
  BY DEF IInv, Streams
<1>8. \/ handled'[c] = handled[c]
      \/ m > 0 /\ handled'[c] = Append(handled[c], m)
  BY <1>1
<1>9. /\ DOMAIN handled[c] = 1 .. k
      /\ \A i \in 1 .. k : handled[c][i] \in Nat
      /\ \A j \in 1 .. n : recvmbox[c][j] \in Int
  BY <1>1, <1>3 DEF Segments, NULL, Rejected
<1> HIDE DEF n, k, m
<1>10. m \in Int /\ 1 \in 1 .. n  BY <1>1, <1>9
<1>11. \A j \in 1 .. n - 1 : recvmbox'[c][j] > 0 =>
          /\ recvmbox'[c][j] <= sent[c] /\ recvmbox'[c][j] \in Int
          /\ m > 0 => m < recvmbox'[c][j]
          /\ \A i \in 1 .. k : handled[c][i] < recvmbox'[c][j]
  <2> SUFFICES ASSUME NEW j \in 1 .. n - 1, recvmbox'[c][j] > 0
               PROVE  /\ recvmbox'[c][j] <= sent[c] /\ recvmbox'[c][j] \in Int
                      /\ m > 0 => m < recvmbox'[c][j]
                      /\ \A i \in 1 .. k : handled[c][i] < recvmbox'[c][j]
    OBVIOUS
  <2>1. j + 1 \in 1 .. n /\ 1 < j + 1 /\ recvmbox[c][j + 1] = recvmbox'[c][j]  BY <1>1, <1>3
  <2>2. recvmbox'[c][j] \in Int  BY <1>9, <2>1
  <2>3. /\ recvmbox'[c][j] <= sent[c]
        /\ \A i \in 1 .. k : handled[c][i] < recvmbox'[c][j]
    BY <1>3, <1>7, <1>9, <2>1 DEF Stream
  <2>4. m > 0 => m < recvmbox'[c][j]  BY <1>1, <1>3, <1>7, <1>10, <2>1 DEF Stream
  <2> QED  BY <2>2, <2>3, <2>4
<1>12. m > 0 => m <= sent[c] /\ \A i \in 1 .. k : handled[c][i] < m
  BY <1>1, <1>3, <1>7, <1>9, <1>10 DEF Stream
<1>13. \A i, j \in 1 .. n - 1 :
         (i < j /\ recvmbox'[c][i] > 0 /\ recvmbox'[c][j] > 0) => recvmbox'[c][i] < recvmbox'[c][j]
  <2> SUFFICES ASSUME NEW i \in 1 .. n - 1, NEW j \in 1 .. n - 1, i < j,
                      recvmbox'[c][i] > 0, recvmbox'[c][j] > 0
               PROVE  recvmbox'[c][i] < recvmbox'[c][j]
    OBVIOUS
  <2>1. i + 1 \in 1 .. n /\ j + 1 \in 1 .. n /\ i + 1 < j + 1
        /\ recvmbox[c][i + 1] = recvmbox'[c][i] /\ recvmbox[c][j + 1] = recvmbox'[c][j]
    BY <1>1, <1>3
  <2> QED  BY <1>3, <1>7, <2>1 DEF Stream
<1>14. Stream(c)'
  <2>1. CASE handled'[c] = handled[c]
    BY <1>3, <1>7, <1>9, <1>11, <1>13, <2>1 DEF Stream
  <2>2. CASE m > 0 /\ handled'[c] = Append(handled[c], m)
    <3>1. /\ DOMAIN handled'[c] = 1 .. k + 1 /\ handled'[c][k + 1] = m
          /\ \A i \in 1 .. k : handled'[c][i] = handled[c][i]
      BY <1>1, <2>2 DEF k
    <3>2. \A i \in 1 .. k + 1 : i \in 1 .. k \/ i = k + 1  BY <1>1
    <3>3. \A i, j \in 1 .. k + 1 : i < j => handled'[c][i] < handled'[c][j]
      <4> SUFFICES ASSUME NEW i \in 1 .. k + 1, NEW j \in 1 .. k + 1, i < j
                   PROVE  handled'[c][i] < handled'[c][j]
        OBVIOUS
      <4>1. i \in 1 .. k  BY <1>1
      <4>2. CASE j = k + 1
        BY <1>12, <2>2, <3>1, <4>1, <4>2
      <4>3. CASE j \in 1 .. k
        BY <1>7, <1>9, <3>1, <4>1, <4>3 DEF Stream
      <4> QED  BY <3>2, <4>2, <4>3
    <3>4. \A i \in 1 .. k + 1 : handled'[c][i] <= sent[c]
      BY <1>7, <1>9, <1>12, <2>2, <3>1, <3>2 DEF Stream
    <3>5. \A j \in 1 .. n - 1 : recvmbox'[c][j] > 0 =>
            \A i \in 1 .. k + 1 : handled'[c][i] < recvmbox'[c][j]
      BY <1>11, <2>2, <3>1, <3>2
    <3> QED  BY <1>3, <1>11, <1>13, <3>1, <3>3, <3>4, <3>5 DEF Stream
  <2> QED  BY <1>8, <2>1, <2>2
<1>15. Streams'
  <2> SUFFICES ASSUME NEW d \in Netconns PROVE Stream(d)'  BY DEF Streams
  <2>1. CASE d = c  BY <1>14, <2>1
  <2>2. CASE d # c  BY <1>2, <2>2 DEF IInv, Streams, Stream
  <2> QED  BY <2>1, <2>2
<1> QED  BY <1>3, <1>4, <1>6, <1>15

LEMMA FetchDataStep ==
  ASSUME IInv, NEW t \in Threads, FetchData(t) PROVE IInv'
<1> USE Constants, TwoTasks
<1> DEFINE c == conn[t]
           m == Head(recvmbox[c])
<1>1. /\ pc[t] = "fetch" /\ recvmbox[c] # <<>> /\ m # NULL
      /\ recvmbox' = [recvmbox EXCEPT ![c] = Tail(@)]
      /\ handled' = IF m = Rejected THEN handled ELSE [handled EXCEPT ![c] = Append(@, m)]
      /\ UNCHANGED <<used, pcb, last_err, acceptmbox, sent, conn, netbufs, feedback>>
  BY DEF FetchData
<1>2. c \in Netconns  BY <1>1, ConnFacts
<1>3. m \in Segments
  <2>1. recvmbox[c] \in Seq(Segments)  BY <1>2 DEF IInv, TypeOK
  <2> QED  BY <1>1, <2>1
<1>4. m = Rejected \/ m > 0  BY <1>1, <1>3 DEF Segments, NULL, Rejected
<1>5. /\ Streams' /\ recvmbox' \in [Netconns -> Seq(Segments)]
      /\ \A d \in Netconns : Len(recvmbox'[d]) <= RecvMbox
      /\ handled' \in [Netconns -> Seq(1 .. MaxCmds)]
  <2>1. handled' = handled \/ (m > 0 /\ handled' = [handled EXCEPT ![c] = Append(@, m)])
    BY <1>1, <1>4 DEF Rejected
  <2> QED  BY <1>1, <1>2, <2>1, HeadStream
<1>6. /\ pc' \in [Threads -> Labels] /\ pc'[t] = "handle"
      /\ \A s \in Threads \ {t} : pc'[s] = pc[s]
  <2>1. "handle" \in Labels  BY DEF Labels
  <2> QED  BY <2>1, GotoFacts DEF IInv, FetchData
<1>7. TypeOK'  BY <1>1, <1>5, <1>6 DEF IInv, TypeOK, feedback
<1>8. Places'  BY <1>1, <1>6 DEF IInv, Places, Labels
<1>9. Bufs'  BY <1>1, <1>6 DEF IInv, Bufs, HasBuf
<1>10. Errors'  BY <1>1, <1>6 DEF IInv, Errors, LossMeansStuck, feedback
<1>11. Count'  BY <1>1, <1>6 DEF IInv, Count, feedback
<1> QED  BY <1>1, <1>5, <1>7, <1>8, <1>9, <1>10, <1>11, OwnersStay DEF IInv

LEMMA FetchNullStep ==
  ASSUME IInv, NEW t \in Threads, FetchNull(t) PROVE IInv'
<1> USE Constants, TwoTasks
<1> DEFINE c == conn[t]
<1>1. /\ pc[t] = "fetch" /\ recvmbox[c] # <<>>
      /\ recvmbox' = [recvmbox EXCEPT ![c] = Tail(@)]
      /\ last_err' = [last_err EXCEPT ![c] = IF @ = "ok" THEN "CLSD" ELSE @]
      /\ netbufs' = netbufs - 1
      /\ UNCHANGED <<used, pcb, acceptmbox, sent, handled, conn, feedback>>
  BY DEF FetchNull
<1>2. c \in Netconns  BY <1>1, ConnFacts
<1>3. /\ Streams' /\ recvmbox' \in [Netconns -> Seq(Segments)]
      /\ \A d \in Netconns : Len(recvmbox'[d]) <= RecvMbox
  BY <1>1, <1>2, HeadStream
<1>4. /\ pc' \in [Threads -> Labels] /\ pc'[t] = "delete"
      /\ \A s \in Threads \ {t} : pc'[s] = pc[s]
  <2>1. "delete" \in Labels  BY DEF Labels
  <2> QED  BY <2>1, GotoFacts DEF IInv, FetchNull
<1>5. last_err' \in [Netconns -> {"ok", "CLSD", "RST"}]
      /\ \A d \in Netconns \ {c} : last_err'[d] = last_err[d]
  BY <1>1, <1>2 DEF IInv, TypeOK
<1>6. netbufs \in Nat /\ netbufs > 0 /\ netbufs <= Netbufs
  BY <1>1, HasBufFacts DEF HasBuf
<1>7. TypeOK'
  <2>1. netbufs' \in 0 .. Netbufs  BY <1>1, <1>6
  <2> QED  BY <1>1, <1>3, <1>4, <1>5, <2>1 DEF IInv, TypeOK, feedback
<1>8. Places'  BY <1>1, <1>4 DEF IInv, Places, Labels
<1>9. Bufs'
  <2>1. CASE t = "server"  BY <1>1, <1>4, <1>6, <2>1 DEF IInv, Bufs, HasBuf
  <2>2. CASE t = "client"  BY <1>1, <1>4, <1>6, <2>2 DEF IInv, Bufs, HasBuf
  <2> QED  BY <2>1, <2>2
<1>10. Errors'
  <2>1. CASE t = "client"  BY <1>1, <1>4, <2>1 DEF IInv, Errors, LossMeansStuck, feedback
  <2>2. CASE t = "server"
    <3>1. c # conn["client"]  BY <1>2, <2>2 DEF IInv, Owners
    <3> QED  BY <1>1, <1>2, <1>4, <1>5, <2>2, <3>1, ErrorsOthers DEF feedback
  <2> QED  BY <2>1, <2>2
<1>11. Count'  BY <1>1, <1>4 DEF IInv, Count, feedback
<1> QED  BY <1>1, <1>3, <1>7, <1>8, <1>9, <1>10, <1>11, OwnersStay DEF IInv

LEMMA DeleteStep ==
  ASSUME IInv, NEW t \in Threads, Delete(t) PROVE IInv'
<1> USE Constants, TwoTasks
<1> DEFINE c == conn[t]
<1>1. /\ pc[t] = "delete" /\ pcb' = [pcb EXCEPT ![c] = "none"] /\ used' = used \ {c}
      /\ Fresh(c) /\ conn' = [conn EXCEPT ![t] = NoConn]
      /\ UNCHANGED <<acceptmbox, netbufs, feedback>>
  BY DEF Delete
<1>2. c \in Netconns /\ c # Listener  BY <1>1, ConnFacts
<1>3. /\ pc' \in [Threads -> Labels] /\ pc'[t] = Outer(t)
      /\ \A s \in Threads \ {t} : pc'[s] = pc[s]
  <2>1. Outer(t) \in Labels  BY DEF Labels, Outer
  <2> QED  BY <2>1, GotoFacts DEF IInv, Delete
<1>4. /\ conn' \in [Threads -> Netconns \cup {NoConn}] /\ conn'[t] = NoConn
      /\ \A s \in Threads \ {t} : conn'[s] = conn[s]
  BY <1>1 DEF IInv, TypeOK
<1>5. TypeOK'  BY <1>1, <1>2, <1>3, <1>4, FreshType DEF IInv, TypeOK, feedback
<1>6. Places'
  <2>1. CASE t = "server"  BY <1>3, <1>4, <2>1 DEF IInv, Places, Outer
  <2>2. CASE t = "client"  BY <1>3, <1>4, <2>2 DEF IInv, Places, Outer, Labels
  <2> QED  BY <2>1, <2>2
<1>7. Owners'
  <2>1. \A d : Waits(d)' <=> Waits(d)  BY <1>1 DEF Waits
  <2>2. \A s \in Threads \ {t} : conn[s] # c
    BY <1>2 DEF IInv, Owners
  <2>3. ~Waits(c)  BY DEF IInv, Owners
  <2>4. ~Waits(NoConn)
    <3>1. \A i \in DOMAIN acceptmbox : acceptmbox[i] \in Netconns  BY DEF IInv, TypeOK
    <3> QED  BY <3>1 DEF Waits
  <2>5. CASE t = "server"
    <3>1. conn'["server"] = NoConn /\ conn'["client"] = conn["client"]  BY <1>4, <2>5
    <3>2. \A d \in Netconns : d \in used' <=>
            d = Listener \/ d = conn'["server"] \/ d = conn'["client"] \/ Waits(d)'
      BY <1>1, <1>2, <2>1, <2>2, <2>3, <2>5, <3>1 DEF IInv, Owners
    <3>3. ~Waits(Listener)' /\ ~Waits(conn["server"])' /\ ~Waits(conn["client"])'
      BY <1>1, <2>4, <3>1 DEF IInv, Owners, Waits
    <3> QED  BY <1>1, <3>1, <3>2, <3>3 DEF IInv, Owners
  <2>6. CASE t = "client"
    <3>1. conn'["client"] = NoConn /\ conn'["server"] = conn["server"]  BY <1>4, <2>6
    <3>2. \A d \in Netconns : d \in used' <=>
            d = Listener \/ d = conn'["server"] \/ d = conn'["client"] \/ Waits(d)'
      BY <1>1, <1>2, <2>1, <2>2, <2>3, <2>6, <3>1 DEF IInv, Owners
    <3>3. ~Waits(Listener)' /\ ~Waits(conn["server"])' /\ ~Waits(conn["client"])'
      BY <1>1, <2>4, <3>1 DEF IInv, Owners, Waits
    <3> QED  BY <1>1, <3>1, <3>2, <3>3 DEF IInv, Owners
  <2> QED  BY <2>5, <2>6
<1>8. Bufs'
  <2>1. CASE t = "server"  BY <1>1, <1>3, <2>1 DEF IInv, Bufs, HasBuf, Outer
  <2>2. CASE t = "client"  BY <1>1, <1>3, <2>2 DEF IInv, Bufs, HasBuf, Outer
  <2> QED  BY <2>1, <2>2
<1>9. Errors'
  <2>1. CASE t = "client"
    BY <1>1, <1>3, <2>1 DEF IInv, Errors, LossMeansStuck, feedback, Outer
  <2>2. CASE t = "server"
    <3>1. c # conn["client"]  BY <1>2, <2>2 DEF IInv, Owners
    <3>2. \A d \in Netconns \ {c} : last_err'[d] = last_err[d]
      BY <1>1, <1>2 DEF Fresh, IInv, TypeOK
    <3> QED  BY <1>1, <1>2, <1>3, <1>4, <2>2, <3>1, <3>2, ErrorsOthers DEF feedback
  <2> QED  BY <2>1, <2>2
<1>10. Count'
  <2>1. CASE t = "server"  BY <1>1, <1>3, <2>1 DEF IInv, Count, feedback
  <2>2. CASE t = "client"  BY <1>1, <1>3, <2>2 DEF IInv, Count, feedback, Outer
  <2> QED  BY <2>1, <2>2
<1>11. Streams'  BY <1>1, <1>2, FreshStream DEF IInv
<1> QED  BY <1>5, <1>6, <1>7, <1>8, <1>9, <1>10, <1>11 DEF IInv
-----------------------------------------------------------------------------
LEMMA NextInv == IInv /\ [Next]_vars => IInv'
<1> SUFFICES ASSUME IInv, [Next]_vars PROVE IInv'  OBVIOUS
<1> USE TwoTasks
<1>1. CASE AcceptFunction  BY <1>1, AcceptFunctionStep
<1>2. ASSUME NEW c \in Netconns, RecvTcp(c) \/ RecvTcpFin(c) \/ ErrTcp(c) PROVE IInv'
  BY <1>2, RecvTcpStep, RecvTcpFinStep, ErrTcpStep
<1>3. CASE Replies  BY <1>3, ConnectedStep, ConnectFailsStep, WriteDoneStep DEF Replies
<1>4. CASE EnFeedBackMsgQueue  BY <1>4, EnFeedBackStep
<1>5. ASSUME NEW t \in Threads, Receiving(t) PROVE IInv'
  BY <1>5, RecvFailsStep, RecvStep, CheckLastErrStep, WaitEndsStep, FetchDataStep,
     FetchNullStep, DeleteStep DEF Receiving
<1>6. CASE ServerStep  BY <1>5, <1>6, AcceptStep DEF ServerStep
<1>7. CASE ClientStep  BY <1>5, <1>7, ConnectStep, NothingToSendStep, WriteStep DEF ClientStep
<1>8. CASE UNCHANGED vars
  <2>1. UNCHANGED <<used, pcb, last_err, recvmbox, acceptmbox, sent, handled, pc, conn,
                    netbufs, FMQ, produced, lost>>
    BY <1>8 DEF vars, net, feedback
  <2>2. TypeOK'  BY <2>1 DEF IInv, TypeOK
  <2> QED  BY <2>1, <2>2, PlacesStay, OwnersStay, BufsStay, ErrorsStay, CountStays, StreamsStay DEF IInv
<1> QED  BY <1>1, <1>2, <1>3, <1>4, <1>6, <1>7, <1>8 DEF Next

(* The connections that wait are as many as the entries of the mailbox.      *)
LEMMA WaitingCount ==
  ASSUME IInv
  PROVE  IsFiniteSet(ToSet(acceptmbox)) /\ Cardinality(ToSet(acceptmbox)) = Len(acceptmbox)
<1> DEFINE n == Len(acceptmbox)
           S == ToSet(acceptmbox)
<1>1. n \in Nat /\ DOMAIN acceptmbox = 1 .. n
  BY DEF IInv, TypeOK
<1>2. acceptmbox \in [1 .. n -> S]
  BY <1>1 DEF ToSet, IInv, TypeOK
<1>3. acceptmbox \in Bijection(1 .. n, S)
  <2>1. acceptmbox \in Injection(1 .. n, S)
    <3>1. \A i, j \in 1 .. n : acceptmbox[i] = acceptmbox[j] => i = j
      BY <1>1 DEF IInv, Owners
    <3> HIDE DEF n, S
    <3> QED  BY <1>1, <1>2, <3>1 DEF Injection, IsInjective
  <2>2. acceptmbox \in Surjection(1 .. n, S)
    BY <1>1, <1>2 DEF Surjection, ToSet
  <2> QED  BY <2>1, <2>2 DEF Bijection
<1>4. ExistsBijection(1 .. n, S)  BY <1>3 DEF ExistsBijection
<1> HIDE DEF n, S
<1>5. IsFiniteSet(1 .. n) /\ Cardinality(1 .. n) = n
  <2>1. 1 \in Int /\ n \in Int  BY <1>1
  <2>2. IsFiniteSet(1 .. n) /\ Cardinality(1 .. n) = IF 1 > n THEN 0 ELSE n - 1 + 1
    BY <2>1, FS_Interval, Zenon
  <2> QED  BY <1>1, <2>2
<1>6. IsFiniteSet(S) /\ Cardinality(S) = Cardinality(1 .. n)  BY <1>4, <1>5, FS_Bijection
<1> QED  BY <1>5, <1>6 DEF n, S

LEMMA HeldCount ==
  ASSUME NEW t \in Threads
  PROVE  IsFiniteSet(Held(t)) /\ Cardinality(Held(t)) \in Nat
         /\ (Held(t) = {} \/ Held(t) = {conn[t]})
<1>1. Held(t) = {} \/ Held(t) = {conn[t]}  BY DEF Held
<1> HIDE DEF Held
<1> QED  BY <1>1, FS_EmptySet, FS_Singleton, FS_CardinalityType

LEMMA DisjointCount ==
  ASSUME NEW S, NEW T, IsFiniteSet(S), IsFiniteSet(T), S \cap T = {}
  PROVE  IsFiniteSet(S \cup T) /\ Cardinality(S \cup T) = Cardinality(S) + Cardinality(T)
<1>1. Cardinality(S) \in Nat /\ Cardinality(T) \in Nat  BY FS_CardinalityType
<1>2. Cardinality(S \cap T) = 0  BY FS_EmptySet
<1>3. /\ IsFiniteSet(S \cup T)
      /\ Cardinality(S \cup T) = Cardinality(S) + Cardinality(T) - Cardinality(S \cap T)
  BY FS_Union, Zenon
<1> QED  BY <1>1, <1>2, <1>3

LEMMA PoolsFromOwners == IInv => PoolsAccounted
<1> SUFFICES ASSUME IInv PROVE PoolsAccounted  OBVIOUS
<1> USE Constants, TwoTasks
<1> DEFINE A == ToSet(acceptmbox)
           H == Held("server")
           K == Held("client")
<1>1. \A c : c \in A <=> Waits(c)  BY DEF ToSet, Waits
<1>2. A \subseteq Netconns
  BY DEF ToSet, IInv, TypeOK
<1>3. used = {Listener} \cup H \cup K \cup A
  <2>1. H \subseteq Netconns /\ K \subseteq Netconns
    BY DEF Held, IInv, TypeOK
  <2>2. \A c \in Netconns : /\ c \in H <=> c = conn["server"]
                            /\ c \in K <=> c = conn["client"]
    BY DEF Held
  <2>3. \A c \in Netconns : c \in used <=> c \in {Listener} \cup H \cup K \cup A
    <3> HIDE DEF A, H, K
    <3> QED  BY <1>1, <2>2 DEF IInv, Owners
  <2>4. used \subseteq Netconns  BY DEF IInv, TypeOK
  <2> HIDE DEF A, H, K
  <2> QED  BY <1>2, <2>1, <2>3, <2>4
<1>4. /\ Listener \notin H /\ Listener \notin K /\ Listener \notin A
      /\ H \cap K = {} /\ H \cap A = {} /\ K \cap A = {}
  <2>1. Listener \notin H /\ Listener \notin K  BY DEF Held, IInv, Owners
  <2>2. H \cap K = {}  BY DEF Held, IInv, Owners
  <2>3. Listener \notin A /\ conn["server"] \notin A /\ conn["client"] \notin A
    <3> HIDE DEF A
    <3> QED  BY <1>1 DEF IInv, Owners
  <2>4. H \cap A = {} /\ K \cap A = {}
    <3> HIDE DEF A
    <3> QED  BY <2>3 DEF Held
  <2> QED  BY <2>1, <2>2, <2>3, <2>4
<1>5. Cardinality(used) = 1 + Cardinality(H) + Cardinality(K) + Len(acceptmbox)
  <2>1. /\ IsFiniteSet(A) /\ Cardinality(A) = Len(acceptmbox) /\ Len(acceptmbox) \in Nat
        /\ IsFiniteSet(H) /\ Cardinality(H) \in Nat /\ IsFiniteSet(K) /\ Cardinality(K) \in Nat
    BY WaitingCount, HeldCount DEF IInv, TypeOK
  <2> HIDE DEF A, H, K
  <2>2. IsFiniteSet({Listener}) /\ Cardinality({Listener}) = 1  BY FS_Singleton
  <2>3. IsFiniteSet({Listener} \cup H) /\ Cardinality({Listener} \cup H) = 1 + Cardinality(H)
    <3>1. {Listener} \cap H = {}  BY <1>4
    <3> QED  BY <2>1, <2>2, <3>1, DisjointCount
  <2>4. /\ IsFiniteSet({Listener} \cup H \cup K)
        /\ Cardinality({Listener} \cup H \cup K) = 1 + Cardinality(H) + Cardinality(K)
    <3>1. ({Listener} \cup H) \cap K = {}  BY <1>4
    <3> QED  BY <2>1, <2>3, <3>1, DisjointCount
  <2>5. Cardinality({Listener} \cup H \cup K \cup A) = 1 + Cardinality(H) + Cardinality(K) + Cardinality(A)
    <3>1. ({Listener} \cup H \cup K) \cap A = {}  BY <1>4
    <3> QED  BY <2>1, <2>4, <3>1, DisjointCount
  <2> QED  BY <1>3, <2>1, <2>5
<1>6. netbufs = Cardinality({t \in Threads : pc[t] \in {"check", "fetch", "handle"}})
  <2> DEFINE B(t) == IF HasBuf(t) = 1 THEN {t} ELSE {}
  <2>1. {t \in Threads : pc[t] \in {"check", "fetch", "handle"}} = B("server") \cup B("client")
    BY DEF HasBuf, Threads
  <2>2. \A t \in Threads : IsFiniteSet(B(t)) /\ Cardinality(B(t)) = HasBuf(t)
    <3> SUFFICES ASSUME NEW t \in Threads PROVE IsFiniteSet(B(t)) /\ Cardinality(B(t)) = HasBuf(t)
      OBVIOUS
    <3>1. CASE HasBuf(t) = 1  BY <3>1, FS_Singleton
    <3>2. CASE HasBuf(t) # 1
      <4>1. HasBuf(t) = 0  BY <3>2 DEF HasBuf
      <4> QED  BY <4>1, FS_EmptySet
    <3> QED  BY <3>1, <3>2
  <2>3. B("server") \cap B("client") = {}  OBVIOUS
  <2> HIDE DEF B
  <2>4. Cardinality(B("server") \cup B("client")) = HasBuf("server") + HasBuf("client")
    BY <2>2, <2>3, DisjointCount
  <2> QED  BY <2>1, <2>4 DEF IInv, Bufs
<1> QED  BY <1>3, <1>5, <1>6 DEF PoolsAccounted
-----------------------------------------------------------------------------
(* No mailbox is written beyond its capacity and no pool below zero or above *)
(* its size, whatever the peers do (sys_arch.c:164, api_lib.c).              *)
THEOREM MailboxesAndPoolsFit == Spec => []TypeOK
<1>1. IInv => TypeOK  BY DEF IInv
<1> QED  BY InitInv, NextInv, <1>1, PTL DEF Spec

(* For any number of netconns and any order of FINs, resets and accepts the  *)
(* tasks give back every netconn and netbuf they take, each exactly once     *)
(* (tcp_server_demo.c:97-102, tcp_client_demo.c:92-99).                      *)
THEOREM PoolsComeBack == Spec => []PoolsAccounted
<1> QED  BY InitInv, NextInv, PoolsFromOwners, PTL DEF Spec

(* Feedback the client took from the queue is lost only on a connection that *)
(* was reset and that the client never leaves (tcp_client_demo.c:61-92).     *)
THEOREM LossIsAReset == Spec => []LossMeansStuck
<1>1. IInv => LossMeansStuck  BY DEF IInv, Errors
<1> QED  BY InitInv, NextInv, <1>1, PTL DEF Spec

(* Commands of one connection are handled in the order sent, none twice, for *)
(* every capacity of the mailbox and whatever is cut, merged or dropped      *)
(* (api_msg.c, tcp_server_demo.c:53-96).                                     *)
THEOREM CommandsInOrder == Spec => []HandledInOrder
<1>1. IInv => HandledInOrder
  <2> SUFFICES ASSUME IInv, NEW c \in Netconns
               PROVE  \A i, j \in DOMAIN handled[c] : i < j => handled[c][i] < handled[c][j]
    BY DEF HandledInOrder
  <2>1. Stream(c)  BY DEF IInv, Streams
  <2> QED  BY <2>1 DEF Stream
<1> QED  BY InitInv, NextInv, <1>1, PTL DEF Spec
===============================================================================
