------------------------------ MODULE TcpTasks ------------------------------
(****************************************************************************)
(* The TCP server task (LWIP/lwip_app/tcp_server_demo) and the TCP client   *)
(* task (tcp_client_demo) over lwIP's netconn layer (api_lib.c, api_msg.c): *)
(* connections are opened, carry commands and feedback, and end by a FIN or *)
(* by a reset, which may arrive at any point of the tasks' loops.           *)
(*                                                                          *)
(* What tcpip_thread does for an API call or a packet is one step: it is    *)
(* the most urgent of the three.  The client runs only while the server is  *)
(* blocked.  A netconn that is full of unread segments counts as invalid    *)
(* (sys_mbox_valid, LWIP/arch/sys_arch.c:164).                              *)
(****************************************************************************)
EXTENDS Integers, Sequences, FiniteSets, SequencesExt

CONSTANTS Netconns,     \* all there can be: 3 by OS_MAX_EVENTS, in a pool of 4
          Listener,     \* the one the server listens on
          NoConn,       \* no netconn
          Netbufs,      \* size of the pool MEMP_NETBUF
          RecvMbox,     \* capacity of a recvmbox (20)
          MaxCmds,      \* bound: commands a peer sends on one connection
          MaxFeedback   \* bound: feedback messages queued in FMQ

ASSUME TcpAssumption ==
  /\ Listener \in Netconns /\ NoConn \notin Netconns /\ IsFiniteSet(Netconns)
  /\ Netbufs \in Nat /\ RecvMbox \in Nat \ {0} /\ MaxCmds \in Nat /\ MaxFeedback \in Nat

Threads == {"server", "client"}
NULL == -1                  \* the message pvNullPointer stands for
Rejected == 0               \* a segment that is not exactly one command

VARIABLES
  used,         \* netconns that are allocated
  pcb,          \* netconn -> "none", "listen", "synsent", "established",
                \*            "closewait" (its peer has closed)
  last_err,     \* netconn -> "ok" (or not fatal), "CLSD", "RST" (or ABRT)
  recvmbox,     \* netconn -> segments that wait, oldest first
  acceptmbox,   \* connections the server has not accepted yet
  sent,         \* netconn -> commands its peer has sent
  handled,      \* netconn -> those MessageHandle has accepted, in order
  pc, conn,     \* task -> where it is, and its connection
  netbufs,      \* netbufs in use
  FMQ,          \* feedback messages queued
  produced,     \* ... ever queued
  lost          \* ... taken by the client and not written

net == <<used, pcb, last_err, recvmbox, acceptmbox, sent, handled>>
feedback == <<FMQ, produced, lost>>
vars == <<net, pc, conn, netbufs, feedback>>

Init ==
  /\ used = {Listener}
  /\ pcb = [c \in Netconns |-> IF c = Listener THEN "listen" ELSE "none"]
  /\ last_err = [c \in Netconns |-> "ok"]
  /\ recvmbox = [c \in Netconns |-> <<>>]
  /\ acceptmbox = <<>>
  /\ sent = [c \in Netconns |-> 0] /\ handled = [c \in Netconns |-> <<>>]
  /\ pc = [server |-> "accept", client |-> "new"]
  /\ conn = [t \in Threads |-> NoConn]
  /\ netbufs = 0
  /\ FMQ = 0 /\ produced = 0 /\ lost = 0

Fatal(c) == last_err[c] # "ok"
Valid(c) == Len(recvmbox[c]) < RecvMbox
Goto(t, l) == pc' = [pc EXCEPT ![t] = l]
Loop(t) == IF t = "server" THEN "recv" ELSE "send"      \* top of its inner loop
Outer(t) == IF t = "server" THEN "accept" ELSE "new"    \* and of its outer one

(* A task blocks in accept and recv on an empty mailbox (10 ms), in          *)
(* MessageHandle (delay_ms(10)), in connect and in a write that waits.       *)
Blocked(t) ==
  \/ pc[t] = "accept" /\ acceptmbox = <<>>
  \/ pc[t] = "fetch" /\ recvmbox[conn[t]] = <<>>
  \/ pc[t] \in {"handle", "connect", "write"}
MayRun(t) == t = "client" => Blocked("server")

(* What netconn_alloc leaves in the structure.  Nothing looks at a netconn   *)
(* that is free, so Delete leaves the same there.                            *)
Fresh(c) ==
  /\ last_err' = [last_err EXCEPT ![c] = "ok"]
  /\ recvmbox' = [recvmbox EXCEPT ![c] = <<>>]
  /\ sent' = [sent EXCEPT ![c] = 0] /\ handled' = [handled EXCEPT ![c] = <<>>]

Alloc(c, p) ==
  /\ c \notin used
  /\ used' = used \cup {c}
  /\ pcb' = [pcb EXCEPT ![c] = p]
  /\ Fresh(c)
-----------------------------------------------------------------------------
(* The peers, seen by tcpip_thread                                           *)

(* accept_function: no netconn left, and the new pcb is aborted.             *)
AcceptFunction ==
  /\ \E c \in Netconns : Alloc(c, "established") /\ acceptmbox' = Append(acceptmbox, c)
  /\ UNCHANGED <<pc, conn, netbufs, feedback>>

PostUnchecked(c, m) == recvmbox' = [recvmbox EXCEPT ![c] = Append(@, m)]   \* slip

(* recv_tcp and err_tcp post only to a valid mailbox; recv_tcp frees what it *)
(* does not post, although the peer has had its acknowledgement.             *)
Post(c, m) == recvmbox' = IF Valid(c) THEN [recvmbox EXCEPT ![c] = Append(@, m)] ELSE recvmbox

RecvTcpRefused(c) ==        \* slip: ERR_MEM after the post, so tcp_input offers it again
  /\ pcb[c] = "established" /\ sent[c] < MaxCmds /\ Len(recvmbox[c]) + 1 < RecvMbox
  /\ sent' = [sent EXCEPT ![c] = @ + 1]
  /\ recvmbox' = [recvmbox EXCEPT ![c] = @ \o <<sent[c] + 1, sent[c] + 1>>]
  /\ UNCHANGED <<used, pcb, last_err, acceptmbox, handled, pc, conn, netbufs, feedback>>

(* TCP is a stream: a segment is exactly one command, or it is several or a  *)
(* piece of one, which MessageHandle rejects for its length (message.c:86).  *)
RecvTcp(c) ==
  /\ pcb[c] = "established" /\ sent[c] < MaxCmds
  /\ sent' = [sent EXCEPT ![c] = @ + 1]
  /\ Post(c, sent[c] + 1) \/ Post(c, Rejected)
  /\ UNCHANGED <<used, pcb, last_err, acceptmbox, handled, pc, conn, netbufs, feedback>>

(* A FIN: recv_tcp with a null pointer.                                      *)
RecvTcpFin(c) ==
  /\ pcb[c] = "established"
  /\ pcb' = [pcb EXCEPT ![c] = "closewait"]
  /\ Post(c, NULL)
  /\ UNCHANGED <<used, last_err, acceptmbox, sent, handled, pc, conn, netbufs, feedback>>

(* A reset, or a peer that stops answering: err_tcp fails a pending write.   *)
ErrTcp(c) ==
  /\ pcb[c] \in {"established", "closewait"}
  /\ pcb' = [pcb EXCEPT ![c] = "none"]
  /\ last_err' = [last_err EXCEPT ![c] = "RST"]
  /\ Post(c, NULL)
  /\ IF pc["client"] = "write" /\ conn["client"] = c
     THEN Goto("client", "recv") /\ lost' = lost + 1
     ELSE UNCHANGED <<pc, lost>>
  /\ UNCHANGED <<used, acceptmbox, sent, handled, conn, netbufs, FMQ, produced>>

(* The client's connect ends in do_connected or in err_tcp.                  *)
DoConnected ==
  /\ pc["client"] = "connect" /\ Goto("client", "send")
  /\ pcb' = [pcb EXCEPT ![conn["client"]] = "established"]
  /\ UNCHANGED <<used, last_err, recvmbox, acceptmbox, sent, handled, conn, netbufs, feedback>>

ConnectFails ==
  /\ pc["client"] = "connect" /\ Goto("client", "delete")
  /\ pcb' = [pcb EXCEPT ![conn["client"]] = "none"]
  /\ last_err' = [last_err EXCEPT ![conn["client"]] = "RST"]
  /\ Post(conn["client"], NULL)
  /\ UNCHANGED <<used, acceptmbox, sent, handled, conn, netbufs, feedback>>

(* sent_tcp or poll_tcp: a write that waited for buffers is complete.        *)
WriteDone ==
  /\ pc["client"] = "write" /\ Goto("client", "recv")
  /\ UNCHANGED <<net, conn, netbufs, feedback>>

(* MotionFeedbackHandle queues feedback, for some source.                    *)
EnFeedBackMsgQueue ==
  /\ produced < MaxFeedback
  /\ produced' = produced + 1 /\ FMQ' = FMQ + 1
  /\ UNCHANGED <<net, pc, conn, netbufs, lost>>
-----------------------------------------------------------------------------
(* The tasks                                                                 *)

Accept ==
  /\ pc["server"] = "accept" /\ acceptmbox # <<>> /\ Goto("server", "recv")
  /\ conn' = [conn EXCEPT !["server"] = Head(acceptmbox)]
  /\ acceptmbox' = Tail(acceptmbox)
  /\ UNCHANGED <<used, pcb, last_err, recvmbox, sent, handled, netbufs, feedback>>

(* netconn_new and netconn_connect.  With no netconn left both fail at once, *)
(* as does netconn_delete, and the client tries again: nothing changes.      *)
Connect ==
  /\ pc["client"] = "new" /\ MayRun("client") /\ Goto("client", "connect")
  /\ \E c \in Netconns : Alloc(c, "synsent") /\ conn' = [conn EXCEPT !["client"] = c]
  /\ UNCHANGED <<acceptmbox, netbufs, feedback>>

(* The client looks for feedback to send; netconn_write fails on a netconn   *)
(* with a fatal error, else writes or waits for buffers.  Its result is only *)
(* printed.                                                                  *)
NothingToSend ==
  /\ pc["client"] = "send" /\ MayRun("client") /\ FMQ = 0 /\ Goto("client", "recv")
  /\ UNCHANGED <<net, conn, netbufs, feedback>>

Write ==
  /\ pc["client"] = "send" /\ MayRun("client") /\ FMQ > 0
  /\ FMQ' = FMQ - 1
  /\ IF Fatal(conn["client"])
     THEN Goto("client", "recv") /\ lost' = lost + 1
     ELSE (Goto("client", "recv") \/ Goto("client", "write")) /\ UNCHANGED lost
  /\ UNCHANGED <<net, conn, netbufs, produced>>

(* netconn_recv: an invalid mailbox is ERR_CONN, no netbuf ERR_MEM; the      *)
(* tasks look for ERR_CLSD only and begin again at once.                     *)
RecvFails(t) ==
  /\ pc[t] = "recv" /\ MayRun(t)
  /\ ~Valid(conn[t]) \/ netbufs >= Netbufs
  /\ Goto(t, Loop(t))
  /\ UNCHANGED <<net, conn, netbufs, feedback>>

Recv(t) ==
  /\ pc[t] = "recv" /\ MayRun(t)
  /\ Valid(conn[t]) /\ netbufs < Netbufs
  /\ netbufs' = netbufs + 1
  /\ Goto(t, "check")
  /\ UNCHANGED <<net, conn, feedback>>

CheckNothing(t) ==          \* slip: fetches whatever last_err says
  /\ pc[t] = "check" /\ MayRun(t)
  /\ Goto(t, "fetch")
  /\ UNCHANGED <<net, conn, netbufs, feedback>>

(* netconn_recv_data gives up on a fatal error ...                           *)
CheckLastErr(t) ==
  /\ pc[t] = "check" /\ MayRun(t)
  /\ IF Fatal(conn[t]) \/ ~Valid(conn[t])
     THEN Goto(t, Loop(t)) /\ netbufs' = netbufs - 1
     ELSE Goto(t, "fetch") /\ UNCHANGED netbufs
  /\ UNCHANGED <<net, conn, feedback>>

(* ... else waits 10 ms for a segment.                                       *)
FetchTimeout(t) ==
  /\ pc[t] = "fetch" /\ MayRun(t) /\ recvmbox[conn[t]] = <<>>
  /\ netbufs' = netbufs - 1
  /\ Goto(t, Loop(t))
  /\ UNCHANGED <<net, conn, feedback>>

(* MessageHandle takes the segment if it is exactly one command.             *)
FetchData(t) ==
  /\ pc[t] = "fetch" /\ MayRun(t)
  /\ recvmbox[conn[t]] # <<>> /\ Head(recvmbox[conn[t]]) # NULL
  /\ LET c == conn[t]
         segment == Head(recvmbox[c])
     IN /\ recvmbox' = [recvmbox EXCEPT ![c] = Tail(@)]
        /\ handled' = IF segment = Rejected THEN handled ELSE [handled EXCEPT ![c] = Append(@, segment)]
  /\ Goto(t, "handle")
  /\ UNCHANGED <<used, pcb, last_err, acceptmbox, sent, conn, netbufs, feedback>>

HandledKeepsBuf(t) ==       \* slip: no netbuf_delete
  /\ pc[t] = "handle" /\ MayRun(t) /\ Goto(t, Loop(t))
  /\ UNCHANGED <<net, conn, netbufs, feedback>>

(* MessageHandle returns; netbuf_delete.                                     *)
Handled(t) ==
  /\ pc[t] = "handle" /\ MayRun(t) /\ Goto(t, Loop(t))
  /\ netbufs' = netbufs - 1
  /\ UNCHANGED <<net, conn, feedback>>

(* The null message: ERR_CLSD, which does not replace an earlier error.      *)
FetchNull(t) ==
  /\ pc[t] = "fetch" /\ MayRun(t)
  /\ recvmbox[conn[t]] # <<>> /\ Head(recvmbox[conn[t]]) = NULL
  /\ recvmbox' = [recvmbox EXCEPT ![conn[t]] = Tail(@)]
  /\ last_err' = [last_err EXCEPT ![conn[t]] = IF @ = "ok" THEN "CLSD" ELSE @]
  /\ netbufs' = netbufs - 1
  /\ Goto(t, "delete")
  /\ UNCHANGED <<used, pcb, acceptmbox, sent, handled, conn, feedback>>

LoopOnClosed(t) ==          \* slip: no break after the connection is closed
  /\ pc[t] = "delete" /\ MayRun(t)
  /\ pcb' = [pcb EXCEPT ![conn[t]] = "none"]
  /\ Goto(t, Loop(t))
  /\ UNCHANGED <<used, last_err, recvmbox, acceptmbox, sent, handled, conn, netbufs, feedback>>

(* netconn_close (when it was open) and netconn_delete: the callbacks are    *)
(* cleared and the mailbox is drained first.                                 *)
Delete(t) ==
  /\ pc[t] = "delete" /\ MayRun(t)
  /\ pcb' = [pcb EXCEPT ![conn[t]] = "none"]
  /\ used' = used \ {conn[t]}
  /\ Fresh(conn[t])
  /\ conn' = [conn EXCEPT ![t] = NoConn]
  /\ Goto(t, Outer(t))
  /\ UNCHANGED <<acceptmbox, netbufs, feedback>>
-----------------------------------------------------------------------------
Receiving(t) ==
  \/ RecvFails(t) \/ Recv(t) \/ CheckLastErr(t) \/ FetchTimeout(t)
  \/ FetchData(t) \/ Handled(t) \/ FetchNull(t) \/ Delete(t)
ServerStep == Accept \/ Receiving("server")
ClientStep == Connect \/ NothingToSend \/ Write \/ Receiving("client")
Replies == DoConnected \/ ConnectFails \/ WriteDone

Next ==
  \/ AcceptFunction
  \/ \E c \in Netconns : RecvTcp(c) \/ RecvTcpFin(c) \/ ErrTcp(c)
  \/ Replies \/ EnFeedBackMsgQueue
  \/ ServerStep \/ ClientStep

Spec == Init /\ [][Next]_vars

(* The server runs whenever it is not blocked, and its waits end.  The       *)
(* client runs in those waits: it can go on again and again, not             *)
(* continuously, hence SF.  TCP answers a connect or gives up, and so it     *)
(* does with a write.  Nothing makes a peer do anything.                     *)
LiveSpec == Spec /\ WF_vars(ServerStep) /\ SF_vars(ClientStep) /\ WF_vars(Replies)
-----------------------------------------------------------------------------
Labels == {"accept", "new", "connect", "send", "write", "recv", "check", "fetch",
           "handle", "delete"}
Segments == {NULL, Rejected} \cup 1 .. MaxCmds

TypeOK ==
  /\ used \subseteq Netconns
  /\ pcb \in [Netconns -> {"none", "listen", "synsent", "established", "closewait"}]
  /\ last_err \in [Netconns -> {"ok", "CLSD", "RST"}]
  /\ recvmbox \in [Netconns -> Seq(Segments)]
  /\ \A c \in Netconns : Len(recvmbox[c]) <= RecvMbox
  /\ acceptmbox \in Seq(Netconns)
  /\ sent \in [Netconns -> 0 .. MaxCmds] /\ handled \in [Netconns -> Seq(1 .. MaxCmds)]
  /\ pc \in [Threads -> Labels] /\ conn \in [Threads -> Netconns \cup {NoConn}]
  /\ netbufs \in 0 .. Netbufs
  /\ {FMQ, produced, lost} \subseteq 0 .. MaxFeedback

(* Whatever ends a connection, and whenever: the pools of netconns and       *)
(* netbufs hold exactly what the tasks, the listener and the connections     *)
(* waiting to be accepted use, each by one of them.  Two netbufs are enough. *)
Held(t) == {conn[t]} \ {NoConn}
PoolsAccounted ==
  /\ used = {Listener} \cup Held("server") \cup Held("client") \cup ToSet(acceptmbox)
  /\ Cardinality(used) = 1 + Cardinality(Held("server")) + Cardinality(Held("client"))
                           + Len(acceptmbox)
  /\ netbufs = Cardinality({t \in Threads : pc[t] \in {"check", "fetch", "handle"}})

(* The client takes a feedback message from the queue before it knows that   *)
(* it can be written (tcp_client_demo.c:61).  None is lost on a connection   *)
(* that the client ever gives up: a loss means that the client is caught on  *)
(* a connection that was reset while it was not waiting for data.            *)
LossMeansStuck ==
  lost > 0 => /\ pc["client"] \in {"send", "recv", "check"}
              /\ last_err[conn["client"]] = "RST"

(* Commands of a connection are executed in the order they were sent, each   *)
(* at most once, though segments can be merged, cut or dropped.              *)
HandledInOrder ==
  \A c \in Netconns : \A i, j \in DOMAIN handled[c] :
    i < j => handled[c][i] < handled[c][j]

(* What stops a task's loop from waiting: a connection reset while it was    *)
(* not waiting for data, a mailbox found full, no netconn left.              *)
Dead(t) == conn[t] # NoConn /\ (last_err[conn[t]] = "RST" \/ ~Valid(conn[t]))
Exhausted == pc["client"] = "new" /\ used = Netconns
Trouble == Dead("server") \/ Dead("client") \/ Exhausted

(* The loops of both tasks leave the CPU to can_thread and the others        *)
(* (tcp_server_demo.c:46), whatever arrives, unless one of them is in        *)
(* trouble.                                                                  *)
LowerTasksRun == []<>((Blocked("server") /\ Blocked("client")) \/ Trouble)

(* A connection whose peer has closed is given up, and the server comes back *)
(* to accept the next (tcp_server_demo.c:97-102), if the null message for    *)
(* the FIN found room in the mailbox; without it the server would wait on    *)
(* this connection for ever.                                                 *)
ClosedIsLeft ==
  \A c \in Netconns : (conn["server"] = c /\ NULL \in ToSet(recvmbox[c])) ~>
    (pc["server"] = "accept" \/ Dead("server"))

(* tcp_server_demo.c:46 sets recv_timeout so that each receive waits up to   *)
(* 10 ms and blocks no longer: the server's loop always comes to a wait.     *)
ServerWaits == []<>Blocked("server")
=============================================================================
