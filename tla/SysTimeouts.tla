----------------------------- MODULE SysTimeouts -----------------------------
(****************************************************************************)
(* The timers of lwIP in tcpip_thread (lwip/core/timers.c): a list in which *)
(* each timer holds the time after the one before it, served while the      *)
(* thread waits for a message in sys_arch_mbox_fetch                        *)
(* (LWIP/arch/sys_arch.c), which counts in ticks.                           *)
(*                                                                          *)
(* Time is what passes in those waits; how long a message or a handler      *)
(* takes is left out.                                                       *)
(****************************************************************************)
EXTENDS Integers, Sequences, FiniteSets

CONSTANTS Handlers,     \* tcpip_tcp_timer, ip_reass_timer, arp_timer, ...
          TcpTimer,     \* the one that runs only while there are connections
          Protocols,    \* the others, in the order they are armed in
          Delay,        \* handler -> ms it asks for
          TickMs        \* 1000 / OS_TICKS_PER_SEC

ASSUME TimeoutsAssumption ==
  /\ TcpTimer \in Handlers /\ Protocols \in Seq(Handlers \ {TcpTimer}) \ {<<>>}
  /\ \A h \in Handlers \ {TcpTimer} : \E k \in DOMAIN Protocols : Protocols[k] = h
  /\ \A j, k \in DOMAIN Protocols : Protocols[j] = Protocols[k] => j = k
  /\ Delay \in [Handlers -> Nat \ {0}] /\ TickMs \in Nat \ {0}

VARIABLES
  timers,       \* next_timeout and its followers: [h, time]
  active,       \* tcpip_tcp_timer_active
  waited,       \* handler -> ticks waited since its timer was armed
  fetched,      \* handler -> messages fetched since
  expired,      \* handler -> timers that expired since
  instant       \* handlers: a message came without a tick of waiting since

tracks == <<waited, fetched, expired, instant>>
timeoutVars == <<timers, active, tracks>>

Armed == {timers[k].h : k \in DOMAIN timers}

(* Time until the k-th timer of the list.                                    *)
After(list, k) ==
  LET sum[n \in 0 .. Len(list)] == IF n = 0 THEN 0 ELSE sum[n - 1] + list[n].time
  IN sum[k]
-----------------------------------------------------------------------------
NextNotShortened(list, h) ==    \* slip: the timer behind keeps its time
  LET k == Cardinality({j \in 1 .. Len(list) : After(list, j) <= Delay[h]})
  IN SubSeq(list, 1, k) \o <<[h |-> h, time |-> Delay[h] - After(list, k)]>>
       \o SubSeq(list, k + 1, Len(list))

(* sys_timeout: behind the timers that expire no later than the new one; the *)
(* timer behind it gives up the time the new one takes.                      *)
sys_timeout(list, h) ==
  LET k == Cardinality({j \in 1 .. Len(list) : After(list, j) <= Delay[h]})
      rest == Delay[h] - After(list, k)
  IN SubSeq(list, 1, k) \o <<[h |-> h, time |-> rest]>>
       \o [j \in 1 .. Len(list) - k |->
             IF j = 1 THEN [list[k + 1] EXCEPT !.time = @ - rest] ELSE list[k + j]]

(* tcpip_thread begins by arming the protocols' timers (sys_timeouts_init);  *)
(* TcpTimer waits for a connection.                                          *)
TimeoutsInit ==
  /\ timers = LET arm[n \in 0 .. Len(Protocols)] ==
                    IF n = 0 THEN <<>> ELSE sys_timeout(arm[n - 1], Protocols[n])
              IN arm[Len(Protocols)]
  /\ active = FALSE
  /\ waited = [h \in Handlers |-> 0] /\ fetched = [h \in Handlers |-> 0]
  /\ expired = [h \in Handlers |-> 0] /\ instant = {}

(* The pend's limit in ticks, 0 when the timer is due and no message is      *)
(* fetched.                                                                  *)
Limit(ms) == IF ms = 0 THEN 0 ELSE IF ms \div TickMs < 1 THEN 1 ELSE ms \div TickMs

Counted(count, n, armed) ==
  [h \in Handlers |-> IF h \in Armed \ armed THEN count[h] + n ELSE 0]

(* What is known of each timer after a step in which n ticks were waited and *)
(* the timers of the set armed were armed anew.                              *)
Track(n, messages, timeouts, armed) ==
  /\ waited' = Counted(waited, n, armed)
  /\ fetched' = Counted(fetched, messages, armed)
  /\ expired' = Counted(expired, timeouts, armed)

(* The wait times out: the handler is called.  The protocols' timers arm     *)
(* themselves again, TcpTimer if connections are left.                       *)
TimerExpires ==
  /\ timers # <<>>
  /\ LET h == Head(timers).h
     IN \E again \in (IF h = TcpTimer THEN BOOLEAN ELSE {TRUE}) :
          /\ timers' = IF again THEN sys_timeout(Tail(timers), h) ELSE Tail(timers)
          /\ active' = IF h = TcpTimer THEN again ELSE active
          /\ Track(Limit(Head(timers).time), 0, 1, {h})
          /\ instant' = instant \ {h}

(* The time sys_arch_mbox_fetch returns for a message after n ticks.  Not to *)
(* have waited at all is taken for a clock that wrapped (line 138: > where   *)
(* sys_arch_sem_wait has >=): 2^32 - 1 ticks, some 6 hours in ms.            *)
TimeNeeded(n) == IF n = 0 THEN 21474832 ELSE n * TickMs + 1

Elapse(ms) ==
  LET left == Head(timers).time - ms
  IN <<[Head(timers) EXCEPT !.time = IF left > 0 THEN left ELSE 0]>> \o Tail(timers)

(* A message may be a new connection.                                        *)
tcp_timer_needed(list, arm) ==
  /\ arm => ~active
  /\ timers' = IF arm THEN sys_timeout(list, TcpTimer) ELSE list
  /\ active' = (active \/ arm)

MessageFetched ==
  \E n \in 0 .. Limit(Head(timers).time) - 1, arm \in BOOLEAN :
    /\ tcp_timer_needed(Elapse(TimeNeeded(n)), arm)
    /\ Track(n, 1, 0, IF arm THEN {TcpTimer} ELSE {})
    /\ instant' = IF n = 0 THEN Armed ELSE instant

TimeoutsNext == TimerExpires \/ MessageFetched
TimeoutsSpec == TimeoutsInit /\ [][TimeoutsNext]_timeoutVars
-----------------------------------------------------------------------------
(* Each timer that is armed is in the list once, the TCP timer exactly while *)
(* tcpip_tcp_timer_active is set.                                            *)
OncePending ==
  /\ \A j, k \in DOMAIN timers : timers[j].h = timers[k].h => j = k
  /\ active = (TcpTimer \in Armed)
  /\ Handlers \ {TcpTimer} \subseteq Armed

TimeoutsTypeOK ==
  /\ timers \in Seq([h : Handlers, time : Nat]) /\ active \in BOOLEAN
  /\ waited \in [Handlers -> Nat] /\ fetched \in [Handlers -> Nat]
  /\ expired \in [Handlers -> Nat] /\ instant \subseteq Handlers

(* The time a timer has waited and the time it will still be given, in ms.   *)
Total(k) == TickMs * waited[timers[k].h] + After(timers, k)

Late(k) == Total(k) > Delay[timers[k].h] + (TickMs - 1) * expired[timers[k].h]
Early(k) ==
  Total(k) < Delay[timers[k].h] - fetched[timers[k].h] - (TickMs - 1) * expired[timers[k].h]

(* No timer is in the list twice, or the pool of 8 list entries              *)
(* (lwipopts.h:21) would run dry and a timer would never be armed again, and *)
(* none is lost (timers.c:104-107).  However timers are armed in front of    *)
(* it, between and behind, a timer is called late by no more than the        *)
(* rounding of the timers that expired before it, less than a tick each; and *)
(* early by no more than that and 1 ms for each message, as long as every    *)
(* message came after a tick of waiting (timers.c:280-307, 466-475).         *)
TimersOnTime ==
  /\ OncePending
  /\ \A k \in DOMAIN timers : ~Late(k) /\ (Early(k) => timers[k].h \in instant)

(* What timers.c:257 promises: a timer expires after the time it was armed   *)
(* for.  One message in the same tick breaks it.                             *)
NeverEarly == \A k \in DOMAIN timers : ~Early(k)
=============================================================================
