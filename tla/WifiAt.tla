-------------------------------- MODULE WifiAt --------------------------------
(****************************************************************************)
(* The WiFi module's line (USART3): the handler of USART3 and TIM7, which   *)
(* marks the end of a message (HARDWARE/USART3/usart3.c, TIMER/timer.c),    *)
(* and the main loop of the WiFi task with its check of the connection by   *)
(* AT commands (ATK-WIFI/wifiap.c, common.c).                               *)
(*                                                                          *)
(* A byte of the model is a token strstr or strchr looks for.  TIM7 (NVIC   *)
(* priority 0) preempts USART3's handler (2) between its tests and the      *)
(* reset of the counter; later it has 1 ms to go (a byte takes 0.09).       *)
(****************************************************************************)
EXTENDS Integers, Sequences

CONSTANTS RecvLen,      \* USART3_MAX_RECV_LEN
          CheckAt,      \* rounds without a message until the check: 1000
          Polls,        \* polls for an answer: waittime - 1
          MaxEvents     \* bound: messages the WiFi module sends of itself, and
                        \*        bytes lost to USART2's handler

ASSUME WifiAssumption ==
  /\ RecvLen \in Nat \ {0} /\ CheckAt \in Nat \ {0} /\ Polls \in Nat \ {0}
  /\ MaxEvents \in Nat

(* What the module sends: answers, link notices, commands for the robot.     *)
Notices == {<<"NOTE">>, <<"IPD", "AA", "data">>}
Answer(c) == IF c = "AT" THEN {<<"OK">>} ELSE {<<"STATUS:", "OK">>, <<"+CIPSTATUS:", "OK">>}
Tokens == {"OK", "STATUS:", "+CIPSTATUS:", "NOTE", "IPD", "AA", "data", "end"}
Idle3 == "none"

VARIABLES
  STA3,          \* USART3_RX_STA without bit 15
  marked,       \* bit 15: the message is complete
  BUF3,          \* USART3_RX_BUF, and the byte behind it
  TIM7,         \* the timer runs
  isr,          \* the byte USART3's handler has tested for, or Idle3
  out, begun,   \* rest of the message on the line; its first byte was sent
  deaf,         \* the last byte was dropped, so the counter was not reset
  cut,          \* bytes of a message were lost and the buffer was not empty since
  damaged,      \* a byte was stored outside the buffer
  asked,        \* the command the module has not answered, or "none"
  late,         \* a command was given up, or sent before the last was answered
  events,       \* messages sent by the module of itself and bytes lost
  pc, cmd, tries, t, constate, handled

rx == <<STA3, marked, BUF3, TIM7, isr, deaf, cut, damaged>>
module == <<out, begun, asked, events>>
loop == <<pc, cmd, tries, t, constate, handled, late>>
wifiVars == <<rx, module, loop>>

WifiInit ==
  /\ STA3 = 0 /\ marked = FALSE /\ BUF3 = [i \in 0 .. RecvLen |-> "end"]
  /\ TIM7 = FALSE /\ isr = Idle3 /\ deaf = FALSE /\ cut = FALSE /\ damaged = FALSE
  /\ out = <<>> /\ begun = FALSE /\ asked = "none" /\ events = 0
  /\ pc = "loop" /\ cmd = "none" /\ tries = 0 /\ t = CheckAt - 1
  /\ constate = FALSE /\ handled = "none" /\ late = FALSE
-----------------------------------------------------------------------------
(* The module: one message at a time, in bytes without a pause.              *)
Speak ==
  /\ out = <<>> /\ isr = Idle3 /\ begun' = FALSE
  /\ cut' = (cut /\ ~(STA3 = 0 /\ ~marked /\ ~TIM7))
  /\ \/ asked # "none" /\ out' \in Answer(asked) /\ asked' = "none" /\ UNCHANGED events
     \/ events < MaxEvents /\ events' = events + 1 /\ out' \in Notices /\ UNCHANGED asked
  /\ UNCHANGED <<STA3, marked, BUF3, TIM7, isr, deaf, damaged, loop>>

TestOffByOne ==         \* slip: <= for <
  /\ isr = Idle3 /\ out # <<>>
  /\ IF ~marked /\ STA3 <= RecvLen
     THEN isr' = Head(out) /\ UNCHANGED <<marked, deaf, cut, out, begun>>
     ELSE /\ marked' = TRUE /\ cut' = (cut \/ ~marked) /\ deaf' = TRUE
          /\ out' = Tail(out) /\ begun' = TRUE /\ UNCHANGED isr
  /\ UNCHANGED <<STA3, BUF3, TIM7, damaged, asked, events, loop>>

(* USART3_IRQHandler, lines 25 and 27.                                       *)
Uart3Test ==
  /\ isr = Idle3 /\ out # <<>>
  /\ IF ~marked /\ STA3 < RecvLen
     THEN isr' = Head(out) /\ UNCHANGED <<marked, deaf, cut, out, begun>>
     ELSE /\ marked' = TRUE /\ cut' = (cut \/ ~marked) /\ deaf' = TRUE
          /\ out' = Tail(out) /\ begun' = TRUE /\ UNCHANGED isr
  /\ UNCHANGED <<STA3, BUF3, TIM7, damaged, asked, events, loop>>

(* Lines 29-32; with bit 15 set meanwhile the index is beyond 0x8000.        *)
Uart3Store ==
  /\ isr # Idle3 /\ isr' = Idle3
  /\ STA3' = STA3 + 1
  /\ IF marked THEN damaged' = TRUE /\ UNCHANGED <<BUF3, TIM7>>
     ELSE BUF3' = [BUF3 EXCEPT ![STA3] = isr] /\ TIM7' = (TIM7 \/ STA3 = 0) /\ UNCHANGED damaged
  /\ out' = Tail(out) /\ begun' = TRUE /\ deaf' = FALSE
  /\ UNCHANGED <<marked, cut, asked, events, loop>>

(* USART2's handler has the same priority: while it is in MessageHandle,     *)
(* 10 ms and more, bytes are lost and the counter runs on.                   *)
ByteMissed ==
  /\ isr = Idle3 /\ out # <<>> /\ events < MaxEvents /\ events' = events + 1
  /\ out' = Tail(out) /\ begun' = TRUE
  /\ deaf' = TRUE /\ cut' = TRUE
  /\ UNCHANGED <<STA3, marked, BUF3, TIM7, isr, damaged, asked, loop>>

(* 1 ms without a byte that resets the counter.                              *)
TIM7_IRQHandler ==
  /\ TIM7 /\ TIM7' = FALSE /\ marked' = TRUE
  /\ out = <<>> \/ ~begun \/ deaf
  /\ UNCHANGED <<STA3, BUF3, isr, deaf, cut, damaged, module, loop>>
-----------------------------------------------------------------------------
(* The task, in any pause of the handlers.                                   *)
At(l) == pc = l /\ isr = Idle3
Clear == STA3' = 0 /\ marked' = FALSE
ReceivedUnended == 0 .. RecvLen - 1     \* slip: no terminator
Received == {k \in 0 .. STA3 - 1 : k < RecvLen}
Has(tok) == \E k \in Received : BUF3[k] = tok
Terminate == BUF3' = [BUF3 EXCEPT ![STA3] = "end"]

(* *(p+4) follows 0xAA, whatever is there.                                   *)
MessageIn ==
  LET aa == CHOOSE k \in Received : BUF3[k] = "AA" /\ \A j \in Received : j < k => BUF3[j] # "AA"
  IN IF Has("IPD") /\ Has("AA") THEN Terminate /\ handled' = BUF3'[aa + 1]
     ELSE Terminate /\ handled' = "none"

TakeUnmarked ==         \* slip: looks into the buffer before the message is complete
  /\ At("loop") /\ STA3 > 0 /\ pc' = "check"
  /\ MessageIn /\ Clear
  /\ t' = IF constate THEN 0 ELSE CheckAt
  /\ UNCHANGED <<TIM7, isr, deaf, cut, damaged, module, cmd, tries, constate, late>>

(* wifiap.c:55-74                                                            *)
TakeMessage ==
  /\ At("loop") /\ marked /\ pc' = "check"
  /\ MessageIn /\ Clear
  /\ t' = IF constate THEN 0 ELSE CheckAt
  /\ UNCHANGED <<TIM7, isr, deaf, cut, damaged, module, cmd, tries, constate, late>>

TakeNothing ==
  /\ At("loop") /\ ~marked /\ pc' = "check" /\ handled' = "none"
  /\ UNCHANGED <<rx, module, cmd, tries, t, constate, late>>

NoCheck ==
  /\ At("check") /\ t # CheckAt /\ pc' = "end" /\ t' = t + 1
  /\ UNCHANGED <<rx, module, cmd, tries, constate, handled, late>>

(* atk_8266_send_cmd: clears what was received; the module takes a command   *)
(* when it has answered the last one.                                        *)
SendCmd(c) ==
  /\ Clear /\ pc' = "wait" /\ cmd' = c /\ tries' = Polls
  /\ asked' = IF asked = "none" THEN c ELSE asked
  /\ late' = (late \/ asked # "none" \/ (out # <<>> /\ out[Len(out)] = "OK"))

(* atk_8266_quit_trans and its "AT".                                         *)
QuitTrans ==
  /\ At("check") /\ t = CheckAt
  /\ SendCmd("AT")
  /\ UNCHANGED <<BUF3, TIM7, isr, deaf, cut, damaged, out, begun, events, t, constate, handled>>

Checked(connected) ==
  /\ constate' = connected /\ t' = 1 /\ pc' = "end"
  /\ cmd' = "none" /\ tries' = 0
  /\ UNCHANGED handled

(* The acknowledgement of CIPSTATUS is any ":".                              *)
Acknowledged == IF cmd = "AT" THEN Has("OK")
                ELSE Has("STATUS:") \/ Has("+CIPSTATUS:") \/ Has("IPD")

(* One poll of atk_8266_send_cmd.                                            *)
PollAgain ==
  /\ At("wait") /\ ~(marked /\ Acknowledged) /\ tries > 1 /\ tries' = tries - 1
  /\ IF marked THEN Clear /\ Terminate ELSE UNCHANGED <<STA3, marked, BUF3>>
  /\ UNCHANGED <<TIM7, isr, deaf, cut, damaged, module, pc, cmd, t, constate, handled, late>>

GiveUp ==
  /\ At("wait") /\ ~(marked /\ Acknowledged) /\ tries = 1
  /\ IF marked THEN Clear /\ Terminate ELSE UNCHANGED <<STA3, marked, BUF3>>
  /\ late' = TRUE
  /\ IF cmd = "AT" THEN Checked(FALSE) ELSE pc' = "read" /\ tries' = 0 /\ UNCHANGED <<cmd, t, constate, handled>>
  /\ UNCHANGED <<TIM7, isr, deaf, cut, damaged, module>>

AskStatus ==
  /\ At("wait") /\ cmd = "AT" /\ marked /\ Acknowledged
  /\ SendCmd("CIPSTATUS") /\ Terminate
  /\ UNCHANGED <<TIM7, isr, deaf, cut, damaged, out, begun, events, t, constate, handled>>

StatusCame ==
  /\ At("wait") /\ cmd = "CIPSTATUS" /\ marked /\ Acknowledged /\ pc' = "read" /\ tries' = 0
  /\ Terminate
  /\ UNCHANGED <<STA3, marked, TIM7, isr, deaf, cut, damaged, module, cmd, t, constate, handled, late>>

(* Without a status line check_cmd returns a null pointer; *p is then the    *)
(* first byte of the vector table, never '+'.                                *)
ReadStatus ==
  /\ At("read") /\ Checked(marked /\ Has("+CIPSTATUS:"))
  /\ IF marked THEN Terminate ELSE UNCHANGED BUF3
  /\ UNCHANGED <<STA3, marked, TIM7, isr, deaf, cut, damaged, module, late>>

(* atk_8266_at_response(1) drops what was completed since.                   *)
AtResponse ==
  /\ At("end") /\ pc' = "loop"
  /\ IF marked THEN Clear /\ Terminate ELSE UNCHANGED <<STA3, marked, BUF3>>
  /\ UNCHANGED <<TIM7, isr, deaf, cut, damaged, module, cmd, tries, t, constate, handled, late>>

wifi_thread ==
  \/ TakeMessage \/ TakeNothing \/ NoCheck \/ QuitTrans \/ PollAgain \/ GiveUp
  \/ AskStatus \/ StatusCame \/ ReadStatus \/ AtResponse
Uart3 == Uart3Test \/ Uart3Store
WifiNext == Speak \/ Uart3 \/ ByteMissed \/ TIM7_IRQHandler \/ wifi_thread
WifiSpec == WifiInit /\ [][WifiNext]_wifiVars
-----------------------------------------------------------------------------
WifiTypeOK ==
  /\ STA3 \in 0 .. RecvLen /\ BUF3 \in [0 .. RecvLen -> Tokens]
  /\ {marked, TIM7, begun, deaf, cut, damaged, late, constate} \subseteq BOOLEAN
  /\ isr \in Tokens \cup {Idle3} /\ out \in Seq(Tokens)
  /\ asked \in {"none", "AT", "CIPSTATUS"} /\ events \in 0 .. MaxEvents
  /\ pc \in {"loop", "check", "wait", "read", "end"} /\ cmd \in {"none", "AT", "CIPSTATUS"}
  /\ tries \in 0 .. Polls /\ t \in 0 .. CheckAt /\ handled \in Tokens \cup {"none"}

(* The end of a message that has begun to arrive will be marked.             *)
EndWillBeMarked == STA3 > 0 /\ ~marked => TIM7

(* Whatever handler preempts whatever, and whenever the task clears the      *)
(* index: a message that has begun to arrive will be marked, so that the     *)
(* receiver is not deaf until the buffer is full (usart3.c:30); and every    *)
(* message the task hands to MessageHandle is one the module sent as a       *)
(* whole: no piece, nothing left in the buffer by an earlier one, though     *)
(* messages merge (wifiap.c:65).  Only a message that did not fit or lost    *)
(* bytes can be handed over in part, and it harms no message that comes when *)
(* the buffer is empty again.                                                *)
MessagesTaken ==
  /\ []EndWillBeMarked
  /\ [][handled' # handled => handled' \in {"data", "none"} \/ cut \/ damaged]_wifiVars

(* As long as no command is sent before the last is answered or given up, an *)
(* "OK" is the answer to the AT that was sent, and the status that is read   *)
(* the answer to CIPSTATUS (common.c:108), though link notices and commands  *)
(* for the robot come in between and merge with the answers, and whatever    *)
(* bytes were lost before.                                                   *)
AnswerIsOwn ==
  /\ [][~late /\ ~cut /\ ~damaged /\ cmd = "AT" /\ cmd' = "CIPSTATUS" => asked = "none"]_wifiVars
  /\ [][~late /\ ~cut /\ ~damaged /\ constate' /\ ~constate => asked = "none"]_wifiVars
=============================================================================
