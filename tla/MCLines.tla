------------------------------- MODULE MCLines -------------------------------
(* Four lines side by side: USART2, USART6, Ethernet in, Ethernet out; each  *)
(* behaviour follows one of them.  What they do to one another, bytes missed *)
(* while a handler of the same priority is in MessageHandle, is part of each *)
(* line's model.                                                             *)
EXTENDS UsartFrame, ImuReceiver, EthRings

VARIABLE port
lines == <<port, frameVars, imuVars, ethVars>>

H == 7
MCBytes == {0, 1, H}
MCFrames == {<<H, 0, 0, 0, 0, 0>>, <<H, 0, 1, 0, 1, 1, 1>>, <<H, 1, 1, 1, 1, H, 0>>}
MCTypes == <<1, 2, 3>>
MCPayload == {3, 5}

Init ==
  /\ port \in {"usart2", "usart6", "rx", "tx"}
  /\ FrameInit /\ ImuInit /\ EthInit
  /\ port # "usart2" => at = 1 /\ Len(frame) = EXTERN_BUFSIZE
  /\ port # "usart6" => sentAt = 1 /\ angle = MARK
  /\ rxBuf[0] = 1

Usart2 == port = "usart2" /\ UNCHANGED <<port, imuVars, ethVars>>
Usart6 == port = "usart6" /\ UNCHANGED <<port, frameVars, ethVars>>
EthRx == port = "rx" /\ UNCHANGED <<port, frameVars, imuVars>>
EthTx == port = "tx" /\ UNCHANGED <<port, frameVars, imuVars>>

Next ==
  \/ Usart2 /\ FrameNext
  \/ Usart6 /\ ImuNext
  \/ EthRx /\ RxNext
  \/ EthTx /\ TxNext

(* A behaviour never leaves its line, so one condition for all lines is one  *)
(* for each.  The peers go on sending, and so does the DMA; no handler and   *)
(* no task is held up for ever.  Nothing makes lwIP send.                    *)
Outside ==
  \/ Usart2 /\ USART_IRQHandler
  \/ Usart6 /\ USART6_IRQHandler
  \/ EthRx /\ FrameReceived
  \/ EthTx /\ FrameSent
Inside ==
  \/ Usart2 /\ (MessageHandleReturns \/ HeldByte)
  \/ Usart6 /\ MPU6050_thread
  \/ EthRx /\ Handler
  \/ EthTx /\ (Own \/ Resume)
Spec == Init /\ [][Next]_lines /\ WF_lines(Outside) /\ WF_lines(Inside)

(* The lines keep their types: no index leaves its buffer or ring.           *)
LinesTypeOK == FrameTypeOK /\ ImuTypeOK /\ EthTypeOK

(* Each line comes back to work whatever was lost on it: FrameRecovers,      *)
(* AngleReturns, RxGoesOn and TxGoesOn, each on its own line.                *)
LinesGoOn ==
  /\ port = "usart2" => FrameRecovers
  /\ port = "usart6" => AngleReturns
  /\ port = "rx" => RxGoesOn
  /\ port = "tx" => TxGoesOn
=============================================================================
