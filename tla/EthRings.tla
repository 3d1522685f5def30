------------------------------- MODULE EthRings -------------------------------
(****************************************************************************)
(* The rings of descriptors the CPU shares with the Ethernet DMA            *)
(* (HARDWARE/ETHERNET/lan8720.c, lwip/netif/ethernetif.c): the handler of   *)
(* the receive interrupt takes frames from one, tcpip_thread puts frames    *)
(* into the other, and the DMA works on both meanwhile.                     *)
(*                                                                          *)
(* A frame fills one descriptor: the MAC drops giant frames and frames with *)
(* an error (lan8720.c:156).  A suspended receiver looks at its descriptor  *)
(* again with the next frame, a suspended transmitter when it is told to.   *)
(****************************************************************************)
EXTENDS Integers, Sequences, FiniteSets

CONSTANTS EthFrames,    \* frames
          RxNb, TxNb    \* ETH_RXBUFNB, ETH_TXBUFNB (5)

ASSUME EthAssumption == RxNb \in Nat \ {0, 1} /\ TxNb \in Nat \ {0} /\ EthFrames # {}

VARIABLES
  rxOwn, rxBuf,         \* descriptor -> it is the DMA's; the frame in its buffer
  rxCur,                \* the DMA's descriptor
  DMARxDescToGet,
  R,                    \* the status bit of the receive interrupt
  eth,                  \* the handler: "out", "test", "alloc", "give", "clear"
  input,                \* the frames tcpip_input was given since the handler's last test
  txOwn, txBuf, txCur,
  DMATxDescToSet,
  TBUS,                 \* the transmitter is suspended
  output,               \* tcpip_thread: "out", "copied", "owned"
  accepted,             \* descriptor -> the frame ETH_Tx_Packet accepted for it
  overwritten           \* descriptors that were the DMA's when their buffer was written

rxVars == <<rxOwn, rxBuf, rxCur, DMARxDescToGet, R, eth, input>>
txVars == <<txOwn, txBuf, txCur, DMATxDescToSet, TBUS, output, accepted, overwritten>>
ethVars == <<rxVars, txVars>>

RxRing == 0 .. RxNb - 1
TxRing == 0 .. TxNb - 1
NextRx(d) == (d + 1) % RxNb
NextTx(d) == (d + 1) % TxNb

EthInit ==
  /\ rxOwn = [d \in RxRing |-> TRUE] /\ rxBuf \in [RxRing -> EthFrames]
  /\ \A d \in RxRing : rxBuf[d] = rxBuf[0]
  /\ rxCur = 0 /\ DMARxDescToGet = 0 /\ R = FALSE /\ eth = "out" /\ input = <<>>
  /\ txOwn = [d \in TxRing |-> FALSE]
  /\ \E f \in EthFrames : txBuf = [d \in TxRing |-> f] /\ rxBuf[0] = f
  /\ txCur = 0 /\ DMATxDescToSet = 0 /\ TBUS = TRUE /\ output = "out"
  /\ accepted = txBuf /\ overwritten = {}
-----------------------------------------------------------------------------
(* The DMA stores a frame, or misses it if its descriptor is not its own.    *)
(* The handler is done with "clear" before a second frame can follow.        *)
FrameReceived ==
  /\ rxOwn[rxCur]
  /\ eth = "clear" => rxOwn[DMARxDescToGet]
  /\ \E f \in EthFrames : rxBuf' = [rxBuf EXCEPT ![rxCur] = f]
  /\ rxOwn' = [rxOwn EXCEPT ![rxCur] = FALSE]
  /\ rxCur' = NextRx(rxCur) /\ R' = TRUE
  /\ UNCHANGED <<DMARxDescToGet, eth, input, txVars>>

ETH_IRQHandler ==
  /\ eth = "out" /\ R
  /\ eth' = "test"
  /\ UNCHANGED <<rxOwn, rxBuf, rxCur, DMARxDescToGet, R, input, txVars>>

(* ETH_GetRxPktSize, and ETH_Rx_Packet which takes the descriptor.           *)
Rx_Packet ==
  /\ eth = "test"
  /\ IF rxOwn[DMARxDescToGet]
     THEN eth' = "clear" /\ UNCHANGED DMARxDescToGet
     ELSE eth' = "alloc" /\ DMARxDescToGet' = NextRx(DMARxDescToGet)
  /\ input' = <<>>
  /\ UNCHANGED <<rxOwn, rxBuf, rxCur, R, txVars>>

Taken == CHOOSE d \in RxRing : NextRx(d) = DMARxDescToGet

GivesFirst ==           \* slip: the descriptor is given back before the copy
  /\ \/ eth = "alloc" /\ rxOwn' = [rxOwn EXCEPT ![Taken] = TRUE] /\ eth' = "give"
        /\ UNCHANGED input
     \/ eth = "give" /\ input' = <<rxBuf[Taken]>> /\ eth' = "test" /\ UNCHANGED rxOwn
  /\ UNCHANGED <<rxBuf, rxCur, DMARxDescToGet, R, txVars>>

(* low_level_input: the frame is copied, or dropped when there is no pbuf;   *)
(* then the descriptor is the DMA's again.  tcpip_input may drop the frame.  *)
LowLevelInput ==
  /\ \/ eth = "alloc" /\ eth' = "give" /\ UNCHANGED rxOwn
        /\ \/ input' = <<rxBuf[Taken]>>
           \/ UNCHANGED input
     \/ eth = "give" /\ eth' = "test" /\ UNCHANGED input
        /\ rxOwn' = [rxOwn EXCEPT ![Taken] = TRUE]
  /\ UNCHANGED <<rxBuf, rxCur, DMARxDescToGet, R, txVars>>

ClearITPendingBits ==
  /\ eth = "clear"
  /\ R' = FALSE /\ eth' = "out"
  /\ UNCHANGED <<rxOwn, rxBuf, rxCur, DMARxDescToGet, input, txVars>>

Handler == ETH_IRQHandler \/ Rx_Packet \/ LowLevelInput \/ ClearITPendingBits
-----------------------------------------------------------------------------
(* low_level_output copies the frame before ETH_Tx_Packet looks whether the  *)
(* descriptor is free.                                                       *)
Copy ==
  /\ output = "out"
  /\ \E f \in EthFrames : txBuf' = [txBuf EXCEPT ![DMATxDescToSet] = f]
  /\ overwritten' = IF txOwn[DMATxDescToSet] THEN overwritten \cup {DMATxDescToSet}
                    ELSE overwritten
  /\ output' = "copied"
  /\ UNCHANGED <<rxVars, txOwn, txCur, DMATxDescToSet, TBUS, accepted>>

OwnUntested ==          \* slip: ETH_Tx_Packet does not look at OWN
  /\ output = "copied" /\ output' = "owned"
  /\ txOwn' = [txOwn EXCEPT ![DMATxDescToSet] = TRUE]
  /\ accepted' = [accepted EXCEPT ![DMATxDescToSet] = txBuf[DMATxDescToSet]]
  /\ overwritten' = overwritten \ {DMATxDescToSet}
  /\ UNCHANGED <<rxVars, txBuf, txCur, DMATxDescToSet, TBUS>>

Own ==
  /\ output = "copied"
  /\ IF txOwn[DMATxDescToSet]
     THEN output' = "out" /\ UNCHANGED <<txOwn, accepted, overwritten>>
     ELSE /\ output' = "owned"
          /\ txOwn' = [txOwn EXCEPT ![DMATxDescToSet] = TRUE]
          /\ accepted' = [accepted EXCEPT ![DMATxDescToSet] = txBuf[DMATxDescToSet]]
          /\ overwritten' = overwritten \ {DMATxDescToSet}
  /\ UNCHANGED <<rxVars, txBuf, txCur, DMATxDescToSet, TBUS>>

Resume ==
  /\ output = "owned" /\ output' = "out"
  /\ TBUS' = FALSE
  /\ DMATxDescToSet' = NextTx(DMATxDescToSet)
  /\ UNCHANGED <<rxVars, txOwn, txBuf, txCur, accepted, overwritten>>

LowLevelOutput == Copy \/ Own \/ Resume

(* The DMA sends the frame in its descriptor, or suspends itself.            *)
FrameSent ==
  /\ ~TBUS
  /\ IF txOwn[txCur]
     THEN /\ txOwn' = [txOwn EXCEPT ![txCur] = FALSE]
          /\ txCur' = NextTx(txCur)
          /\ overwritten' = overwritten \ {txCur} /\ UNCHANGED TBUS
     ELSE TBUS' = TRUE /\ UNCHANGED <<txOwn, txCur, overwritten>>
  /\ UNCHANGED <<rxVars, txBuf, DMATxDescToSet, output, accepted>>

RxNext == FrameReceived \/ Handler
TxNext == LowLevelOutput \/ FrameSent
EthNext == RxNext \/ TxNext
EthSpec == EthInit /\ [][EthNext]_ethVars
-----------------------------------------------------------------------------
EthTypeOK ==
  /\ rxOwn \in [RxRing -> BOOLEAN] /\ rxBuf \in [RxRing -> EthFrames]
  /\ rxCur \in RxRing /\ DMARxDescToGet \in RxRing
  /\ R \in BOOLEAN /\ eth \in {"out", "test", "alloc", "give", "clear"}
  /\ input \in Seq(EthFrames)
  /\ txOwn \in [TxRing -> BOOLEAN] /\ txBuf \in [TxRing -> EthFrames]
  /\ txCur \in TxRing /\ DMATxDescToSet \in TxRing /\ TBUS \in BOOLEAN
  /\ output \in {"out", "copied", "owned"}
  /\ accepted \in [TxRing -> EthFrames] /\ overwritten \subseteq TxRing

(* Frames that wait in the receive ring, oldest first: from DMARxDescToGet   *)
(* on, but for the one the handler is at.                                    *)
Full == {d \in RxRing : ~rxOwn[d]}
Waiting ==
  LET held == IF eth \in {"alloc", "give"} THEN 1 ELSE 0
  IN [k \in 1 .. Cardinality(Full) - held |-> rxBuf[(DMARxDescToGet + k - 1) % RxNb]]

(* Whatever the DMA receives while the handler runs: frames reach lwIP in    *)
(* the order they came, each once and as it was received, or are dropped for *)
(* want of a pbuf; none is passed over in the ring (lan8720.c:211).          *)
RxInOrder ==
  [][/\ \/ Waiting' = Waiting
        \/ \E f \in EthFrames : Waiting' = Append(Waiting, f)
        \/ Waiting # <<>> /\ Waiting' = Tail(Waiting) /\ eth' = "alloc"
     /\ input' # input /\ input' # <<>> => input' = <<rxBuf[Taken]>> /\ ~rxOwn[Taken]]_rxVars

(* The ring is given back whatever becomes of the frames: as long as frames  *)
(* come the handler goes on passing them on, though a frame that arrives     *)
(* between its last test and lan8720.c:180 waits for the next one.  (With    *)
(* all descriptors filled in that window there would be no next one.)        *)
RxGoesOn == []<>(eth = "alloc")

(* The DMA's descriptors are the next n the transmitter comes to, and        *)
(* tcpip_thread writes behind them.                                          *)
SendOrder ==
  \E n \in 0 .. TxNb :
    /\ {d \in TxRing : txOwn[d]} = {(txCur + k) % TxNb : k \in 0 .. n - 1}
    /\ (IF output = "owned" THEN NextTx(DMATxDescToSet) ELSE DMATxDescToSet) = (txCur + n) % TxNb

(* What the DMA is to send is what ETH_Tx_Packet accepted for its            *)
(* descriptor, and in that order, unless lwIP had a frame to send while all  *)
(* of the ring was full: that frame, although refused, takes the place of    *)
(* the oldest (ethernetif.c:50-57).                                          *)
TxAsAccepted ==
  /\ SendOrder
  /\ \A d \in TxRing : txOwn[d] /\ d \notin overwritten => txBuf[d] = accepted[d]
  /\ overwritten \subseteq {DMATxDescToSet} /\ (overwritten # {} => \A d \in TxRing : txOwn[d])

(* A frame accepted is sent: the transmitter does not stay suspended with    *)
(* frames in its ring (lan8720.c:225-229).                                   *)
TxGoesOn == \A d \in TxRing : txOwn[d] ~> ~txOwn[d]
=============================================================================
