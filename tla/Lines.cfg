SPECIFICATION Spec
CONSTANTS
  Bytes <- MCBytes
  HEAD = 7
  Frames <- MCFrames
  RxLen = 8
  Memory = 13
  NoByte = NoByte
  MaxDropped = 2
  MARK = 5
  Types <- MCTypes
  Payload <- MCPayload
  PacketLen = 3
  MaxMissed = 1
  EthFrames = {1, 2}
  RxNb = 3
  TxNb = 3
INVARIANTS  FrameHandled TxAsAccepted
PROPERTIES WindowDecoded RxInOrder LinesGoOn
