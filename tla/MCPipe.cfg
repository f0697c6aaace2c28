CONSTANTS
  Reader = {r1, r2}
  Writer = {w1, w2}
  Killable = {r1, w1}
  PIPESIZE = 2
  Word = 4
  NoByte = NoByte
  MaxCall = 3
  MaxBytes <- BytesOf
  w1 = w1
SPECIFICATION LiveSpec
INVARIANTS PipeInv
PROPERTIES ImplementsByteStream CallsEnd
CHECK_DEADLOCK FALSE
