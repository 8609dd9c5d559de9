SPECIFICATION Spec
CONSTANTS
  Keys = {k1, k2}
  Workers = {w1, w2}
  NoKey = NoKey
  Retries = 1
  MaxAdds = 3
SYMMETRY Symmetry
INVARIANTS
  TypeOK
  MeasuredOnce
  HandledOnce
  TimesAccounted
  IndInv
\* Calls that add items are bounded: the workers may wait for ever in Get.
CHECK_DEADLOCK FALSE
