SPECIFICATION Spec
CONSTANTS
  Job = {j1, j2}
  j1 = j1
  j2 = j2
  Model = {base, quantized}
  base = base
  quantized = quantized
  Start <- MCStart
  Variant <- MCVariant
  NoJob = NoJob
  MaxActs = 3
CHECK_DEADLOCK FALSE
INVARIANTS EngineSafety
PROPERTIES SlotFollowsSelection JobsEnd
