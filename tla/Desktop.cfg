CONSTANTS
  Slots = {s1, s2, s3}
  NoTask = NoTask
SYMMETRY SlotSymmetry
CONSTRAINT TwoStart
SPECIFICATION Spec
INVARIANTS TypeOK AuthedIsPersisted AuthedHasClient OneQrTask BusyIsFreed
