CONSTANTS
  Nodes <- MCNodes
  Keys <- MCKeys
  Slots <- MCSlots
  SlotOf <- MCSlotOf
  MaxMigrations = 2
  KeyLimits = {2, 3}
  Runs = {r1, r2}
  MaxFails = 2
  MaxOps = 2
SPECIFICATION MCSpec
INVARIANTS CountIsSound VerdictIsOwn
SYMMETRY RunSymmetry
