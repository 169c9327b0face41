CONSTANTS
  MaxValue = 10
  Tops = {1, 2, 5, 9, 10, 11}
  Targets = {1, 2, 3}
  Curves <- MCCurves
SPECIFICATION Spec
INVARIANTS Bracket NoPointTwice ReportsTheCrossing
