CONSTANTS
  MaxValue = 10
  Tops = {1}
  Targets = {3}
  Curves <- Growing
SPECIFICATION Spec
INVARIANT ReportsTheClosest
