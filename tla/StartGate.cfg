CONSTANT Planned = 3
SPECIFICATION Spec
INVARIANTS NoEarlyMeasurement OkMeansFullConcurrency NoLostWakeup NoThreadOutlivesPool
PROPERTY ImplementsContract
