SPECIFICATION ConsumerSpec
CONSTANTS
  Events = 2
  MaxLate = 1
INVARIANT
  AckedWasPersisted
PROPERTIES
  DeliverySurvivesClose
  EveryEventPersisted
