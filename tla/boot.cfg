CONSTANT MaxBoots = 5
SPECIFICATION FairSpec
INVARIANT TypeOK
INVARIANT AlarmNotMissed
INVARIANT MarkerSealsCopies
PROPERTY AlarmMeansFailures
PROPERTY EditsSurvive
PROPERTY ImplementsAlarm
PROPERTY BootFinishes
CHECK_DEADLOCK FALSE
