SPECIFICATION WSFairSpec
CONSTANT MaxCalls = 3
INVARIANTS WSTypeOK
PROPERTIES KeepsContract  JobsComeBack
