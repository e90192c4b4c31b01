SPECIFICATION Spec
INVARIANTS
  TypeOK
  DevicesKept DefinitionsFit DataArrives ProcessorsApart AskedInTime
CHECK_DEADLOCK FALSE
