CONSTANTS
  N = 2
  Proc = {p1, p2}
  MaxRequests = 4
  MaxFaults = 1
SPECIFICATION FairSpec
INVARIANTS TypeOK UploadedIsStored CountIsExact CompletedHasFile
PROPERTIES PublishesWholeFiles AssemblySettles
CHECK_DEADLOCK FALSE
