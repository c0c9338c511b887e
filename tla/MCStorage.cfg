CONSTANTS
  Id = {i1, i2, i3}
  Task = {t1, t2, t3}
  Converter = {k1}
  NoTask = NoTask
  NoId = NoId
  NoOne = NoOne
  CaptureMax = 1
  PcapMax = 2
  StoredMax = 4
  RecordMax = 2
SPECIFICATION Spec
INVARIANTS
  TypeOK
  RecordQuota
  ByteQuota
  BoundedExcess
PROPERTIES
  NeverOverwritten
  OwnPartialOnly
SYMMETRY Symmetry
