CONSTANTS
  Id = {i1, i2}
  Task = {t1, t2}
  Converter = {k1}
  Reader = {r1}
  NoTask = NoTask
  NoId = NoId
  NoOne = NoOne
  CaptureMax = 1
  PcapMax = 2
  StoredMax = 4
  RecordMax = 2
SPECIFICATION FairReaderSpec
INVARIANTS
  OpenedIsPublished
PROPERTIES
  PublicationEnds
