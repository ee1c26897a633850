\* Two threads; a put begins when up to 3 blobs are stored, up to 2 in the part
\* where writes may be short.
SPECIFICATION MCSpec
CONSTANTS
  t1 = t1
  t2 = t2
  a = a
  b = b
  c = c
  Thread <- MCThread
  Cell <- MCCell
  Data <- MCData
  NoCall = NoCall
  NoThread = NoThread
  Junk = Junk
  MaxBlobs = 3
  WriteMayFail = FALSE
INVARIANTS TypeOK RecordsContiguous
PROPERTIES ImplementsBlobStore MutexReleased BlobsSurviveShortWrites
