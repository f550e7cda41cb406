CONSTANTS
  Programs = {"cv", "sem", "rw", "sensor", "db"}
  None = None
  MaxSpurious = 2
  BUFFER_SIZE = 3
  ITERATIONS = 7
  Producers = {p1, p2}
  Consumers = {k1, k2}
  SEM_BUFFER_SIZE = 2
  ITEMS_PER_PRODUCER = 3
  Readers = {r1, r2, r3}
  Writers = {w1, w2}
  num_sensors = 3
  CYCLES = 3
  Records = {rec1, rec2}
  Workers = {w1, w2, w3, w4}
  Target <- SharedRecord
  Mortal = {w1, w2, w3}
  Builds = {"plain", "robust", "global"}
  GlobalMtx = GlobalMtx
  rec1 = rec1
  rec2 = rec2
SPECIFICATION SyncSpec
INVARIANTS TypeOK WaitJustified WriterAlone WakeupsSuffice NoTornRead RecordsConsistent
PROPERTIES ImplementsBoundedQueue SemImplementsBoundedQueue SyncProgress
CHECK_DEADLOCK FALSE
