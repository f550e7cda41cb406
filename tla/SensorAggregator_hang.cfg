CONSTANTS
  Programs = {"sensor"}
  None = None
  MaxSpurious = 0
  BUFFER_SIZE = 1
  ITERATIONS = 1
  Producers = {p1}
  Consumers = {k1}
  SEM_BUFFER_SIZE = 1
  ITEMS_PER_PRODUCER = 1
  Readers = {r1}
  Writers = {w1}
  num_sensors = 2
  CYCLES = 5
  Records = {rec1, rec2}
  Workers = {w1}
  Target <- SharedRecord
  Mortal = {}
  Builds = {"plain"}
  GlobalMtx = GlobalMtx
  rec1 = rec1
  rec2 = rec2
SPECIFICATION SyncSpec
PROPERTY SensorsEnd
CHECK_DEADLOCK FALSE
