SPECIFICATION BenchSpec
CONSTANTS
  num_ops = 5
  batch_size = 2
  Latencies = {1499, 1500, 2500}
  NoResult = NoResult
INVARIANTS
  BenchTypeOK
  ResponseComplete
  PercentilesRight
