\* A body of three bytes read by two or one at a time, and a stop with two
\* downloads, two attempts each and room for one event.
CONSTANTS
  Body = 3
  BufferSizes = {1, 2}
  IdleTimeout = 2
  d1 = d1
  d2 = d2
  Downloads = {d1, d2}
  QueueSize = 1
  MaxRuns = 2
SPECIFICATION EdgesSpec
INVARIANTS
  BodyHandedOver 
PROPERTIES
  LateBytesDropped ReadReturns
CHECK_DEADLOCK FALSE
