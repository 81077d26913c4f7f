CONSTANTS
  Clients = {"c1", "c2"}
  Buffers = {b1, b2, b3}
  Small = {b1, b2}
SPECIFICATION PoolSpec
CHECK_DEADLOCK FALSE
INVARIANTS Verbatim
