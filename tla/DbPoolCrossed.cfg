SPECIFICATION Spec
CONSTANTS
  Thread = {t1, t2}
  Conn = {k1, k2, k3, k4, k5}
  NoOne = NoOne  Stranger = Stranger
  MAX_CONN = 3  MAX_IDLE = 2  MIN_IDLE = 1
  Nesting = 2
  ConnectFails = FALSE
INVARIANT NeverCrossed
CHECK_DEADLOCK FALSE
