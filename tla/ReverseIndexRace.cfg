SPECIFICATION Spec
CONSTANTS
  w1 = w1  w2 = w2  v1 = v1  v2 = v2
  Worker = {w1, w2}
  Word = {v1, v2}
  PageNo = {1, 2, 3, 4}
  Weight <- Weights
  Handles <- Shares
  MAX_URLS = 4
  QueryFails = FALSE
INVARIANT NoPageForgotten
CHECK_DEADLOCK FALSE
