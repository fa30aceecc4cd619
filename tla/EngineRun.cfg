SPECIFICATION EngineSpec
CONSTANTS
  w1 = w1  w2 = w2  v1 = v1  v2 = v2
  Worker = {w1, w2}
  Word = {v1, v2}
  PageNo = {1, 2, 3}
  Weight <- Weights
  Handles <- Shares
  MAX_URLS = 2
  QueryFails = TRUE
  Sentence <- Sentences
  StopWord = {v2}
  Param <- Params
  MaxRequests = 2
  DEFAULT_RESULTS_PER_PAGE = 2
  MAX_RESULTS_PER_PAGE = 2
INVARIANTS IndexInv RowsKeepTheBest RowsReadAreFresh IndexedPagesAreFound AnswersAreAsAsked
CHECK_DEADLOCK FALSE
