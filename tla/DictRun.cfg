SPECIFICATION TablesSpec
CONSTANTS
  a1 = a1  a2 = a2  d1 = d1  d2 = d2  v1 = v1  v2 = v2  v3 = v3  busy = busy
  w1 = w1  w2 = w2  u1 = u1  u2 = u2  p1 = p1  p2 = p2
  Admin = {a1, a2}
  Name = {d1, d2}
  Word = {v1, v2, v3}
  Status = {busy}
  Books <- BooksOfTwo
  Batch = 2
  MaxJobs = 3
  StatementsFail = TRUE
  Worker = {w1, w2}
  Url = {u1, u2}
  Version = {p1, p2}
  Nice = {0, 12}
  MaxCalls = 3
  MaxFailures = 2
SYMMETRY Alike
INVARIANTS TypeOK RegisteredDictionariesExist LoadedDictionariesAreRegistered LoadedTablesAreComplete StrategiesAreApart PagesAreWhole NumbersAreKept NicesAreObeyed
CHECK_DEADLOCK FALSE
