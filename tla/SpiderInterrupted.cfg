SPECIFICATION StoppedSpec
CONSTANTS
  c1 = c1  c2 = c2  p1 = p1  p2 = p2
  u1 = u1  u2 = u2  u3 = u3  u4 = u4
  NoUrl = NoUrl  NoPage = NoPage  NoOne = NoOne
  Crawler = {c1}  Parser = {p1}
  Url = {u1, u2}
  UrlNums = 2  HtmlNums = 2
  StartLines <- OneStart
  ReadLines <- OneLine
  Links <- Web
  SlotLinks <- SlotWeb
  Answers = {u1, u2}
  Fails = {u2}
  FdLimit = 1
  ReadUrlFails = TRUE  WriteUrlFails = TRUE  IndexFails = TRUE
INVARIANT HtmlInv
PROPERTY StopEndsEveryWorker
CHECK_DEADLOCK FALSE
