SPECIFICATION Spec
CONSTANTS
  c1 = c1  c2 = c2  p1 = p1  p2 = p2
  u1 = u1  u2 = u2  u3 = u3  u4 = u4
  NoUrl = NoUrl  NoPage = NoPage  NoOne = NoOne
  Crawler = {c1}  Parser = {p1}
  Url = {u1, u2}
  UrlNums = 3  HtmlNums = 2
  StartLines <- TwoStarts
  ReadLines <- NoLines
  Links <- Web
  SlotLinks <- SlotWeb
  Answers = {u1, u2}
  Fails = {u2}
  FdLimit = 9
  ReadUrlFails = FALSE  WriteUrlFails = FALSE  IndexFails = FALSE
PROPERTY DeletesFromNonEmptyRing
CHECK_DEADLOCK FALSE
