SPECIFICATION Spec
CONSTANTS
  d1 = d1
  d2 = d2
  long = long
  plain = plain
  text = text
  image = image
  u1 = u1
  u2 = u2
  w1 = w1
  w2 = w2
  p1 = p1
  p2 = p2
  g1 = g1
  g2 = g2
  g3 = g3
  None = None
  Calls = {d1, d2, long, plain, text, image}
  Words = {w1, w2}
  Word <- MCWord
  Parts = {p1, p2}
  Holder <- MCHolder
  Shape <- MCShape
  Plans <- MCPlans
  Guilds = {g1, g2, g3}
  Home = g1
  FaultKinds = {"drive", "torn", "send", "answer", "defer", "sync"}
  MaxStores = 2
  MaxVersion = 2
  MaxFaults = 1
  MaxBoots = 1
CHECK_DEADLOCK FALSE
INVARIANTS TypeOK FoundInCalm OneReply Truthful
PROPERTIES Answered ServedUnlessMissed
