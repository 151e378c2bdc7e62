CONSTANTS
  Requests = {r1, r2}
  Slots = 1
  a1 = a1
  c1 = c1
  g1 = g1
  g2 = g2
  rev1 = rev1
  rev2 = rev2
  q1 = q1
  q2 = q2
  s1 = s1
  s2 = s2
  None = None
SPECIFICATION EndsSpec
PROPERTIES
  SessionsEnd
  QuestionsEnd
  RequestsEnd
  Finishes
CHECK_DEADLOCK FALSE
