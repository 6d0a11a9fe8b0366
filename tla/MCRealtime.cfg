SPECIFICATION RealtimeSpec
CONSTANTS
  m1 = m1
  m2 = m2
  r1 = r1
  r2 = r2
  r3 = r3
  s1 = s1
  here = here
  there = there
  All = All
  Key = {m1, m2}
  Publication = {r1, r2, r3}
  KeyOf <- MCKeyOf
  Stream = {s1}
  TopicOf <- MCTopicOf
  Process = {here, there}
  Home <- MCHome
  QueueLimit = 1
  RecentLimit = 1
  PollLimit = 2
  MaxFlips = 1
INVARIANTS
  StreamIsSound
PROPERTIES
  NewestArrives
CHECK_DEADLOCK FALSE
