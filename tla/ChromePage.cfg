CONSTANTS
  s1 = s1
  s2 = s2
  c1 = c1
  p1 = p1
  p2 = p2
  Created = {s1, s2}
  Clones = {c1}
  Prompts = {p1, p2}
  Abortable = {s1, p1}
  MicrotaskAborts = FALSE
  Source <- MCSource
  On <- MCOn
SPECIFICATION DeliverySpec
CHECK_DEADLOCK FALSE
INVARIANTS
  HostSessionIsBacked
  NoPageSessionLeaks
  CallsGoOn
PROPERTIES
  PromptsKeepTheirTime
  PageWorkEnds
