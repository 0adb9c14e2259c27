CONSTANTS
  s1 = s1
  s2 = s2
  c1 = c1
  p1 = p1
  p2 = p2
  Created = {s1}
  Clones = {}
  Prompts = {p1}
  Abortable = {s1, p1}
  MicrotaskAborts = TRUE
  Source <- MCSource
  On <- MCOn
SPECIFICATION Spec
CHECK_DEADLOCK FALSE
INVARIANT
  NoPageSessionLeaks
