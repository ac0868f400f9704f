SPECIFICATION Spec
CONSTANTS
  a1 = a1  a2 = a2  r1 = r1  r2 = r2  r3 = r3  g1 = g1  g2 = g2  p1 = p1  p2 = p2  p3 = p3  q1 = q1
  Instances = {1, 2}
  Actions = {a1, a2}
  Reactions = {r1, r2, r3}
  Getters = {g1, g2}
  PushPorts = {p1, p2, p3}
  PullPorts = {q1}
  Home <- HomeDef
  Programs <- ProgramsDef
INVARIANTS SetsAreExact LinkedExact RecursionRejected ConcurrentUpdatesRejected
CHECK_DEADLOCK FALSE
