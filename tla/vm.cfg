CONSTANTS
  p1 = p1
  p2 = p2
  data = data
  Proc = {p1, p2}
  Text = {text}
  Data = {data}
  Stack = stack
  Grown = {grown}
  Machine <- MCMachine
SPECIFICATION FairSpec
INVARIANTS TablesAgree NoStaleReload Transparent
PROPERTIES FaultEnds
