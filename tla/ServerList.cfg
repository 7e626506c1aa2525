SPECIFICATION Spec
CONSTANTS
  s1 = s1
  s2 = s2
  s3 = s3
  h1 = h1
  h2 = h2
  Servers = {s1, s2, s3}
  Host <- MCHost
  None = None
  Damaged = Damaged
  Closed = Closed
  MaxEdits = 2
INVARIANTS TypeOK SelectedInList ViewsAgree LatencyOfHost
PROPERTY LatencyArrives
