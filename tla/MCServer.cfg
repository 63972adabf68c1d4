SPECIFICATION Spec
CONSTANTS
  c1 = c1
  c2 = c2
  Conn = {c1, c2}
  NoConn = NoConn
  Requests <- MCRequests
INVARIANTS TypeOK OneAnswer StreamComplete CountedBeforeSeen
PROPERTY Answered
