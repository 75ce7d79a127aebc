\* A topic with two subscriptions; their receivers at one handle, also while it is in use, against
\* the abstract relay.
SPECIFICATION Spec
CONSTANTS
  q = q
  t = t
  s1 = s1
  s2 = s2
  r1 = r1
  r2 = r2
  p1 = p1
  c1 = c1
  c2 = c2
  h1 = h1
  h2 = h2
  h3 = h3
  None = None
  Address = {t, s1, s2}
  Subscription = {s1, s2}
  TopicOf <- TwoSubscriptions
  Spot <- OneHandle
  AddressOf <- OneTopic
  Receiver = {r1, r2}
  Sender = {p1}
  Conn = {c1}
  Handle = {h1, h2}
  MaxMsg = 1
  MaxCredit = 1
  Outcome = {"released"}
  ReuseHandles = TRUE
PROPERTIES
  FanOut
  RelaySpec
CHECK_DEADLOCK FALSE
