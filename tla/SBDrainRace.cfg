\* A drain against a delivery.
SPECIFICATION Spec
CONSTANTS
  q = q
  t = t
  s1 = s1
  s2 = s2
  r1 = r1
  r2 = r2
  p1 = p1
  c1 = c1
  c2 = c2
  h1 = h1
  h2 = h2
  h3 = h3
  None = None
  Address = {q}
  Subscription = {}
  TopicOf <- NoTopics
  Spot <- TwoHandles
  AddressOf <- OneQueue
  Receiver = {r1, r2}
  Sender = {p1}
  Conn = {c1}
  Handle = {h1, h2, h3}
  MaxMsg = 2
  MaxCredit = 1
  Outcome = {}
  ReuseHandles = FALSE
PROPERTIES
  NoDeliveryAfterDrain
CHECK_DEADLOCK FALSE
