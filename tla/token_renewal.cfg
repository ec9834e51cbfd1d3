\* Two processes renew while the token is replaced and its TTL is edited.
SPECIFICATION Spec
CONSTANTS
  o1 = o1
  o2 = o2
  Operator = {o1, o2}
  TTLs = {6, 9}
  Window = 2
  Latency = 1
INVARIANTS TypeOK NeverExpires ClaimHonest
