SPECIFICATION Spec
CONSTANTS
  Incident = {i1}
  Writer = w
  Other = o
  NoPid = NoPid
  MaxGen = 2
  Backends = {"iptables", "off", "pfctl"}
CHECK_DEADLOCK FALSE
INVARIANTS FirstResponseSpares
