\* Two processes append to one database.
SPECIFICATION AuditSpec
CONSTANTS
  a = a  b = b  c = c  h1 = h1  h2 = h2
  Thread = {a, b}
  Host = {h1, h2}
  HostOf <- MCTwoHosts
  MaxEntries = 3
INVARIANTS ChainVerifies
