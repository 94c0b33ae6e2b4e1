\* Three threads of one process append and prune; it crashes.
SPECIFICATION AuditSpec
CONSTANTS
  a = a  b = b  c = c  h1 = h1  h2 = h2
  Thread = {a, b, c}
  Host = {h1}
  HostOf <- MCOneHost
  MaxEntries = 6
SYMMETRY ThreadSymmetry
INVARIANTS ChainVerifies TrimsAreAttested
