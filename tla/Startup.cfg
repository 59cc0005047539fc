\* 12 bits hold powers of ten up to 10^3, as 64 bits do up to 10^19.
CONSTANTS
  None = None
  Hosts = {h1, h2}
  BadHost = BadHost
  Ports = {port1, port2}
  Passwords = {pw1, pw2}
  Hidden = Hidden
  Sockets = {sock}
  h1 = h1
  h2 = h2
  port1 = port1
  port2 = port2
  pw1 = pw1
  pw2 = pw2
  sock = sock
  Width = 12
  Clis <- AllClis
  Versions <- SomeVersions
  MAX_NUM_QUEUES = 10000
  MAX_WORKERS_PER_TRIAL = 200000
SPECIFICATION Spec
INVARIANTS
  ContactIsPrepared
  ServerIsAsAsked
  VerificationIsAsAsked
  FlushIsWarned
  OutputIsAsAsked
  SpecsReadAsDecimals
