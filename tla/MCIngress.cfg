SPECIFICATION IngressSpec
CONSTANTS
  Projects = {p1}
  Domains = {d1, d2}
  Targets = {t1, t2}
  Flows = {f1, f2}
  Ports = {q1}
  Jobs = {j1, j2}
  NoOne = NoOne
  App = App
  NoFile = NoFile
  EnvDomains = {NoOne, d1}
  MaxOps = 2
  MaxFaults = 1
SYMMETRY Symmetries
INVARIANTS
  ServesAsConfigured
  DiskIsLive
  FileSound
  CertsBehindHttps
  UpstreamsReachable
  TcpProxiesFollowRows
CHECK_DEADLOCK FALSE
