SPECIFICATION Spec
CONSTANTS
  Reader = {"r1", "r2"}
  Writer = {"w1"}
  None = "none"
  BufSize = 2
  MaxIn = 3
  MaxOut = 2
  Task = {1, 2}
  Main = 0
  KernelPages = 6
  UserPages = 3
  MaxSegPages = 2
  Conn = {"c1", "c2", "c3"}
  Worker = {"w1", "w2"}
  Server = "main"
  NoConn = "none"
  Opened = "opened"
  MaxFd = 3
  Modes = {"BASIC", "FORK", "THREAD", "POOL"}
  Requests <- MCRequests
  MaxCmds = 3
  Capacity = 1
  Output = 2
  ForkFailures = 1
  Lines = 2
  RelayBuf = 3
  MaxBytes <- MCBytes
  MaxBuff = 2
  MaxSent = 3
  RustWorkers = {1, 2}
  NMap = 2
  NReduce = 2
  Crashes = 1
  NoWorker = 0
INVARIANTS
  QueuesRight
  ProcessesRight
  HttpRight
  EofComplete
  RelaySafe
  ProxyRelays
  RustOutcome
PROPERTIES
  KernelProgress
  ServicesProgress
CHECK_DEADLOCK FALSE
