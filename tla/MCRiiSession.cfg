CONSTANTS
  fd1 = fd1
  fd2 = fd2
  p1 = p1
  p2 = p2
  d1 = d1
  d2 = d2
  rw = rw
  far = far
  seekset = seekset
  seekend = seekend
  version = version
  unset = unset
  Fds <- MCFds
  Paths <- MCPaths
  Datas <- MCDatas
  Modes <- MCModes
  Lengths <- MCLengths
  Offsets <- MCOffsets
  Window = 3
  WordSized <- MCNone
  SEEK_SET = seekset
  SEEK_END = seekend
  RII_VERSION = version
  Unset = unset
SPECIFICATION FairSpec
INVARIANTS
  ActsOnCall
  CacheCoherent
  InStep
PROPERTIES
  ImplementsRemoteCall
  CallsReturn
