CONSTANTS
  fd1 = fd1
  fd2 = fd2
  p1 = p1
  p2 = p2
  d1 = d1
  d2 = d2
  rw = rw
  far = far
  seekset = seekset
  seekend = seekend
  version = version
  unset = unset
  Fds <- MCOneFd
  Paths <- MCPaths
  Datas <- MCDatas
  Modes <- MCModes
  Lengths <- MCNone
  Offsets <- MCNone
  Window = 3
  WordSized <- MCWords
  SEEK_SET = seekset
  SEEK_END = seekend
  RII_VERSION = version
  Unset = unset
SPECIFICATION Spec
INVARIANT ActsOnCall
