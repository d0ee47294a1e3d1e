SPECIFICATION FairSpec
CONSTANTS
  c1 = c1
  c2 = c2
  Conns = {c1, c2}
  Fds <- MCOneFd
  Script <- MCShortScript
  ReadSize = 1
  SendBuf = 1
  Free = Free
  NoBuffer = NoBuffer
  ListenFd <- MCListenFd
PROPERTY BacklogServed
CHECK_DEADLOCK FALSE
