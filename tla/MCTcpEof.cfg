SPECIFICATION FairSpec
CONSTANTS
  c1 = c1
  c2 = c2
  Conns = {c1, c2}
  Fds <- MCFds
  Script <- MCScript
  ReadSize = 2
  SendBuf = 3
  Free = Free
  NoBuffer = NoBuffer
  ListenFd <- MCListenFd
PROPERTY CompleteLinesDispatched
CHECK_DEADLOCK FALSE
