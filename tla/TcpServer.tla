----------------------------- MODULE TcpServer -----------------------------
(***************************************************************************)
(* TcpServer's epoll event loop: one thread that accepts clients, reads    *)
(* each socket until EAGAIN (client sockets are edge-triggered), cuts the  *)
(* bytes into lines with one buffer per file descriptor, runs each line    *)
(* and writes its answer.  The kernel (descriptors, socket buffers, ready  *)
(* list) and the clients are the environment.  A byte is <<c, n>>, the n-th *)
(* byte client c sends; Script[c] says which bytes end lines.  What a line *)
(* does to the store is KVStore's business.                                *)
(***************************************************************************)
EXTENDS Integers, FiniteSets, SequencesExt

CONSTANTS
  Conns,     \* the connections clients may open, each once
  Fds,       \* the descriptors left for client sockets
  Script,    \* for each connection, the bytes it sends: "x", "cr" or "nl"
  ReadSize,  \* sizeof(buf): the most one read() returns
  SendBuf,   \* the answer bytes a socket holds until the client reads them
  Free,      \* no connection has the descriptor
  NoBuffer,  \* read_buffers_ has no entry for the descriptor
  ListenFd   \* listen_fd_

ASSUME FdAssumption == IsFiniteSet(Fds) /\ Fds \subseteq Nat /\ ListenFd \notin Fds
ASSUME ScriptAssumption == Script \in [Conns -> Seq({"x", "cr", "nl"})]
ASSUME SizeAssumption == ReadSize \in Nat \ {0} /\ SendBuf \in Nat \ {0}
ASSUME FreeAssumption == Free \notin Conns
ASSUME BufferAssumption == NoBuffer \notin Seq(Conns \X Nat)

VARIABLES
  conn,      \* the server's side of each connection
  peer,      \* the client's side of it
  sent,      \* bytes each client has sent
  got,       \* bytes of it read() has returned
  outbox,    \* answer bytes the client has not read
  seen,      \* answer bytes it has read
  owner,     \* the connection behind each descriptor
  ready,     \* descriptors with an edge epoll_wait has not reported
  batch,     \* events of the last epoll_wait still to be handled
  pc,        \* where the event loop is
  cur,       \* client_fd of the running handle_read
  accumulated,         \* its bytes so far
  read_buffers_,
  executed,            \* history: the lines run for each connection
  active_connections_

netVars == <<conn, peer, sent, got, outbox, seen, owner, ready>>
loopVars == <<batch, pc, cur>>
bufVars == <<accumulated, read_buffers_>>
tcpVars == <<netVars, loopVars, bufVars, executed, active_connections_>>

Init ==
  /\ conn = [c \in Conns |-> "none"]
  /\ peer = [c \in Conns |-> "open"]
  /\ sent = [c \in Conns |-> 0]
  /\ got = [c \in Conns |-> 0]
  /\ outbox = [c \in Conns |-> <<>>]
  /\ seen = [c \in Conns |-> <<>>]
  /\ owner = [f \in Fds |-> Free]
  /\ ready = {}
  /\ batch = {}
  /\ pc = "wait"
  /\ cur = ListenFd
  /\ accumulated = <<>>
  /\ read_buffers_ = [f \in Fds |-> NoBuffer]
  /\ executed = [c \in Conns |-> <<>>]
  /\ active_connections_ = 0

Backlog == {c \in Conns : conn[c] = "backlog"}

FreeFds == {f \in Fds : owner[f] = Free}

\* read() would return something other than EAGAIN.
HasInput(c) == got[c] < sent[c] \/ peer[c] # "open"

\* The edge that input or an end of the connection raises.
Notify(c) == ready' = ready \cup {f \in Fds : owner[f] = c}

-----------------------------------------------------------------------------
\* The clients.

Connect(c) ==
  /\ conn[c] = "none"
  /\ conn' = [conn EXCEPT ![c] = "backlog"]
  /\ UNCHANGED <<peer, sent, got, outbox, seen, owner, ready,
                 loopVars, bufVars, executed, active_connections_>>

Send(c) ==
  /\ conn[c] \in {"backlog", "open"} /\ peer[c] = "open"
  /\ sent[c] < Len(Script[c])
  /\ sent' = [sent EXCEPT ![c] = @ + 1]
  /\ Notify(c)
  /\ UNCHANGED <<conn, peer, got, outbox, seen, owner,
                 loopVars, bufVars, executed, active_connections_>>

ReadAnswers(c) ==
  /\ outbox[c] # <<>> /\ peer[c] \in {"open", "half"}
  /\ seen' = [seen EXCEPT ![c] = @ \o outbox[c]]
  /\ outbox' = [outbox EXCEPT ![c] = <<>>]
  /\ UNCHANGED <<conn, peer, sent, got, owner, ready,
                 loopVars, bufVars, executed, active_connections_>>

\* shutdown(SHUT_WR): the client has sent all it will, and waits for answers.
\* close(): it is gone.  Both look like an end of file to the server.
\* "reset": it is gone and the server's kernel knows, and has an error to report.
HangUp(c, how) ==
  /\ conn[c] \in {"backlog", "open"}
  /\ \/ peer[c] = "open" /\ how \in {"half", "closed", "reset"}
     \/ peer[c] = "half" /\ how \in {"closed", "reset"}
  /\ peer' = [peer EXCEPT ![c] = how]
  /\ Notify(c)
  /\ UNCHANGED <<conn, sent, got, outbox, seen, owner,
                 loopVars, bufVars, executed, active_connections_>>

Client(c) ==
  \/ Connect(c) \/ Send(c) \/ ReadAnswers(c)
  \/ \E how \in {"half", "closed", "reset"} : HangUp(c, how)

-----------------------------------------------------------------------------
\* event_loop.

\* The listening socket is level-triggered: it is reported as long as a
\* connection waits.  (The instances have fewer than MAX_EVENTS descriptors.)
Events ==
  {[fd |-> f, conn |-> owner[f]] : f \in ready}
    \cup {[fd |-> ListenFd, conn |-> Free] : c \in Backlog}

EpollWait ==
  /\ pc = "wait"
  /\ Events # {}
  /\ batch' = Events
  /\ ready' = {}
  /\ pc' = "dispatch"
  /\ UNCHANGED <<conn, peer, sent, got, outbox, seen, owner, cur,
                 bufVars, executed, active_connections_>>

\* Fault: an event stays in the batch while its socket has something to read.
DispatchAgain(e) ==
  /\ pc = "dispatch"
  /\ batch' = IF e.fd # ListenFd /\ HasInput(e.conn) THEN batch ELSE batch \ {e}
  /\ cur' = e.fd
  /\ accumulated' = <<>>
  /\ pc' = IF e.fd = ListenFd THEN "accept" ELSE "read"
  /\ UNCHANGED <<netVars, read_buffers_, executed, active_connections_>>

Dispatch(e) ==
  /\ pc = "dispatch"
  /\ batch' = batch \ {e}
  /\ cur' = e.fd
  /\ accumulated' = <<>>
  /\ pc' = IF e.fd = ListenFd THEN "accept" ELSE "read"
  /\ UNCHANGED <<netVars, read_buffers_, executed, active_connections_>>

BatchDone ==
  /\ pc = "dispatch" /\ batch = {}
  /\ pc' = "wait"
  /\ UNCHANGED <<netVars, batch, cur, bufVars, executed, active_connections_>>

-----------------------------------------------------------------------------
\* accept_client: one turn of its loop.  The kernel gives the lowest free
\* descriptor, and EPOLL_CTL_ADD raises an edge for input that is already there.
Accept(c) ==
  /\ pc = "accept"
  /\ c \in Backlog /\ FreeFds # {}
  /\ LET fd == CHOOSE f \in FreeFds : \A g \in FreeFds : f <= g IN
       /\ conn' = [conn EXCEPT ![c] = "open"]
       /\ owner' = [owner EXCEPT ![fd] = c]
       /\ active_connections_' = active_connections_ + 1
       /\ ready' = IF HasInput(c) THEN ready \cup {fd} ELSE ready
       /\ read_buffers_' = [read_buffers_ EXCEPT ![fd] = <<>>]
  /\ UNCHANGED <<peer, sent, got, outbox, seen, loopVars, accumulated, executed>>

\* Fault: the loop may end while a connection waits.
AcceptDoneEarly ==
  /\ pc = "accept"
  /\ pc' = "dispatch"
  /\ UNCHANGED <<netVars, batch, cur, bufVars, executed, active_connections_>>

\* EAGAIN, or no descriptor left (EMFILE): the loop ends either way.
AcceptDone ==
  /\ pc = "accept"
  /\ Backlog = {} \/ FreeFds = {}
  /\ pc' = "dispatch"
  /\ UNCHANGED <<netVars, batch, cur, bufVars, executed, active_connections_>>

-----------------------------------------------------------------------------
\* handle_read, first part: read until EAGAIN.

Smaller(m, n) == IF m < n THEN m ELSE n

Bytes(c, first, last) == [i \in 1..(last - first + 1) |-> <<c, first + i - 1>>]

ReadData ==
  LET c == owner[cur]
      n == Smaller(ReadSize, sent[c] - got[c]) IN
  /\ pc = "read"
  /\ got[c] < sent[c]
  /\ got' = [got EXCEPT ![c] = @ + n]
  /\ accumulated' = accumulated \o Bytes(c, got[c] + 1, got[c] + n)
  /\ UNCHANGED <<conn, peer, sent, outbox, seen, owner, ready,
                 loopVars, read_buffers_, executed, active_connections_>>

\* Fault: the buffer is not erased with the connection.
ReadCloseKeepsBuffer ==
  LET c == owner[cur] IN
  /\ pc = "read"
  /\ got[c] = sent[c] /\ peer[c] # "open"
  /\ conn' = [conn EXCEPT ![c] = "gone"]
  /\ owner' = [owner EXCEPT ![cur] = Free]
  /\ ready' = ready \ {cur}
  /\ active_connections_' =
       IF active_connections_ > 0 THEN active_connections_ - 1 ELSE 0
  /\ pc' = "dispatch"
  /\ UNCHANGED <<peer, sent, got, outbox, seen, batch, cur, bufVars, executed>>

\* Fault: only an orderly end of file decrements the gauge.
ReadCloseMiscounts ==
  LET c == owner[cur] IN
  /\ pc = "read"
  /\ got[c] = sent[c] /\ peer[c] # "open"
  /\ conn' = [conn EXCEPT ![c] = "gone"]
  /\ owner' = [owner EXCEPT ![cur] = Free]
  /\ ready' = ready \ {cur}
  /\ read_buffers_' = [read_buffers_ EXCEPT ![cur] = NoBuffer]
  /\ active_connections_' =
       active_connections_ - (IF peer[c] \in {"half", "closed"} THEN 1 ELSE 0)
  /\ pc' = "dispatch"
  /\ UNCHANGED <<peer, sent, got, outbox, seen, batch, cur, accumulated, executed>>

\* End of file or a read error: what this call has accumulated, and what the
\* buffer holds, goes with the connection.
ReadClose ==
  LET c == owner[cur] IN
  /\ pc = "read"
  /\ got[c] = sent[c] /\ peer[c] # "open"
  /\ conn' = [conn EXCEPT ![c] = "gone"]
  /\ owner' = [owner EXCEPT ![cur] = Free]
  /\ ready' = ready \ {cur}
  /\ read_buffers_' = [read_buffers_ EXCEPT ![cur] = NoBuffer]
  /\ active_connections_' =
       IF active_connections_ > 0 THEN active_connections_ - 1 ELSE 0
  /\ pc' = "dispatch"
  /\ UNCHANGED <<peer, sent, got, outbox, seen, batch, cur, accumulated, executed>>

\* Fault: the loop may end before EAGAIN, as with a level-triggered socket.
ReadAgainEarly ==
  LET c == owner[cur] IN
  /\ pc = "read"
  /\ accumulated # <<>>
  /\ pc' = "process"
  /\ read_buffers_' = [read_buffers_ EXCEPT ![cur] = @ \o accumulated]
  /\ UNCHANGED <<netVars, batch, cur, accumulated, executed, active_connections_>>

ReadAgain ==
  LET c == owner[cur] IN
  /\ pc = "read"
  /\ got[c] = sent[c] /\ peer[c] = "open"
  /\ IF accumulated = <<>>
       THEN /\ pc' = "dispatch"
            /\ UNCHANGED read_buffers_
       ELSE /\ pc' = "process"
            /\ read_buffers_' = [read_buffers_ EXCEPT ![cur] = @ \o accumulated]
  /\ UNCHANGED <<netVars, batch, cur, accumulated, executed, active_connections_>>

-----------------------------------------------------------------------------
\* handle_read, second part: run every complete line of the buffer.

Is(b, sym) == Script[b[1]][b[2]] = sym

\* buf_ref.find('\n')
Newlines(s) == {i \in DOMAIN s : Is(s[i], "nl")}

\* Fault: the buffer is cut at its last newline.
FirstLineToLast(s) ==
  SubSeq(s, 1, (CHOOSE i \in Newlines(s) : \A j \in Newlines(s) : j <= i) - 1)

FirstLine(s) ==
  SubSeq(s, 1, (CHOOSE i \in Newlines(s) : \A j \in Newlines(s) : i <= j) - 1)

\* Fault: the carriage return stays in the line.
TrimNothing(line) == line

Trim(line) == IF line # <<>> /\ Is(Last(line), "cr") THEN Front(line) ELSE line

\* Fault: the last byte of the answer is not counted.
AnswerShort(n) == <<2 * n - 1>>

\* The answer to the n-th line run for a connection: two bytes, the second the
\* end of the answer.
Answer(n) == <<2 * n - 1, 2 * n>>

\* write(): what fits is sent and the rest is lost ("best-effort").  A client
\* that closed may answer with a reset before the next write; the first write
\* after a reset reports the error, the next one raises SIGPIPE, which kills a
\* process that does not handle it (process 1 of a container is spared).
Write(c, answer) ==
  \/ /\ peer[c] \in {"open", "half"}
     /\ LET n == Smaller(Len(answer), SendBuf - Len(outbox[c])) IN
          outbox' = [outbox EXCEPT ![c] = @ \o SubSeq(answer, 1, n)]
     /\ UNCHANGED <<peer, ready, pc>>
  \/ /\ peer[c] = "closed"
     /\ \/ UNCHANGED <<peer, ready>>
        \/ peer' = [peer EXCEPT ![c] = "dead"] /\ Notify(c)
     /\ UNCHANGED <<outbox, pc>>
  \/ /\ peer[c] = "reset"
     /\ peer' = [peer EXCEPT ![c] = "dead"]
     /\ UNCHANGED <<outbox, ready, pc>>
  \/ /\ peer[c] = "dead"
     /\ pc' \in {pc, "killed"}
     /\ UNCHANGED <<outbox, peer, ready>>

ProcessLine ==
  LET c == owner[cur]
      buf_ref == read_buffers_[cur]
      line == FirstLine(buf_ref) IN
  /\ pc = "process"
  /\ Newlines(buf_ref) # {}
  /\ read_buffers_' =
       [read_buffers_ EXCEPT ![cur] = SubSeq(@, Len(line) + 2, Len(@))]
  /\ IF Trim(line) = <<>>
       THEN UNCHANGED <<executed, outbox, peer, ready, pc>>
       ELSE /\ executed' = [executed EXCEPT ![c] = Append(@, Trim(line))]
            /\ Write(c, Answer(Len(executed[c]) + 1))
  /\ UNCHANGED <<conn, sent, got, seen, owner, batch, cur, accumulated,
                 active_connections_>>

\* Fault: the loop over the lines may end before the last of them.
ProcessDoneEarly ==
  /\ pc = "process"
  /\ pc' = "dispatch"
  /\ UNCHANGED <<netVars, batch, cur, bufVars, executed, active_connections_>>

ProcessDone ==
  /\ pc = "process"
  /\ Newlines(read_buffers_[cur]) = {}
  /\ pc' = "dispatch"
  /\ UNCHANGED <<netVars, batch, cur, bufVars, executed, active_connections_>>

-----------------------------------------------------------------------------
\* A supervisor starts a killed server again; the kernel has closed every
\* connection.
Restart ==
  /\ pc = "killed"
  /\ conn' = [c \in Conns |-> IF conn[c] = "none" THEN "none" ELSE "gone"]
  /\ owner' = [f \in Fds |-> Free]
  /\ ready' = {} /\ batch' = {}
  /\ pc' = "wait" /\ cur' = ListenFd
  /\ accumulated' = <<>>
  /\ read_buffers_' = [f \in Fds |-> NoBuffer]
  /\ active_connections_' = 0
  /\ UNCHANGED <<peer, sent, got, outbox, seen, executed>>

Server ==
  \/ EpollWait \/ BatchDone \/ \E e \in batch : Dispatch(e)
  \/ AcceptDone \/ \E c \in Conns : Accept(c)
  \/ ReadData \/ ReadClose \/ ReadAgain
  \/ ProcessLine \/ ProcessDone

Next == Server \/ Restart \/ \E c \in Conns : Client(c)

Spec == Init /\ [][Next]_tcpVars

\* The event loop keeps running; clients may stop at any point.
FairSpec == Spec /\ WF_tcpVars(Server) /\ WF_tcpVars(Restart)

-----------------------------------------------------------------------------
TcpTypeOK ==
  /\ conn \in [Conns -> {"none", "backlog", "open", "gone"}]
  /\ peer \in [Conns -> {"open", "half", "closed", "reset", "dead"}]
  /\ sent \in [Conns -> Nat] /\ got \in [Conns -> Nat]
  /\ outbox \in [Conns -> Seq(Nat)] /\ seen \in [Conns -> Seq(Nat)]
  /\ owner \in [Fds -> Conns \cup {Free}]
  /\ ready \in SUBSET Fds
  /\ batch \in SUBSET [fd : Fds \cup {ListenFd}, conn : Conns \cup {Free}]
  /\ pc \in {"wait", "dispatch", "accept", "read", "process", "killed"}
  /\ cur \in Fds \cup {ListenFd}
  /\ accumulated \in Seq(Conns \X Nat)
  /\ read_buffers_ \in [Fds -> Seq(Conns \X Nat) \cup {NoBuffer}]
  /\ executed \in [Conns -> Seq(Seq(Conns \X Nat))]
  /\ active_connections_ \in Nat

OpenFds == {f \in Fds : owner[f] # Free}

\* An event of the batch is handled for the connection that raised it, although
\* earlier events of the same batch close descriptors and reuse their numbers.
EventsNotStale ==
  \A e \in batch : e.fd # ListenFd => owner[e.fd] = e.conn /\ conn[e.conn] = "open"

\* A descriptor's unprocessed bytes, those of a running handle_read on top.
Held(f) == read_buffers_[f] \o (IF pc = "read" /\ cur = f THEN accumulated ELSE <<>>)

\* They are the last bytes read from its connection: nothing is left over from
\* an earlier owner of the number, and nothing is lost between reads.
BuffersMatchStream ==
  /\ \A f \in Fds : read_buffers_[f] = NoBuffer <=> owner[f] = Free
  /\ \A f \in OpenFds :
       LET c == owner[f] IN
       Held(f) = Bytes(c, got[c] - Len(Held(f)) + 1, got[c])

\* An edge is never lost: when the loop goes to sleep, each socket with unread
\* input has an edge pending, and no complete line waits in a buffer.
NoLostWakeup ==
  pc = "wait" =>
    \A f \in OpenFds :
      /\ HasInput(owner[f]) => f \in ready
      /\ Newlines(read_buffers_[f]) = {}

\* The gauge STATS reports is the number of client sockets open.
ActiveConnectionsExact == active_connections_ = Cardinality(OpenFds)

Increasing(s) == \A i, j \in DOMAIN s : i < j => s[i] < s[j]

\* What a client receives is in the order of its lines, never ahead of them and
\* never twice; and while the client is there nothing of it is lost unless the
\* answers outgrew the socket's send buffer.
AnswersInOrder ==
  \A c \in Conns :
    LET stream == seen[c] \o outbox[c] IN
    /\ Increasing(stream)
    /\ \A i \in DOMAIN stream : stream[i] \in 1..(2 * Len(executed[c]))
    /\ (peer[c] \in {"open", "half"} /\ 2 * Len(executed[c]) <= SendBuf)
         => Len(stream) = 2 * Len(executed[c])

\* The bytes of c the server is done with: those it has read and does not hold.
Done(c) ==
  IF \E f \in Fds : owner[f] = c
    THEN got[c] - Len(Held(CHOOSE f \in Fds : owner[f] = c))
    ELSE got[c]

Gone == {c \in Conns : conn[c] = "gone"}

\* handle_read's chunks, its buffer per descriptor and the reuse of descriptors
\* amount to LineStream: each line a client completes is run whole, in order and
\* once, and the only bytes not run are those a closing connection takes along.
Stream == INSTANCE LineStream WITH done <- [c \in Conns |-> Done(c)], closed <- Gone
ImplementsStream == Stream!StreamSpec

\* A reference for the cutting into lines that looks at the whole script at once:
\* where its lines end, where the one that ends at n starts, and which have a text.
LineEnds(c) == {n \in DOMAIN Script[c] : Script[c][n] = "nl"}

LineStart(c, n) ==
  CHOOSE m \in LineEnds(c) \cup {0} :
    m < n /\ \A k \in (m + 1)..(n - 1) : k \notin LineEnds(c)

LineTo(c, n) == Stream!Text(c, LineStart(c, n), n)

FullLines(c) == {n \in LineEnds(c) : LineTo(c, n) # <<>>}

\* How many lines with a text end at n or before.
LinesUpTo(c, n) == Cardinality({m \in FullLines(c) : m <= n})

Lines ==
  [c \in Conns |->
     [i \in 1..Cardinality(FullLines(c)) |->
        LineTo(c, CHOOSE n \in FullLines(c) : LinesUpTo(c, n) = i)]]

\* However the stream is cut into reads, the lines run for a client are the
\* lines it sent, in order, each once, empty ones left out.
LinesRunInOrder == \A c \in Conns : IsPrefix(executed[c], Lines[c])

\* A connection request is taken up, or every descriptor is in use.
BacklogServed ==
  \A c \in Conns : (conn[c] = "backlog") ~> (conn[c] # "backlog" \/ FreeFds = {})

\* README, "TCP is a stream protocol": "complete \n-terminated lines are
\* extracted and dispatched".  Then an orderly end of a client's input closes
\* the connection only after its lines have run: no newline is dropped with it.
CompleteLinesDispatched ==
  [][\A c \in Conns :
       conn[c] = "open" /\ conn'[c] = "gone" /\ peer[c] = "half"
         => Newlines(accumulated) = {}]_tcpVars

\* server.hpp: run "Blocks until stop() is called from another thread or
\* process receives SIGINT".  Neither happens here, so it must not end.
RunsUntilStopped == pc # "killed"

=============================================================================
