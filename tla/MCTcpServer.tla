---------------------------- MODULE MCTcpServer ----------------------------
(***************************************************************************)
(* TcpServer on two connections.                                           *)
(***************************************************************************)
EXTENDS TcpServer

CONSTANTS c1, c2

MCFds == {1, 2}
MCOneFd == {1}
MCListenFd == 0

\* c1 ends a line with CR LF, sends an empty line and a second one, so that it may
\* be gone before two answers, which can kill the server; c2's only line has no
\* carriage return.
MCScript == (c1 :> <<"x", "cr", "nl", "nl", "x", "nl">>) @@ (c2 :> <<"x", "nl">>)

\* For the run with one descriptor: c1 has two lines here too, and c2 starts with
\* an empty one.
MCShortScript == (c1 :> <<"x", "nl", "x", "nl">>) @@ (c2 :> <<"nl", "x", "nl">>)

\* A client that stays connected has every line it sends run, whatever the others
\* do, unless one of them has hung up and an answer to it kills the server.
LinesRun ==
  \A c \in Conns :
    (conn[c] = "open" /\ sent[c] = Len(Script[c]))
      ~> \/ executed[c] = Lines[c] \/ peer[c] # "open"
         \/ pc = "killed" /\ \E d \in Conns \ {c} : peer[d] = "dead"
=============================================================================
