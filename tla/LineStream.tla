----------------------------- MODULE LineStream -----------------------------
(***************************************************************************)
(* What TcpServer promises each client: its bytes are cut at the newlines, *)
(* wherever the reads fell, and the lines are run one by one, in order and *)
(* each once, until the connection closes.  A line is the bytes between    *)
(* two newlines without one "\r" at its end; an empty one is skipped.      *)
(***************************************************************************)
EXTENDS Naturals, Sequences

CONSTANTS
  Conns,     \* the connections
  Script     \* for each, the bytes it sends: "x", "cr" or "nl"

VARIABLES
  sent,      \* bytes each client has sent
  done,      \* those the server is done with
  executed,  \* the lines it has run
  closed     \* the connections that are over

streamVars == <<sent, done, executed, closed>>

StreamInit ==
  /\ sent = [c \in Conns |-> 0]
  /\ done = [c \in Conns |-> 0]
  /\ executed = [c \in Conns |-> <<>>]
  /\ closed = {}

Arrive(c) ==
  /\ c \notin closed
  /\ sent[c] < Len(Script[c])
  /\ sent' = [sent EXCEPT ![c] = @ + 1]
  /\ UNCHANGED <<done, executed, closed>>

\* The bytes after the m-th and before the n-th, which is a newline.
Text(c, m, n) ==
  LET end == IF m + 1 < n /\ Script[c][n - 1] = "cr" THEN n - 2 ELSE n - 1 IN
  [i \in 1..(end - m) |-> <<c, m + i>>]

NextLine(c) ==
  \E n \in (done[c] + 1)..sent[c] :
    /\ c \notin closed
    /\ Script[c][n] = "nl"
    /\ \A k \in (done[c] + 1)..(n - 1) : Script[c][k] # "nl"
    /\ done' = [done EXCEPT ![c] = n]
    /\ executed' =
         [executed EXCEPT ![c] =
            IF Text(c, done[c], n) = <<>> THEN @ ELSE Append(@, Text(c, done[c], n))]
    /\ UNCHANGED <<sent, closed>>

\* Some connections end.  What the server has received of them and not run,
\* complete lines included, goes with them.
Close(S) ==
  /\ closed' = closed \cup S
  /\ done' \in [Conns -> Nat]
  /\ \A c \in Conns :
       IF c \in S THEN done'[c] \in done[c]..sent[c] ELSE done'[c] = done[c]
  /\ UNCHANGED <<sent, executed>>

StreamNext ==
  \/ \E c \in Conns : Arrive(c) \/ NextLine(c)
  \/ \E S \in SUBSET Conns : Close(S)

StreamSpec == StreamInit /\ [][StreamNext]_streamVars
=============================================================================
