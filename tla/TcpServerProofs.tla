-------------------------- MODULE TcpServerProofs --------------------------
(***************************************************************************)
(* Proofs about TcpServer, for any set of connections, finite set of       *)
(* descriptors, script and sizes: every safety invariant of the run, and   *)
(* that it implements LineStream.                                          *)
(***************************************************************************)
EXTENDS TcpServer, SequenceTheorems, FiniteSetTheorems, WellFoundedInduction, TLAPS

Byte == Conns \X Nat

\* handle_read runs for an open connection, and its event has left the batch.
LoopInv ==
  /\ pc \in {"read", "process"} => cur \in OpenFds /\ \A e \in batch : e.fd # cur
  /\ pc = "wait" => batch = {}

\* No two descriptors are of one connection, edges and events are those of open
\* descriptors, and an event names the connection that raised it.
OwnerInv ==
  /\ \A f \in OpenFds : conn[owner[f]] = "open"
  /\ \A f, g \in OpenFds : owner[f] = owner[g] => f = g
  /\ ready \subseteq OpenFds
  /\ \A e \in batch : e.fd # ListenFd => e.conn # Free /\ owner[e.fd] = e.conn

\* Bytes held were read, bytes read were sent, and a socket buffer is bounded.
CountsInv ==
  /\ \A c \in Conns : got[c] <= sent[c] /\ Len(outbox[c]) <= SendBuf
  /\ \A f \in OpenFds : Len(Held(f)) <= got[owner[f]]

\* NoLostWakeup at every point of the loop: input that has no edge pending is
\* about to be read, and only the running handle_read holds a complete line.
Awake(f) == f \in ready \/ (\E e \in batch : e.fd = f) \/ (pc = "read" /\ cur = f)

NoLineWaits(f) == Newlines(read_buffers_[f]) = {} \/ (pc = "process" /\ cur = f)

WakeInv ==
  pc # "killed" =>
    \A f \in OpenFds : (HasInput(owner[f]) => Awake(f)) /\ NoLineWaits(f)

LoopOwner == LoopInv /\ OwnerInv

-----------------------------------------------------------------------------
\* Facts about numbers and sequences.

\* CHOOSE of a smallest element finds one.
LEMMA LeastExists ==
  ASSUME NEW S \in SUBSET Nat, S # {}
  PROVE  \E x \in S : \A y \in S : x <= y
<1>1. PICK x \in S : \A y \in S : ~(<<y, x>> \in OpToRel(<, Nat))
  BY NatLessThanWellFounded, WFMin
<1>2. \A y \in S : ~(y < x)
  BY <1>1 DEF OpToRel
<1> QED
  BY <1>2

\* A function on 1..n into S is a sequence.
LEMMA FunctionIsSeq ==
  ASSUME NEW S, NEW n \in Nat, NEW s \in [1..n -> S]
  PROVE  s \in Seq(S) /\ Len(s) = n
<1>1. s \in Seq(S)
  BY SeqDef
<1>2. DOMAIN s = 1..n
  OBVIOUS
<1>3. DOMAIN s = 1..Len(s) /\ Len(s) \in Nat
  BY <1>1, LenProperties
<1> QED
  BY <1>1, <1>2, <1>3

\* The prefixes of a pair.
LEMMA PairPrefix ==
  ASSUME NEW x \in Nat, NEW y \in Nat
  PROVE  /\ SubSeq(<<x, y>>, 1, 0) = <<>> /\ Len(<<>>) = 0
         /\ SubSeq(<<x, y>>, 1, 1) = <<x>> /\ Len(<<x>>) = 1
         /\ SubSeq(<<x, y>>, 1, 2) = <<x, y>> /\ Len(<<x, y>>) = 2
<1> DEFINE s == <<x, y>>
           t == SubSeq(s, 1, 1)
<1>1. s \in Seq(Nat) /\ Len(s) = 2 /\ s[1] = x
  OBVIOUS
<1>2. <<x>> \in Seq(Nat) /\ Len(<<x>>) = 1 /\ <<x>>[1] = x
  OBVIOUS
<1> HIDE DEF s
<1>3. SubSeq(s, 1, 0) = <<>> /\ Len(<<>>) = 0
  BY SubSeqEmpty
<1>4. SubSeq(s, 1, 2) = s
  BY <1>1, SubSeqFull
<1>5. t \in Seq(Nat) /\ Len(t) = 1 /\ \A i \in 1..1 : t[i] = s[1 + i - 1]
  <2>1. \A i \in 1..1 : s[i] \in Nat
    BY <1>1
  <2>2. /\ t \in Seq(Nat)
        /\ Len(t) = IF 1 <= 1 THEN 1 - 1 + 1 ELSE 0
        /\ \A i \in 1..(1 - 1 + 1) : t[i] = s[1 + i - 1]
    BY <2>1, SubSeqProperties
  <2> QED
    BY <2>2
<1> HIDE DEF t
<1>6. \A i \in 1..Len(t) : t[i] = <<x>>[i]
  BY <1>1, <1>2, <1>5
<1>7. t = <<x>>
  BY <1>2, <1>5, <1>6, SeqEqual
<1> QED
  BY <1>1, <1>2, <1>3, <1>4, <1>7 DEF s, t

\* Bytes m to n of a connection: how many, and which.
LEMMA BytesProperties ==
  ASSUME NEW c \in Conns, NEW m \in Nat, NEW n \in Nat, m <= n + 1
  PROVE  /\ Bytes(c, m, n) \in Seq(Byte)
         /\ Len(Bytes(c, m, n)) = n - m + 1
         /\ \A i \in 1..(n - m + 1) : Bytes(c, m, n)[i] = <<c, m + i - 1>>
<1> DEFINE k == n - m + 1
           s == Bytes(c, m, n)
<1>1. k \in Nat
  OBVIOUS
<1>2. s = [i \in 1..k |-> <<c, m + i - 1>>]
  BY DEF Bytes
<1>3. \A i \in 1..k : m + i - 1 \in Nat
  OBVIOUS
<1>4. s \in [1..k -> Byte]
  BY <1>2, <1>3 DEF Byte
<1> HIDE DEF k, s
<1>5. s \in Seq(Byte) /\ Len(s) = k
  BY <1>1, <1>4, FunctionIsSeq
<1>6. \A i \in 1..k : s[i] = <<c, m + i - 1>>
  BY <1>2
<1> QED
  BY <1>5, <1>6 DEF k, s

\* Bytes are what their length and their elements say.
LEMMA BytesUnique ==
  ASSUME NEW c \in Conns, NEW m \in Nat, NEW n \in Nat, m <= n + 1,
         NEW s \in Seq(Byte), Len(s) = n - m + 1,
         \A i \in 1..Len(s) : s[i] = <<c, m + i - 1>>
  PROVE  s = Bytes(c, m, n)
<1> DEFINE b == Bytes(c, m, n)
<1>1. /\ b \in Seq(Byte) /\ Len(b) = n - m + 1
      /\ \A i \in 1..(n - m + 1) : b[i] = <<c, m + i - 1>>
  BY BytesProperties
<1> HIDE DEF b
<1>2. \A i \in 1..Len(s) : s[i] = b[i]
  BY <1>1
<1>3. s = b
  BY <1>1, <1>2, SeqEqual
<1> QED
  BY <1>3 DEF b

\* What is read next continues what is held.
LEMMA BytesConcat ==
  ASSUME NEW c \in Conns, NEW m \in Nat, NEW k \in Nat, NEW n \in Nat,
         m <= k + 1, k <= n
  PROVE  Bytes(c, m, k) \o Bytes(c, k + 1, n) = Bytes(c, m, n)
<1> DEFINE a == Bytes(c, m, k)
           b == Bytes(c, k + 1, n)
           ab == a \o b
<1>1. /\ a \in Seq(Byte) /\ Len(a) = k - m + 1
      /\ \A i \in 1..(k - m + 1) : a[i] = <<c, m + i - 1>>
  BY BytesProperties
<1>2. /\ b \in Seq(Byte) /\ Len(b) = n - (k + 1) + 1
      /\ \A i \in 1..(n - (k + 1) + 1) : b[i] = <<c, (k + 1) + i - 1>>
  <2>1. k + 1 \in Nat /\ k + 1 <= n + 1
    OBVIOUS
  <2> QED
    BY <2>1, BytesProperties
<1> HIDE DEF a, b
<1>3. /\ ab \in Seq(Byte) /\ Len(ab) = n - m + 1
      /\ \A i \in 1..(n - m + 1) :
           ab[i] = IF i <= k - m + 1 THEN a[i] ELSE b[i - (k - m + 1)]
  <2>1. /\ a \o b \in Seq(Byte)
        /\ Len(a \o b) = Len(a) + Len(b)
        /\ \A i \in 1..(Len(a) + Len(b)) :
             (a \o b)[i] = IF i <= Len(a) THEN a[i] ELSE b[i - Len(a)]
    BY <1>1, <1>2, ConcatProperties
  <2>2. Len(a) + Len(b) = n - m + 1
    BY <1>1, <1>2
  <2> QED
    BY <1>1, <2>1, <2>2
<1> HIDE DEF ab
<1>4. ASSUME NEW i \in 1..(n - m + 1) PROVE ab[i] = <<c, m + i - 1>>
  <2>1. CASE i <= k - m + 1
    BY <1>1, <1>3, <2>1
  <2>2. CASE ~(i <= k - m + 1)
    <3>1. i - (k - m + 1) \in 1..(n - k) /\ (k + 1) + (i - (k - m + 1)) - 1 = m + i - 1
      BY <2>2
    <3>2. n - (k + 1) + 1 = n - k
      OBVIOUS
    <3> QED
      BY <1>2, <1>3, <2>2, <3>1, <3>2
  <2> QED
    BY <2>1, <2>2
<1>5. m <= n + 1 /\ \A i \in 1..Len(ab) : ab[i] = <<c, m + i - 1>>
  BY <1>3, <1>4
<1>6. ab = Bytes(c, m, n)
  BY <1>3, <1>5, BytesUnique
<1> QED
  BY <1>6 DEF a, b, ab

\* Erasing the first bytes leaves the last ones.
LEMMA BytesTail ==
  ASSUME NEW c \in Conns, NEW m \in Nat, NEW n \in Nat, m <= n + 1,
         NEW i \in 1..(n - m + 2)
  PROVE  SubSeq(Bytes(c, m, n), i, n - m + 1) = Bytes(c, m + i - 1, n)
<1> DEFINE a == Bytes(c, m, n)
           k == n - m + 1
           t == SubSeq(a, i, k)
<1>1. /\ a \in Seq(Byte) /\ Len(a) = k
      /\ \A j \in 1..k : a[j] = <<c, m + j - 1>>
  BY BytesProperties
<1>2. k \in Nat /\ i \in 1..(k + 1)
  OBVIOUS
<1>0. k = n - m + 1
  OBVIOUS
<1> HIDE DEF a, k
<1>3. \A j \in i..k : a[j] \in Byte
  BY <1>1, <1>2, ElementOfSeq
<1>4. /\ t \in Seq(Byte) /\ Len(t) = k - i + 1
      /\ \A j \in 1..(k - i + 1) : t[j] = a[i + j - 1]
  BY <1>2, <1>3, SubSeqProperties
<1> HIDE DEF t
<1>5. ASSUME NEW j \in 1..(k - i + 1) PROVE t[j] = <<c, (m + i - 1) + j - 1>>
  <2>1. i + j - 1 \in 1..k /\ m + (i + j - 1) - 1 = (m + i - 1) + j - 1
    BY <1>2
  <2> QED
    BY <1>1, <1>4, <2>1
<1>6. m + i - 1 \in Nat /\ m + i - 1 <= n + 1 /\ k - i + 1 = n - (m + i - 1) + 1
  BY <1>0, <1>2
<1>7. t = Bytes(c, m + i - 1, n)
  BY <1>4, <1>5, <1>6, BytesUnique
<1> QED
  BY <1>7 DEF t, a, k

\* find and substr: the first line ends before the first newline.
LEMMA FirstLineProperties ==
  ASSUME NEW s \in Seq(Byte), Newlines(s) # {}
  PROVE  \E p \in 1..Len(s) :
           /\ Is(s[p], "nl")
           /\ \A j \in 1..(p - 1) : ~Is(s[j], "nl")
           /\ FirstLine(s) = SubSeq(s, 1, p - 1)
           /\ FirstLine(s) \in Seq(Byte)
           /\ Len(FirstLine(s)) = p - 1
           /\ \A j \in 1..(p - 1) : FirstLine(s)[j] = s[j]
<1> DEFINE p == CHOOSE i \in Newlines(s) : \A j \in Newlines(s) : i <= j
<1>1. DOMAIN s = 1..Len(s) /\ Len(s) \in Nat
  BY LenProperties
<1>2. Newlines(s) \in SUBSET Nat
  BY <1>1 DEF Newlines
<1>3. p \in Newlines(s) /\ \A j \in Newlines(s) : p <= j
  BY <1>2, LeastExists
<1>4. FirstLine(s) = SubSeq(s, 1, p - 1)
  BY DEF FirstLine
<1> HIDE DEF p
<1>5. p \in 1..Len(s) /\ Is(s[p], "nl")
  BY <1>1, <1>3 DEF Newlines
<1>6. \A j \in 1..(p - 1) : ~Is(s[j], "nl")
  BY <1>1, <1>3, <1>5 DEF Newlines
<1>7. \A j \in 1..(p - 1) : s[j] \in Byte
  BY <1>1, <1>5, ElementOfSeq
<1>8. /\ SubSeq(s, 1, p - 1) \in Seq(Byte)
      /\ Len(SubSeq(s, 1, p - 1)) = IF 1 <= p - 1 THEN p - 1 - 1 + 1 ELSE 0
      /\ \A i \in 1..(p - 1 - 1 + 1) : SubSeq(s, 1, p - 1)[i] = s[1 + i - 1]
  BY <1>5, <1>7, SubSeqProperties
<1>9. Len(SubSeq(s, 1, p - 1)) = p - 1
  BY <1>5, <1>8
<1>10. \A i \in 1..(p - 1) : SubSeq(s, 1, p - 1)[i] = s[i]
  BY <1>5, <1>8
<1> QED
  BY <1>4, <1>5, <1>6, <1>8, <1>9, <1>10

LEMMA TrimType ==
  ASSUME NEW s \in Seq(Byte)
  PROVE  Trim(s) \in Seq(Byte)
<1>1. DOMAIN s = 1..Len(s) /\ Len(s) \in Nat
  BY LenProperties
<1>2. \A j \in 1..(Len(s) - 1) : s[j] \in Byte
  BY <1>1, ElementOfSeq
<1>3. SubSeq(s, 1, Len(s) - 1) \in Seq(Byte)
  BY <1>1, <1>2, SubSeqProperties
<1> QED
  BY <1>3 DEF Trim, Front

-----------------------------------------------------------------------------
\* Types.

\* handle_read works on an open connection and the buffer of its descriptor.
LEMMA CurIsOpen ==
  ASSUME TcpTypeOK, LoopInv, BuffersMatchStream, pc \in {"read", "process"}
  PROVE  /\ cur \in Fds /\ cur \in OpenFds
         /\ owner[cur] \in Conns
         /\ read_buffers_[cur] \in Seq(Byte)
<1>1. cur \in Fds /\ owner[cur] # Free
  BY DEF LoopInv, OpenFds
<1>2. owner[cur] \in Conns /\ read_buffers_[cur] # NoBuffer
  BY <1>1 DEF TcpTypeOK, BuffersMatchStream
<1> QED
  BY <1>1, <1>2 DEF TcpTypeOK, OpenFds, Byte

\* What a client may receive of the answer to line k + 1.
AnswerPrefixes(k) == {<<>>, <<2 * k + 1>>, <<2 * k + 1, 2 * k + 2>>}

LEMMA AnswerPrefixesType ==
  ASSUME NEW k \in Nat
  PROVE  AnswerPrefixes(k) \subseteq Seq(Nat)
<1>1. \A x, y \in Nat : <<>> \in Seq(Nat) /\ <<x>> \in Seq(Nat) /\ <<x, y>> \in Seq(Nat)
  OBVIOUS
<1>2. 2 * k + 1 \in Nat /\ 2 * k + 2 \in Nat
  OBVIOUS
<1> QED
  BY <1>1, <1>2 DEF AnswerPrefixes

\* What write() does to the client: it sends a prefix of the answer, the whole
\* of it if there is room, or finds the client gone.
LEMMA WriteEffect ==
  ASSUME TcpTypeOK, CountsInv, NEW c \in Conns, NEW k \in Nat, Write(c, Answer(k + 1))
  PROVE  /\ peer' \in [Conns -> {"open", "half", "closed", "reset", "dead"}]
         /\ pc' \in {pc, "killed"}
         /\ outbox' \in [Conns -> Seq(Nat)]
         /\ ready \subseteq ready' /\ ready' \subseteq ready \cup {f \in Fds : owner[f] = c}
         /\ \A d \in Conns : peer'[d] = peer[d] \/ (peer[d] # "open" /\ peer'[d] = "dead")
         /\ \/ outbox' = outbox /\ peer[c] \notin {"open", "half"} /\ peer'[c] # "half"
            \/ \E a \in AnswerPrefixes(k) :
                 /\ outbox' = [outbox EXCEPT ![c] = @ \o a]
                 /\ Len(outbox[c]) + Len(a) <= SendBuf
                 /\ Len(outbox[c]) + 2 <= SendBuf => Len(a) = 2
<1>1. Answer(k + 1) = <<2 * k + 1, 2 * k + 2>>
  BY DEF Answer
<1>2. CASE peer[c] \in {"open", "half"}
  <2> DEFINE m == Smaller(Len(Answer(k + 1)), SendBuf - Len(outbox[c]))
             a == SubSeq(Answer(k + 1), 1, m)
  <2>1. /\ outbox' = [outbox EXCEPT ![c] = @ \o a]
        /\ UNCHANGED <<peer, ready, pc>>
    BY <1>2 DEF Write
  <2>2. Len(Answer(k + 1)) = 2
    BY <1>1
  <2>3. Len(outbox[c]) \in Nat /\ Len(outbox[c]) <= SendBuf
    BY DEF TcpTypeOK, CountsInv
  <2>4. /\ m \in 0..2 /\ Len(outbox[c]) + m <= SendBuf
        /\ Len(outbox[c]) + 2 <= SendBuf => m = 2
    <3>1. m = IF 2 < SendBuf - Len(outbox[c]) THEN 2 ELSE SendBuf - Len(outbox[c])
      BY <2>2 DEF Smaller
    <3> QED
      BY <2>3, <3>1, SizeAssumption
  <2> HIDE DEF m
  <2>5. a = SubSeq(<<2 * k + 1, 2 * k + 2>>, 1, m)
    BY <1>1
  <2>6. 2 * k + 1 \in Nat /\ 2 * k + 2 \in Nat
    OBVIOUS
  <2>7. a \in AnswerPrefixes(k) /\ Len(a) = m
    <3>0. AnswerPrefixes(k) = {<<>>, <<2 * k + 1>>, <<2 * k + 1, 2 * k + 2>>}
      BY DEF AnswerPrefixes
    <3>1. CASE m = 0
      <4>1. a = SubSeq(<<2 * k + 1, 2 * k + 2>>, 1, 0)
        BY <2>5, <3>1, Zenon
      <4>2. a = <<>> /\ Len(<<>>) = 0
        BY <2>6, <4>1, PairPrefix, Zenon
      <4> QED
        BY <3>0, <3>1, <4>2
    <3>2. CASE m = 1
      <4>1. a = SubSeq(<<2 * k + 1, 2 * k + 2>>, 1, 1)
        BY <2>5, <3>2, Zenon
      <4>2. a = <<2 * k + 1>> /\ Len(<<2 * k + 1>>) = 1
        BY <2>6, <4>1, PairPrefix, Zenon
      <4> QED
        BY <3>0, <3>2, <4>2
    <3>3. CASE m = 2
      <4>1. a = SubSeq(<<2 * k + 1, 2 * k + 2>>, 1, 2)
        BY <2>5, <3>3, Zenon
      <4>2. a = <<2 * k + 1, 2 * k + 2>> /\ Len(<<2 * k + 1, 2 * k + 2>>) = 2
        BY <2>6, <4>1, PairPrefix, Zenon
      <4> QED
        BY <3>0, <3>3, <4>2
    <3>4. m = 0 \/ m = 1 \/ m = 2
      BY <2>4
    <3> QED
      BY <3>1, <3>2, <3>3, <3>4
  <2> HIDE DEF a
  <2>8. outbox[c] \o a \in Seq(Nat)
    <3>1. a \in Seq(Nat)
      BY <2>7, AnswerPrefixesType
    <3> QED
      BY <3>1 DEF TcpTypeOK
  <2> QED
    BY <1>2, <2>1, <2>4, <2>7, <2>8 DEF TcpTypeOK
<1>3. CASE peer[c] \notin {"open", "half"}
  BY <1>3 DEF Write, Notify, TcpTypeOK
<1> QED
  BY <1>2, <1>3

\* The lowest free descriptor is one.
LEMMA AcceptDescriptor ==
  ASSUME FreeFds # {}
  PROVE  (CHOOSE f \in FreeFds : \A g \in FreeFds : f <= g) \in FreeFds
<1>1. FreeFds \in SUBSET Nat
  BY FdAssumption DEF FreeFds
<1> QED
  BY <1>1, LeastExists

\* ProcessLine cuts the buffer of an open connection after its first newline.
LEMMA ProcessLineEffect ==
  ASSUME TcpTypeOK, LoopInv, BuffersMatchStream, ProcessLine
  PROVE  LET c == owner[cur]
             buf == read_buffers_[cur]
             line == FirstLine(buf) IN
         \E p \in 1..Len(buf) :
           /\ Is(buf[p], "nl")
           /\ \A j \in 1..(p - 1) : ~Is(buf[j], "nl")
           /\ line \in Seq(Byte) /\ Len(line) = p - 1
           /\ \A j \in 1..(p - 1) : line[j] = buf[j]
           /\ Trim(line) \in Seq(Byte)
           /\ SubSeq(buf, p + 1, Len(buf)) \in Seq(Byte)
           /\ Len(SubSeq(buf, p + 1, Len(buf))) = Len(buf) - p
           /\ read_buffers_' = [read_buffers_ EXCEPT ![cur] = SubSeq(buf, p + 1, Len(buf))]
<1> DEFINE buf == read_buffers_[cur]
<1>1. buf \in Seq(Byte) /\ Newlines(buf) # {}
  BY CurIsOpen DEF ProcessLine
<1>2. read_buffers_' =
        [read_buffers_ EXCEPT ![cur] = SubSeq(buf, Len(FirstLine(buf)) + 2, Len(buf))]
  BY DEF ProcessLine
<1> HIDE DEF buf
<1>3. PICK p \in 1..Len(buf) :
        /\ Is(buf[p], "nl")
        /\ \A j \in 1..(p - 1) : ~Is(buf[j], "nl")
        /\ FirstLine(buf) \in Seq(Byte)
        /\ Len(FirstLine(buf)) = p - 1
        /\ \A j \in 1..(p - 1) : FirstLine(buf)[j] = buf[j]
  BY <1>1, FirstLineProperties
<1>4. Trim(FirstLine(buf)) \in Seq(Byte)
  BY <1>3, TrimType
<1>5. Len(FirstLine(buf)) + 2 = p + 1 /\ p + 1 \in Int /\ Len(buf) \in Nat
  BY <1>1, <1>3, LenProperties
<1>6. \A j \in (p + 1)..Len(buf) : buf[j] \in Byte
  BY <1>1, <1>5, ElementOfSeq
<1>7. /\ SubSeq(buf, p + 1, Len(buf)) \in Seq(Byte)
      /\ Len(SubSeq(buf, p + 1, Len(buf))) =
           IF p + 1 <= Len(buf) THEN Len(buf) - (p + 1) + 1 ELSE 0
  BY <1>5, <1>6, SubSeqProperties
<1>8. Len(SubSeq(buf, p + 1, Len(buf))) = Len(buf) - p
  BY <1>3, <1>5, <1>7
<1>9. read_buffers_' = [read_buffers_ EXCEPT ![cur] = SubSeq(buf, p + 1, Len(buf))]
  BY <1>2, <1>5
<1> QED
  BY <1>3, <1>4, <1>7, <1>8, <1>9 DEF buf

LEMMA TypeStep ==
  ASSUME TcpTypeOK, LoopInv, OwnerInv, CountsInv, BuffersMatchStream, Next
  PROVE  TcpTypeOK'
<1>1. ASSUME NEW c \in Conns, Connect(c) PROVE TcpTypeOK'
  BY <1>1 DEF Connect, TcpTypeOK, loopVars, bufVars
<1>2. ASSUME NEW c \in Conns, Send(c) PROVE TcpTypeOK'
  <2>1. /\ sent' = [sent EXCEPT ![c] = sent[c] + 1]
        /\ ready' = ready \cup {f \in Fds : owner[f] = c}
        /\ UNCHANGED <<conn, peer, got, outbox, seen, owner, batch, pc, cur,
                       accumulated, read_buffers_, executed, active_connections_>>
    BY <1>2 DEF Send, Notify, loopVars, bufVars
  <2>2. sent' \in [Conns -> Nat]
    BY <2>1 DEF TcpTypeOK
  <2>3. ready' \in SUBSET Fds
    BY <2>1 DEF TcpTypeOK
  <2> QED
    BY <2>1, <2>2, <2>3 DEF TcpTypeOK
<1>3. ASSUME NEW c \in Conns, ReadAnswers(c) PROVE TcpTypeOK'
  <2>1. seen[c] \o outbox[c] \in Seq(Nat)
    BY DEF TcpTypeOK
  <2> QED
    BY <1>3, <2>1 DEF ReadAnswers, TcpTypeOK, loopVars, bufVars
<1>4. ASSUME NEW c \in Conns, NEW how \in {"half", "closed", "reset"}, HangUp(c, how)
      PROVE  TcpTypeOK'
  BY <1>4 DEF HangUp, Notify, TcpTypeOK, loopVars, bufVars
<1>5. CASE EpollWait
  BY <1>5 DEF EpollWait, Events, Backlog, TcpTypeOK, bufVars
<1>6. CASE BatchDone
  BY <1>6 DEF BatchDone, TcpTypeOK, netVars, bufVars
<1>7. ASSUME NEW e \in batch, Dispatch(e) PROVE TcpTypeOK'
  BY <1>7 DEF Dispatch, TcpTypeOK, netVars
<1>8. CASE AcceptDone
  BY <1>8 DEF AcceptDone, TcpTypeOK, netVars, bufVars
<1>9. ASSUME NEW c \in Conns, Accept(c) PROVE TcpTypeOK'
  <2> DEFINE fd == CHOOSE f \in FreeFds : \A g \in FreeFds : f <= g
  <2>1. fd \in Fds
    BY <1>9, AcceptDescriptor DEF Accept, FreeFds
  <2>2. /\ conn' = [conn EXCEPT ![c] = "open"]
        /\ owner' = [owner EXCEPT ![fd] = c]
        /\ active_connections_' = active_connections_ + 1
        /\ ready' \subseteq ready \cup {fd}
        /\ read_buffers_' = [read_buffers_ EXCEPT ![fd] = <<>>]
        /\ UNCHANGED <<peer, sent, got, outbox, seen, loopVars, accumulated, executed>>
    BY <1>9 DEF Accept
  <2> HIDE DEF fd
  <2>3. read_buffers_' \in [Fds -> Seq(Byte) \cup {NoBuffer}]
    BY <2>1, <2>2 DEF TcpTypeOK, Byte
  <2> QED
    BY <2>1, <2>2, <2>3 DEF TcpTypeOK, loopVars, Byte
<1>10. CASE ReadData
  <2> DEFINE c == owner[cur]
             n == Smaller(ReadSize, sent[c] - got[c])
             new == Bytes(c, got[c] + 1, got[c] + n)
  <2>1. c \in Conns
    BY <1>10, CurIsOpen DEF ReadData
  <2>2. n \in Nat /\ got[c] \in Nat
    <3>1. got[c] \in Nat /\ sent[c] \in Nat
      BY <2>1 DEF TcpTypeOK
    <3>2. got[c] < sent[c]
      BY <1>10 DEF ReadData
    <3> QED
      BY <3>1, <3>2, SizeAssumption DEF Smaller
  <2>3. got' = [got EXCEPT ![c] = @ + n] /\ accumulated' = accumulated \o new
    BY <1>10 DEF ReadData
  <2> HIDE DEF n
  <2>4. new \in Seq(Byte)
    <3>1. got[c] + 1 \in Nat /\ got[c] + n \in Nat /\ got[c] + 1 <= (got[c] + n) + 1
      BY <2>2
    <3> QED
      BY <2>1, <3>1, BytesProperties
  <2> HIDE DEF new
  <2>5. accumulated' \in Seq(Byte)
    BY <2>3, <2>4 DEF TcpTypeOK, Byte
  <2>6. got' \in [Conns -> Nat]
    BY <2>1, <2>2, <2>3 DEF TcpTypeOK
  <2> QED
    BY <1>10, <2>5, <2>6 DEF ReadData, TcpTypeOK, loopVars, Byte
<1>11. CASE ReadClose
  <2>1. owner[cur] \in Conns /\ cur \in Fds
    BY <1>11, CurIsOpen DEF ReadClose
  <2>2. active_connections_' \in Nat
    BY <1>11 DEF ReadClose, TcpTypeOK
  <2> QED
    BY <1>11, <2>1, <2>2 DEF ReadClose, TcpTypeOK
<1>12. CASE ReadAgain
  <2>1. cur \in Fds /\ read_buffers_[cur] \in Seq(Byte)
    BY <1>12, CurIsOpen DEF ReadAgain
  <2>2. read_buffers_[cur] \o accumulated \in Seq(Byte)
    BY <2>1 DEF TcpTypeOK, Byte
  <2> QED
    BY <1>12, <2>1, <2>2 DEF ReadAgain, TcpTypeOK, netVars, Byte
<1>13. CASE ProcessLine
  <2> DEFINE c == owner[cur]
             line == Trim(FirstLine(read_buffers_[cur]))
  <2>1. c \in Conns /\ cur \in Fds
    BY <1>13, CurIsOpen DEF ProcessLine
  <2>2. line \in Seq(Byte) /\ read_buffers_' \in [Fds -> Seq(Byte) \cup {NoBuffer}]
    BY <1>13, ProcessLineEffect, <2>1 DEF TcpTypeOK, Byte
  <2>3. CASE line = <<>>
    BY <1>13, <2>2, <2>3 DEF ProcessLine, TcpTypeOK, Byte
  <2>4. CASE line # <<>>
    <3>1. /\ executed' = [executed EXCEPT ![c] = Append(@, line)]
          /\ Write(c, Answer(Len(executed[c]) + 1))
          /\ UNCHANGED <<conn, sent, got, seen, owner, batch, cur, accumulated,
                          active_connections_>>
          /\ pc = "process"
      BY <1>13, <2>4 DEF ProcessLine
    <3> HIDE DEF line
    <3>2. executed[c] \in Seq(Seq(Byte)) /\ Len(executed[c]) \in Nat
      BY <2>1 DEF TcpTypeOK, Byte
    <3>3. executed' \in [Conns -> Seq(Seq(Byte))]
      BY <2>1, <2>2, <3>1, <3>2 DEF TcpTypeOK, Byte
    <3>4. /\ peer' \in [Conns -> {"open", "half", "closed", "reset", "dead"}]
          /\ pc' \in {pc, "killed"}
          /\ ready' \subseteq ready \cup {f \in Fds : owner[f] = c}
          /\ outbox' \in [Conns -> Seq(Nat)]
      BY <2>1, <3>1, <3>2, WriteEffect
    <3>5. ready' \in SUBSET Fds /\ pc' \in {"process", "killed"}
      BY <3>1, <3>4 DEF TcpTypeOK
    <3> QED
      BY <2>2, <3>1, <3>3, <3>4, <3>5 DEF TcpTypeOK, Byte
  <2> QED
    BY <2>3, <2>4
<1>14. CASE ProcessDone
  BY <1>14 DEF ProcessDone, TcpTypeOK, netVars, bufVars
<1>15. CASE Restart
  BY <1>15 DEF Restart, TcpTypeOK
<1> QED
  BY <1>1, <1>2, <1>3, <1>4, <1>5, <1>6, <1>7, <1>8, <1>9, <1>10, <1>11, <1>12,
     <1>13, <1>14, <1>15 DEF Next, Server, Client

-----------------------------------------------------------------------------
\* Descriptors, edges and events.

\* What running a line does apart from the answer and the buffer.
LEMMA ProcessLineNet ==
  ASSUME TcpTypeOK, LoopInv, CountsInv, BuffersMatchStream, ProcessLine
  PROVE  /\ pc = "process" /\ pc' \in {"process", "killed"}
         /\ ready \subseteq ready'
         /\ ready' \subseteq ready \cup {f \in Fds : owner[f] = owner[cur]}
         /\ \A d \in Conns : peer'[d] = peer[d] \/ (peer[d] # "open" /\ peer'[d] = "dead")
         /\ UNCHANGED <<conn, sent, got, seen, owner, batch, cur, accumulated,
                        active_connections_>>
<1> DEFINE c == owner[cur]
           line == Trim(FirstLine(read_buffers_[cur]))
<1>1. c \in Conns
  BY CurIsOpen DEF ProcessLine
<1>2. /\ UNCHANGED <<conn, sent, got, seen, owner, batch, cur, accumulated,
                     active_connections_>>
      /\ pc = "process"
  BY DEF ProcessLine
<1>3. CASE line = <<>>
  BY <1>3 DEF ProcessLine
<1>4. CASE line # <<>>
  <2>1. Write(c, Answer(Len(executed[c]) + 1))
    BY <1>4 DEF ProcessLine
  <2>2. Len(executed[c]) \in Nat
    BY <1>1 DEF TcpTypeOK
  <2>3. /\ pc' \in {pc, "killed"}
        /\ ready \subseteq ready' /\ ready' \subseteq ready \cup {f \in Fds : owner[f] = c}
        /\ \A d \in Conns : peer'[d] = peer[d] \/ (peer[d] # "open" /\ peer'[d] = "dead")
    BY <1>1, <2>1, <2>2, WriteEffect
  <2> QED
    BY <1>2, <2>3
<1> QED
  BY <1>3, <1>4

LEMMA OwnerStep ==
  ASSUME TcpTypeOK, LoopInv, OwnerInv, CountsInv, BuffersMatchStream, Next
  PROVE  LoopInv' /\ OwnerInv'
<1> USE DEF LoopInv, OwnerInv, OpenFds
<1>1. ASSUME NEW c \in Conns, Connect(c) PROVE LoopInv' /\ OwnerInv'
  BY <1>1 DEF Connect, TcpTypeOK, loopVars
<1>2. ASSUME NEW c \in Conns, Send(c) PROVE LoopInv' /\ OwnerInv'
  BY <1>2, FreeAssumption DEF Send, Notify, loopVars
<1>3. ASSUME NEW c \in Conns, ReadAnswers(c) PROVE LoopInv' /\ OwnerInv'
  BY <1>3 DEF ReadAnswers, loopVars
<1>4. ASSUME NEW c \in Conns, NEW how \in {"half", "closed", "reset"}, HangUp(c, how)
      PROVE  LoopInv' /\ OwnerInv'
  BY <1>4, FreeAssumption DEF HangUp, Notify, loopVars
<1>5. CASE EpollWait
  <2>1. \A e \in batch' : e.fd # ListenFd => e.conn # Free /\ owner[e.fd] = e.conn
    BY <1>5 DEF EpollWait, Events
  <2> QED
    BY <1>5, <2>1 DEF EpollWait
<1>6. CASE BatchDone
  BY <1>6 DEF BatchDone, netVars
<1>7. ASSUME NEW e \in batch, Dispatch(e) PROVE LoopInv' /\ OwnerInv'
  <2>1. OwnerInv'
    BY <1>7 DEF Dispatch, netVars
  <2>2. CASE e.fd = ListenFd
    BY <1>7, <2>1, <2>2 DEF Dispatch
  <2>3. CASE e.fd # ListenFd
    <3>1. e.fd \in Fds /\ owner[e.fd] = e.conn /\ e.conn # Free
      BY <2>3 DEF TcpTypeOK
    <3>2. ASSUME NEW d \in batch, d.fd = e.fd PROVE d = e
      <4>1. d.conn = e.conn
        BY <2>3, <3>1, <3>2
      <4>2. d = [fd |-> d.fd, conn |-> d.conn] /\ e = [fd |-> e.fd, conn |-> e.conn]
        BY DEF TcpTypeOK
      <4> QED
        BY <3>2, <4>1, <4>2
    <3>3. \A d \in batch' : d.fd # cur'
      BY <1>7, <3>2 DEF Dispatch
    <3> QED
      BY <1>7, <2>1, <3>1, <3>3 DEF Dispatch, netVars
  <2> QED
    BY <2>2, <2>3
<1>8. CASE AcceptDone
  BY <1>8 DEF AcceptDone, netVars
<1>9. ASSUME NEW c \in Conns, Accept(c) PROVE LoopInv' /\ OwnerInv'
  <2> DEFINE fd == CHOOSE f \in FreeFds : \A g \in FreeFds : f <= g
  <2>1. fd \in Fds /\ owner[fd] = Free
    BY <1>9, AcceptDescriptor DEF Accept, FreeFds
  <2>2. /\ conn[c] = "backlog" /\ pc = "accept"
        /\ conn' = [conn EXCEPT ![c] = "open"]
        /\ owner' = [owner EXCEPT ![fd] = c]
        /\ ready' \subseteq ready \cup {fd}
        /\ UNCHANGED <<batch, pc, cur>>
    BY <1>9 DEF Accept, Backlog, loopVars
  <2> HIDE DEF fd
  <2>3. OpenFds' = OpenFds \cup {fd}
    BY <2>1, <2>2, FreeAssumption DEF TcpTypeOK
  <2>4. \A f \in OpenFds : f # fd /\ owner'[f] = owner[f] /\ owner[f] # c
    BY <2>1, <2>2 DEF TcpTypeOK
  <2>5. owner'[fd] = c /\ conn'[c] = "open"
    BY <2>1, <2>2 DEF TcpTypeOK
  <2>6. \A f \in OpenFds' : conn'[owner'[f]] = "open"
    BY <2>2, <2>3, <2>4, <2>5 DEF TcpTypeOK
  <2>7. \A f, g \in OpenFds' : owner'[f] = owner'[g] => f = g
    BY <2>3, <2>4, <2>5
  <2>8. \A e \in batch' : e.fd # ListenFd => e.conn # Free /\ owner'[e.fd] = e.conn
    BY <2>1, <2>2 DEF TcpTypeOK
  <2> QED
    BY <2>2, <2>3, <2>6, <2>7, <2>8
<1>10. CASE ReadData
  BY <1>10 DEF ReadData, loopVars
<1>11. CASE ReadClose
  <2>1. owner[cur] \in Conns /\ cur \in Fds /\ cur \in OpenFds
    BY <1>11, CurIsOpen DEF ReadClose
  <2>2. OpenFds' = OpenFds \ {cur}
    BY <1>11, <2>1 DEF ReadClose, TcpTypeOK
  <2>3. \A f \in OpenFds' : owner'[f] = owner[f] /\ owner[f] # owner[cur]
    BY <1>11, <2>1, <2>2 DEF ReadClose, TcpTypeOK
  <2>4. \A f \in OpenFds' : conn'[owner'[f]] = "open"
    BY <1>11, <2>1, <2>2, <2>3 DEF ReadClose, TcpTypeOK
  <2>5. \A e \in batch' : e.fd # ListenFd => e.conn # Free /\ owner'[e.fd] = e.conn
    BY <1>11, <2>1 DEF ReadClose, TcpTypeOK
  <2> QED
    BY <1>11, <2>2, <2>3, <2>4, <2>5 DEF ReadClose
<1>12. CASE ReadAgain
  BY <1>12 DEF ReadAgain, netVars
<1>13. CASE ProcessLine
  BY <1>13, ProcessLineNet, CurIsOpen, FreeAssumption
<1>14. CASE ProcessDone
  BY <1>14 DEF ProcessDone, netVars
<1>15. CASE Restart
  BY <1>15 DEF Restart
<1> QED
  BY <1>1, <1>2, <1>3, <1>4, <1>5, <1>6, <1>7, <1>8, <1>9, <1>10, <1>11, <1>12,
     <1>13, <1>14, <1>15 DEF Next, Server, Client

-----------------------------------------------------------------------------
\* Wakeups.

\* An action that leaves the buffers alone and changes the network at most for
\* one connection, whose descriptor gets an edge.
LEMMA WakeClient ==
  ASSUME TcpTypeOK, WakeInv, NEW c \in Conns,
         \A d \in Conns \ {c} : HasInput(d)' <=> HasInput(d),
         (HasInput(c)' <=> HasInput(c)) \/ Notify(c),
         ready \subseteq ready',
         UNCHANGED <<owner, batch, pc, cur, read_buffers_>>
  PROVE  WakeInv'
<1>1. OpenFds' = OpenFds
  BY DEF OpenFds
<1>2. SUFFICES ASSUME pc # "killed", NEW f \in OpenFds
               PROVE  (HasInput(owner[f])' => Awake(f)') /\ NoLineWaits(f)'
  BY <1>1 DEF WakeInv
<1>3. /\ HasInput(owner[f]) => Awake(f)
      /\ NoLineWaits(f)
  BY <1>2 DEF WakeInv
<1>4. owner[f] \in Conns /\ f \in Fds /\ owner'[f] = owner[f]
  BY <1>2 DEF OpenFds, TcpTypeOK
<1>5. HasInput(owner[f])' => Awake(f)'
  BY <1>3, <1>4 DEF Awake, Notify
<1>6. NoLineWaits(f)'
  BY <1>3 DEF NoLineWaits, Newlines, Is
<1> QED
  BY <1>5, <1>6

LEMMA WakeStep ==
  ASSUME TcpTypeOK, LoopInv, OwnerInv, CountsInv, BuffersMatchStream, WakeInv, Next
  PROVE  WakeInv'
<1>1. ASSUME NEW c \in Conns, Connect(c) PROVE WakeInv'
  <2>1. \A d \in Conns : HasInput(d)' <=> HasInput(d)
    BY <1>1 DEF Connect, HasInput
  <2> QED
    BY <1>1, <2>1, WakeClient DEF Connect, loopVars, bufVars
<1>2. ASSUME NEW c \in Conns, Send(c) PROVE WakeInv'
  <2>1. \A d \in Conns \ {c} : HasInput(d)' <=> HasInput(d)
    BY <1>2 DEF Send, HasInput, TcpTypeOK
  <2> QED
    BY <1>2, <2>1, WakeClient DEF Send, Notify, loopVars, bufVars
<1>3. ASSUME NEW c \in Conns, ReadAnswers(c) PROVE WakeInv'
  <2>1. \A d \in Conns : HasInput(d)' <=> HasInput(d)
    BY <1>3 DEF ReadAnswers, HasInput
  <2> QED
    BY <1>3, <2>1, WakeClient DEF ReadAnswers, loopVars, bufVars
<1>4. ASSUME NEW c \in Conns, NEW how \in {"half", "closed", "reset"}, HangUp(c, how)
      PROVE  WakeInv'
  <2>1. \A d \in Conns \ {c} : HasInput(d)' <=> HasInput(d)
    BY <1>4 DEF HangUp, HasInput, TcpTypeOK
  <2> QED
    BY <1>4, <2>1, WakeClient DEF HangUp, Notify, loopVars, bufVars
<1> SUFFICES ASSUME pc' # "killed", pc # "killed", NEW f \in OpenFds'
             PROVE  (HasInput(owner[f])' => Awake(f)') /\ NoLineWaits(f)'
  <2>1. CASE pc' = "killed"
    BY <2>1 DEF WakeInv
  <2>2. CASE pc = "killed"
    <3>1. ASSUME Restart PROVE OpenFds' = {}
      BY <3>1 DEF Restart, OpenFds
    <3> QED
      BY <1>1, <1>2, <1>3, <1>4, <2>2, <3>1
         DEF WakeInv, Next, Server, Client, EpollWait, BatchDone, Dispatch, Accept, AcceptDone,
             ReadData, ReadClose, ReadAgain, ProcessLine, ProcessDone
  <2> QED
    BY <2>1, <2>2 DEF WakeInv
<1> DEFINE Goal == (HasInput(owner[f])' => Awake(f)') /\ NoLineWaits(f)'
<1>a. ASSUME NEW g \in OpenFds PROVE (HasInput(owner[g]) => Awake(g)) /\ NoLineWaits(g)
  BY DEF WakeInv
<1>b. ASSUME NEW g \in OpenFds PROVE g \in Fds /\ owner[g] \in Conns
  BY DEF OpenFds, TcpTypeOK
<1>5. CASE EpollWait
  <2>1. f \in OpenFds /\ HasInput(owner[f])' = HasInput(owner[f])
    BY <1>5 DEF EpollWait, OpenFds, HasInput
  <2>2. batch = {} /\ pc = "wait"
    BY <1>5 DEF EpollWait, LoopInv
  <2>3. Awake(f) => Awake(f)'
    <3>1. ASSUME f \in ready PROVE \E e \in batch' : e.fd = f
      <4>1. [fd |-> f, conn |-> owner[f]] \in batch'
        BY <1>5, <3>1 DEF EpollWait, Events
      <4> QED
        BY <4>1
    <3> QED
      BY <2>2, <3>1 DEF Awake
  <2>4. NoLineWaits(f) => NoLineWaits(f)'
    BY <1>5, <2>2 DEF EpollWait, bufVars, NoLineWaits, Newlines, Is
  <2> QED
    BY <1>a, <2>1, <2>3, <2>4
<1>6. CASE BatchDone
  <2>1. f \in OpenFds /\ HasInput(owner[f])' = HasInput(owner[f])
    BY <1>6 DEF BatchDone, netVars, OpenFds, HasInput
  <2>2. (Awake(f) => Awake(f)') /\ (NoLineWaits(f) => NoLineWaits(f)')
    BY <1>6 DEF BatchDone, netVars, bufVars, Awake, NoLineWaits, Newlines, Is
  <2> QED
    BY <1>a, <2>1, <2>2
<1>7. ASSUME NEW e \in batch, Dispatch(e) PROVE Goal
  <2>1. f \in OpenFds /\ HasInput(owner[f])' = HasInput(owner[f])
    BY <1>7 DEF Dispatch, netVars, OpenFds, HasInput
  <2>2. f # ListenFd
    BY <1>b, <2>1, FdAssumption
  <2>3. (Awake(f) => Awake(f)') /\ (NoLineWaits(f) => NoLineWaits(f)')
    BY <1>7, <2>2 DEF Dispatch, netVars, Awake, NoLineWaits, Newlines, Is
  <2> QED
    BY <1>a, <2>1, <2>3
<1>8. CASE AcceptDone
  <2>1. f \in OpenFds /\ HasInput(owner[f])' = HasInput(owner[f])
    BY <1>8 DEF AcceptDone, netVars, OpenFds, HasInput
  <2>2. (Awake(f) => Awake(f)') /\ (NoLineWaits(f) => NoLineWaits(f)')
    BY <1>8 DEF AcceptDone, netVars, bufVars, Awake, NoLineWaits, Newlines, Is
  <2> QED
    BY <1>a, <2>1, <2>2
<1>9. ASSUME NEW c \in Conns, Accept(c) PROVE Goal
  <2> DEFINE fd == CHOOSE h \in FreeFds : \A g \in FreeFds : h <= g
  <2>1. fd \in Fds /\ owner[fd] = Free
    BY <1>9, AcceptDescriptor DEF Accept, FreeFds
  <2>2. /\ owner' = [owner EXCEPT ![fd] = c]
        /\ ready' = IF HasInput(c) THEN ready \cup {fd} ELSE ready
        /\ read_buffers_' = [read_buffers_ EXCEPT ![fd] = <<>>]
        /\ UNCHANGED <<peer, sent, got, batch, pc, cur>>
        /\ pc = "accept"
    BY <1>9 DEF Accept, loopVars
  <2> HIDE DEF fd
  <2>3. CASE f = fd
    <3>1. owner'[f] = c /\ read_buffers_'[f] = <<>>
      BY <2>1, <2>2, <2>3 DEF TcpTypeOK
    <3>2. Newlines(<<>>)' = {}
      BY DEF Newlines
    <3> QED
      BY <2>2, <2>3, <3>1, <3>2 DEF HasInput, Awake, NoLineWaits
  <2>4. CASE f # fd
    <3>1. f \in OpenFds /\ owner'[f] = owner[f] /\ read_buffers_'[f] = read_buffers_[f]
      BY <2>1, <2>2, <2>4 DEF OpenFds, TcpTypeOK
    <3>2. HasInput(owner[f])' = HasInput(owner[f])
      BY <2>2, <3>1 DEF HasInput
    <3>3. (Awake(f) => Awake(f)') /\ (NoLineWaits(f) => NoLineWaits(f)')
      BY <2>2, <3>1 DEF Awake, NoLineWaits, Newlines, Is
    <3> QED
      BY <1>a, <3>1, <3>2, <3>3
  <2> QED
    BY <2>3, <2>4
<1>10. CASE ReadData
  <2>1. f \in OpenFds
    BY <1>10 DEF ReadData, OpenFds
  <2>2. owner[cur] \in Conns /\ cur \in OpenFds
    BY <1>10, CurIsOpen DEF ReadData
  <2>3. NoLineWaits(f) => NoLineWaits(f)'
    BY <1>10 DEF ReadData, loopVars, NoLineWaits, Newlines, Is
  <2>4. CASE f = cur
    BY <1>10, <1>a, <2>1, <2>3, <2>4 DEF ReadData, loopVars, Awake
  <2>5. CASE f # cur
    <3>1. owner[f] # owner[cur]
      BY <2>1, <2>2, <2>5 DEF OwnerInv
    <3>2. HasInput(owner[f])' = HasInput(owner[f])
      BY <1>10, <1>b, <2>1, <2>2, <3>1 DEF ReadData, HasInput, TcpTypeOK
    <3> QED
      BY <1>10, <1>a, <2>1, <2>3, <3>2 DEF ReadData, loopVars, Awake
  <2> QED
    BY <2>4, <2>5
<1>11. CASE ReadClose
  <2>1. cur \in OpenFds /\ cur \in Fds
    BY <1>11, CurIsOpen DEF ReadClose
  <2>2. f \in OpenFds /\ f # cur
    BY <1>11, <2>1 DEF ReadClose, OpenFds, TcpTypeOK
  <2>3. owner'[f] = owner[f] /\ read_buffers_'[f] = read_buffers_[f]
    BY <1>11, <1>b, <2>1, <2>2 DEF ReadClose, TcpTypeOK
  <2>4. HasInput(owner[f])' = HasInput(owner[f])
    BY <1>11, <2>3 DEF ReadClose, HasInput
  <2>5. (Awake(f) => Awake(f)') /\ (NoLineWaits(f) => NoLineWaits(f)')
    BY <1>11, <2>2, <2>3 DEF ReadClose, Awake, NoLineWaits, Newlines, Is
  <2> QED
    BY <1>a, <2>2, <2>4, <2>5
<1>12. CASE ReadAgain
  <2>1. cur \in OpenFds /\ cur \in Fds
    BY <1>12, CurIsOpen DEF ReadAgain
  <2>2. f \in OpenFds /\ HasInput(owner[f])' = HasInput(owner[f])
    BY <1>12 DEF ReadAgain, netVars, OpenFds, HasInput
  <2>3. CASE f = cur
    <3>1. ~HasInput(owner[f])
      BY <1>12, <1>b, <2>2, <2>3 DEF ReadAgain, HasInput, TcpTypeOK
    <3>2. NoLineWaits(f) => NoLineWaits(f)'
      BY <1>12, <2>3 DEF ReadAgain, NoLineWaits, Newlines, Is
    <3> QED
      BY <1>a, <2>2, <3>1, <3>2
  <2>4. CASE f # cur
    <3>1. read_buffers_'[f] = read_buffers_[f]
      BY <1>12, <1>b, <2>2, <2>4 DEF ReadAgain, TcpTypeOK
    <3>2. (Awake(f) => Awake(f)') /\ (NoLineWaits(f) => NoLineWaits(f)')
      BY <1>12, <2>4, <3>1 DEF ReadAgain, netVars, Awake, NoLineWaits, Newlines, Is
    <3> QED
      BY <1>a, <2>2, <3>2
  <2> QED
    BY <2>3, <2>4
<1>13. CASE ProcessLine
  <2>1. /\ pc = "process" /\ pc' = "process" /\ ready \subseteq ready'
        /\ \A d \in Conns : peer'[d] = peer[d] \/ (peer[d] # "open" /\ peer'[d] = "dead")
        /\ UNCHANGED <<sent, got, owner, batch, cur>>
    BY <1>13, ProcessLineNet
  <2>2. f \in OpenFds /\ owner'[f] = owner[f]
    BY <2>1 DEF OpenFds
  <2>3. HasInput(owner[f])' => HasInput(owner[f])
    BY <1>b, <2>1, <2>2 DEF HasInput
  <2>4. Awake(f) => Awake(f)'
    BY <2>1 DEF Awake
  <2>5. NoLineWaits(f) => NoLineWaits(f)'
    <3>1. CASE f = cur
      BY <2>1, <3>1 DEF NoLineWaits
    <3>2. CASE f # cur
      <4>1. read_buffers_'[f] = read_buffers_[f]
        BY <1>13, <1>b, <2>2, <3>2 DEF ProcessLine, TcpTypeOK
      <4> QED
        BY <2>1, <3>2, <4>1 DEF NoLineWaits, Newlines, Is
    <3> QED
      BY <3>1, <3>2
  <2> QED
    BY <1>a, <2>2, <2>3, <2>4, <2>5
<1>14. CASE ProcessDone
  <2>1. f \in OpenFds /\ HasInput(owner[f])' = HasInput(owner[f])
    BY <1>14 DEF ProcessDone, netVars, OpenFds, HasInput
  <2>2. (Awake(f) => Awake(f)') /\ (NoLineWaits(f) => NoLineWaits(f)')
    BY <1>14 DEF ProcessDone, netVars, bufVars, Awake, NoLineWaits, Newlines, Is
  <2> QED
    BY <1>a, <2>1, <2>2
<1>15. CASE Restart
  BY <1>15 DEF Restart
<1>16. ASSUME NEW c \in Conns, Client(c) PROVE Goal
  <2>1. WakeInv'
    BY <1>1, <1>2, <1>3, <1>4, <1>16 DEF Client
  <2> QED
    BY <2>1 DEF WakeInv
<1> QED
  BY <1>5, <1>6, <1>7, <1>8, <1>9, <1>10, <1>11, <1>12, <1>13, <1>14, <1>15, <1>16
     DEF Next, Server

-----------------------------------------------------------------------------
\* Buffers.

\* NoBuffer is no sequence, and a descriptor has a buffer while it is open.
BufferOpen == \A f \in Fds : read_buffers_[f] = NoBuffer <=> owner[f] = Free

\* What BuffersMatchStream and CountsInv say of an open descriptor.
StreamOf(f) ==
  LET c == owner[f] IN
  /\ Len(Held(f)) <= got[c]
  /\ Held(f) = Bytes(c, got[c] - Len(Held(f)) + 1, got[c])

\* Outside the read loop a descriptor holds its buffer and nothing else.
LEMMA HeldProperties ==
  ASSUME TcpTypeOK, BufferOpen, NEW f \in OpenFds
  PROVE  /\ f \in Fds /\ owner[f] \in Conns
         /\ read_buffers_[f] \in Seq(Byte) /\ accumulated \in Seq(Byte)
         /\ read_buffers_[f] \o <<>> = read_buffers_[f]
         /\ Held(f) \in Seq(Byte) /\ Len(Held(f)) \in Nat
         /\ ~(pc = "read" /\ cur = f) => Held(f) = read_buffers_[f]
         /\ (pc = "read" /\ cur = f) => Held(f) = read_buffers_[f] \o accumulated
<1>1. f \in Fds /\ owner[f] \in Conns
  BY DEF OpenFds, TcpTypeOK
<1>2. read_buffers_[f] # NoBuffer
  BY <1>1, FreeAssumption DEF BufferOpen
<1>3. read_buffers_[f] \in Seq(Byte) /\ accumulated \in Seq(Byte)
  BY <1>1, <1>2 DEF TcpTypeOK, Byte
<1>4. read_buffers_[f] \o <<>> = read_buffers_[f]
  BY <1>3, ConcatEmptySeq
<1>5. read_buffers_[f] \o accumulated \in Seq(Byte)
  BY <1>3, ConcatProperties
<1>6. Held(f) \in Seq(Byte)
  BY <1>3, <1>4, <1>5 DEF Held
<1> QED
  BY <1>1, <1>3, <1>4, <1>6, LenProperties DEF Held

\* Every action but reading and running a line keeps what the open descriptors
\* hold; a descriptor it opens holds nothing.
LEMMA HeldKept ==
  ASSUME TcpTypeOK, LoopInv, OwnerInv, BuffersMatchStream, Next, ~ReadData, ~ProcessLine
  PROVE  /\ got' = got /\ executed' = executed
         /\ BufferOpen'
         /\ \A f \in OpenFds' : f \in OpenFds => owner'[f] = owner[f] /\ Held(f)' = Held(f)
         /\ \A f \in OpenFds' : f \notin OpenFds => Held(f)' = <<>>
<1> DEFINE Kept == /\ got' = got /\ executed' = executed
                   /\ BufferOpen'
                   /\ \A f \in OpenFds' : f \in OpenFds => owner'[f] = owner[f] /\ Held(f)' = Held(f)
                   /\ \A f \in OpenFds' : f \notin OpenFds => Held(f)' = <<>>
<1>0. BufferOpen
  BY DEF BuffersMatchStream, BufferOpen
<1>1. ASSUME NEW c \in Conns, Client(c) PROVE Kept
  BY <1>0, <1>1 DEF Client, Connect, Send, ReadAnswers, HangUp, loopVars, bufVars,
                    OpenFds, Held, BufferOpen
<1>2. CASE EpollWait \/ BatchDone \/ AcceptDone \/ ProcessDone
  BY <1>0, <1>2 DEF EpollWait, BatchDone, AcceptDone, ProcessDone, netVars, bufVars,
                    OpenFds, Held, BufferOpen
<1>3. ASSUME NEW e \in batch, Dispatch(e) PROVE Kept
  <2>1. /\ UNCHANGED <<netVars, read_buffers_, executed>>
        /\ accumulated' = <<>> /\ pc = "dispatch"
    BY <1>3 DEF Dispatch
  <2>2. OpenFds' = OpenFds
    BY <2>1 DEF netVars, OpenFds
  <2>3. ASSUME NEW f \in OpenFds PROVE Held(f)' = Held(f)
    <3>1. Held(f) = read_buffers_[f] /\ read_buffers_[f] \o <<>> = read_buffers_[f]
      BY <1>0, <2>1, HeldProperties
    <3>2. Held(f)' = read_buffers_[f] \o <<>>
      BY <2>1 DEF Held
    <3> QED
      BY <3>1, <3>2
  <2> QED
    BY <1>0, <2>1, <2>2, <2>3 DEF netVars, BufferOpen
<1>4. ASSUME NEW c \in Conns, Accept(c) PROVE Kept
  <2>1. PICK fd \in Fds :
          /\ owner[fd] = Free
          /\ owner' = [owner EXCEPT ![fd] = c]
          /\ read_buffers_' = [read_buffers_ EXCEPT ![fd] = <<>>]
    BY <1>4, AcceptDescriptor DEF Accept, FreeFds
  <2>2. UNCHANGED <<got, pc, cur, accumulated, executed>> /\ pc = "accept"
    BY <1>4 DEF Accept, loopVars
  <2>3. owner'[fd] = c /\ read_buffers_'[fd] = <<>>
    BY <2>1, <2>2 DEF TcpTypeOK
  <2>4. \A f \in Fds : f # fd => owner'[f] = owner[f] /\ read_buffers_'[f] = read_buffers_[f]
    BY <2>1, <2>2 DEF TcpTypeOK
  <2>5. <<>> # NoBuffer /\ c # Free
    <3>1. <<>> \in Seq(Conns \X Nat)
      OBVIOUS
    <3> QED
      BY <3>1, BufferAssumption, FreeAssumption
  <2>6. BufferOpen'
    BY <1>0, <2>3, <2>4, <2>5 DEF BufferOpen
  <2>7. Held(fd)' = <<>>
    <3>1. <<>> \o <<>> = <<>>
      BY EmptySeq, ConcatEmptySeq
    <3> QED
      BY <2>2, <2>3, <3>1 DEF Held
  <2>8. \A f \in OpenFds' : f = fd \/ f \in OpenFds
    BY <2>4 DEF OpenFds
  <2>9. \A f \in OpenFds : f # fd /\ f \in Fds
    BY <2>1 DEF OpenFds
  <2>10. \A f \in OpenFds : owner'[f] = owner[f] /\ Held(f)' = Held(f)
    BY <2>2, <2>4, <2>9 DEF Held
  <2> QED
    BY <2>2, <2>6, <2>7, <2>8, <2>10
<1>5. CASE ReadClose
  <2>1. cur \in OpenFds /\ cur \in Fds
    BY <1>5, CurIsOpen DEF ReadClose
  <2>2. /\ owner' = [owner EXCEPT ![cur] = Free]
        /\ read_buffers_' = [read_buffers_ EXCEPT ![cur] = NoBuffer]
        /\ UNCHANGED <<got, cur, accumulated, executed>>
    BY <1>5 DEF ReadClose
  <2>3. owner'[cur] = Free /\ read_buffers_'[cur] = NoBuffer
    BY <2>1, <2>2 DEF TcpTypeOK
  <2>4. \A f \in Fds : f # cur => owner'[f] = owner[f] /\ read_buffers_'[f] = read_buffers_[f]
    BY <2>1, <2>2 DEF TcpTypeOK
  <2>5. BufferOpen'
    BY <1>0, <2>3, <2>4 DEF BufferOpen
  <2>6. \A f \in OpenFds' : f # cur /\ f \in Fds
    BY <2>3 DEF OpenFds
  <2>7. \A f \in OpenFds' : f \in OpenFds /\ owner'[f] = owner[f] /\ Held(f)' = Held(f)
    BY <2>2, <2>4, <2>6 DEF Held, OpenFds
  <2> QED
    BY <2>2, <2>5, <2>7
<1>6. CASE ReadAgain
  <2>1. cur \in OpenFds /\ cur \in Fds
    BY <1>6, CurIsOpen DEF ReadAgain
  <2>2. /\ UNCHANGED <<netVars, cur, accumulated, executed>>
        /\ pc = "read" /\ pc' # "read"
    BY <1>6 DEF ReadAgain
  <2>3. OpenFds' = OpenFds
    BY <2>2 DEF netVars, OpenFds
  <2>4. /\ read_buffers_[cur] \o accumulated \in Seq(Byte)
        /\ Held(cur) = read_buffers_[cur] \o accumulated
        /\ read_buffers_[cur] \o <<>> = read_buffers_[cur]
    BY <1>0, <2>1, <2>2, HeldProperties
  <2>5. /\ read_buffers_'[cur] = read_buffers_[cur] \o accumulated
        /\ \A f \in Fds : f # cur => read_buffers_'[f] = read_buffers_[f]
    BY <1>6, <2>1, <2>4 DEF ReadAgain, TcpTypeOK
  <2>6. read_buffers_'[cur] # NoBuffer
    BY <2>4, <2>5, BufferAssumption DEF Byte
  <2>7. BufferOpen'
    BY <1>0, <2>1, <2>2, <2>5, <2>6 DEF BufferOpen, netVars, OpenFds
  <2>8. (read_buffers_[cur] \o accumulated) \o <<>> = read_buffers_[cur] \o accumulated
    BY <2>4, ConcatEmptySeq
  <2>9. Held(cur)' = Held(cur)
    BY <2>2, <2>4, <2>5, <2>8 DEF Held
  <2>10. ASSUME NEW f \in OpenFds, f # cur PROVE Held(f)' = Held(f)
    BY <2>2, <2>5, <2>10 DEF Held, OpenFds
  <2> QED
    BY <2>2, <2>3, <2>7, <2>9, <2>10 DEF netVars
<1>7. CASE Restart
  BY <1>7 DEF Restart, BufferOpen, OpenFds
<1> QED
  BY <1>1, <1>2, <1>3, <1>4, <1>5, <1>6, <1>7 DEF Next, Server

\* read() appends the next bytes of the connection.
LEMMA ReadDataEffect ==
  ASSUME TcpTypeOK, LoopInv, OwnerInv, CountsInv, BuffersMatchStream, ReadData
  PROVE  /\ cur \in OpenFds /\ owner' = owner /\ executed' = executed
         /\ BufferOpen'
         /\ \E n \in Nat :
              /\ got' = [got EXCEPT ![owner[cur]] = @ + n]
              /\ got[owner[cur]] + n <= sent[owner[cur]]
              /\ Len(Held(cur))' = Len(Held(cur)) + n
         /\ StreamOf(cur)'
         /\ \A f \in OpenFds : f # cur =>
              Held(f)' = Held(f) /\ got'[owner[f]] = got[owner[f]]
<1> DEFINE c == owner[cur]
           n == Smaller(ReadSize, sent[c] - got[c])
           m == got[c] - Len(Held(cur)) + 1
           new == Bytes(c, got[c] + 1, got[c] + n)
           held == Held(cur)
<1>0. BufferOpen
  BY DEF BuffersMatchStream, BufferOpen
<1>1. cur \in OpenFds /\ cur \in Fds /\ c \in Conns
  BY CurIsOpen DEF ReadData
<1>2. /\ got' = [got EXCEPT ![c] = @ + n]
      /\ accumulated' = accumulated \o new
      /\ UNCHANGED <<owner, executed, sent, pc, cur, read_buffers_>>
      /\ pc = "read" /\ got[c] < sent[c]
  BY DEF ReadData, loopVars
<1>3. n \in Nat /\ got[c] \in Nat /\ sent[c] \in Nat /\ got[c] + n <= sent[c]
  BY <1>1, <1>2, SizeAssumption DEF Smaller, TcpTypeOK
<1>4. /\ held = read_buffers_[cur] \o accumulated
      /\ held \in Seq(Byte) /\ Len(held) \in Nat
      /\ read_buffers_[cur] \in Seq(Byte) /\ accumulated \in Seq(Byte)
  BY <1>0, <1>1, <1>2, HeldProperties
<1>5. Len(held) <= got[c] /\ held = Bytes(c, m, got[c])
  BY <1>1 DEF CountsInv, BuffersMatchStream
<1>6. m \in Nat /\ m <= got[c] + 1 /\ m = got[c] - Len(held) + 1
  BY <1>3, <1>4, <1>5
<1> HIDE DEF n, m
<1>7. new \in Seq(Byte) /\ Len(new) = n
  <2>1. got[c] + 1 \in Nat /\ got[c] + n \in Nat /\ got[c] + 1 <= (got[c] + n) + 1
    BY <1>3
  <2>2. new \in Seq(Byte) /\ Len(new) = (got[c] + n) - (got[c] + 1) + 1
    BY <1>1, <2>1, BytesProperties
  <2>3. (got[c] + n) - (got[c] + 1) + 1 = n
    BY <1>3
  <2> QED
    BY <2>2, <2>3, Zenon
<1>8. held \o new = Bytes(c, m, got[c] + n)
  <2>1. got[c] + n \in Nat /\ got[c] <= got[c] + n
    BY <1>3
  <2>2. Bytes(c, m, got[c]) \o Bytes(c, got[c] + 1, got[c] + n) = Bytes(c, m, got[c] + n)
    <3>1. /\ c \in Conns /\ m \in Nat /\ got[c] \in Nat /\ got[c] + n \in Nat
          /\ m <= got[c] + 1 /\ got[c] <= got[c] + n
      BY <1>1, <1>3, <1>6, <2>1
    <3> QED
      BY <3>1, BytesConcat, Zenon
  <2> QED
    BY <1>5, <2>2, Zenon
<1> HIDE DEF new
<1>9. Held(cur)' = held \o new
  <2>1. Held(cur)' = read_buffers_[cur] \o (accumulated \o new)
    BY <1>2 DEF Held
  <2>2. (read_buffers_[cur] \o accumulated) \o new = read_buffers_[cur] \o (accumulated \o new)
    <3>1. \A s, t, u \in Seq(Byte) : (s \o t) \o u = s \o (t \o u)
      BY ConcatAssociative
    <3> QED
      BY <1>4, <1>7, <3>1
  <2> QED
    BY <1>4, <2>1, <2>2
<1>10. Len(held \o new) = Len(held) + n
  BY <1>4, <1>7, ConcatProperties
<1>11. Len(Held(cur))' = Len(held) + n
  BY <1>9, <1>10
<1>12. got'[c] = got[c] + n /\ owner'[cur] = c
  BY <1>1, <1>2, <1>3 DEF TcpTypeOK
<1>13. StreamOf(cur)'
  <2>1. (got[c] + n) - (Len(held) + n) + 1 = m /\ Len(held) + n <= got[c] + n
    BY <1>3, <1>4, <1>5, <1>6
  <2>2. Len(Held(cur)') <= got'[c]
    BY <1>11, <1>12, <2>1
  <2>3. Held(cur)' = Bytes(c, got'[c] - Len(Held(cur)') + 1, got'[c])
    BY <1>8, <1>9, <1>11, <1>12, <2>1
  <2> QED
    BY <1>2, <1>12, <2>2, <2>3 DEF StreamOf, Bytes
<1>14. ASSUME NEW f \in OpenFds, f # cur
       PROVE  Held(f)' = Held(f) /\ got'[owner[f]] = got[owner[f]]
  <2>1. owner[f] # c /\ owner[f] \in Conns
    BY <1>1, <1>14 DEF OwnerInv, OpenFds, TcpTypeOK
  <2>2. got'[owner[f]] = got[owner[f]]
    BY <1>1, <1>2, <2>1 DEF TcpTypeOK
  <2>3. Held(f)' = Held(f)
    BY <1>2, <1>14 DEF Held
  <2> QED
    BY <2>2, <2>3
<1>15. BufferOpen'
  BY <1>0, <1>2 DEF BufferOpen
<1>16. \E k \in Nat : /\ got' = [got EXCEPT ![c] = @ + k]
                     /\ got[c] + k <= sent[c]
                     /\ Len(Held(cur))' = Len(held) + k
  BY <1>2, <1>3, <1>11
<1> QED
  BY <1>1, <1>2, <1>13, <1>14, <1>15, <1>16

\* Running a line takes it and its newline off the front of the buffer.
LEMMA ProcessLineStream ==
  ASSUME TcpTypeOK, LoopInv, OwnerInv, CountsInv, BuffersMatchStream, ProcessLine
  PROVE  /\ cur \in OpenFds /\ owner' = owner /\ got' = got
         /\ BufferOpen'
         /\ StreamOf(cur)'
         /\ \A f \in OpenFds : f # cur => Held(f)' = Held(f)
<1> DEFINE c == owner[cur]
           buf == read_buffers_[cur]
           m == got[c] - Len(buf) + 1
           rest(p) == SubSeq(buf, p + 1, Len(buf))
<1>0. BufferOpen
  BY DEF BuffersMatchStream, BufferOpen
<1>1. cur \in OpenFds /\ cur \in Fds /\ c \in Conns /\ buf \in Seq(Byte)
  BY CurIsOpen DEF ProcessLine
<1>2. /\ pc = "process" /\ pc' \in {"process", "killed"}
      /\ UNCHANGED <<got, owner, cur, accumulated>>
  BY ProcessLineNet
<1>3. PICK p \in 1..Len(buf) :
        /\ rest(p) \in Seq(Byte) /\ Len(rest(p)) = Len(buf) - p
        /\ read_buffers_' = [read_buffers_ EXCEPT ![cur] = rest(p)]
  BY ProcessLineEffect
<1>4. Held(cur) = buf
  BY <1>0, <1>1, <1>2, HeldProperties
<1>5. Len(buf) <= got[c] /\ buf = Bytes(c, m, got[c])
  BY <1>1, <1>4 DEF CountsInv, BuffersMatchStream
<1>6. Len(buf) \in Nat /\ got[c] \in Nat
  BY <1>1, LenProperties DEF TcpTypeOK
<1>7. m \in Nat /\ m <= got[c] + 1 /\ Len(buf) = got[c] - m + 1
      /\ p + 1 \in 1..(got[c] - m + 2)
  BY <1>5, <1>6
<1>8. rest(p) = Bytes(c, m + (p + 1) - 1, got[c])
  <2> HIDE DEF buf, m
  <2>1. SubSeq(Bytes(c, m, got[c]), p + 1, got[c] - m + 1) = Bytes(c, m + (p + 1) - 1, got[c])
    BY <1>1, <1>6, <1>7, BytesTail
  <2> QED
    BY <1>5, <1>7, <2>1
<1>9. Held(cur)' = rest(p)
  <2>1. Held(cur)' = rest(p) \o <<>>
    BY <1>1, <1>2, <1>3 DEF Held, TcpTypeOK
  <2> QED
    BY <1>3, <2>1, ConcatEmptySeq
<1>10. StreamOf(cur)'
  <2>1. got[c] - (Len(buf) - p) + 1 = m + (p + 1) - 1 /\ Len(buf) - p <= got[c]
    BY <1>5, <1>6
  <2>2. Len(Held(cur)') = Len(buf) - p
    BY <1>3, <1>9
  <2>3. Held(cur)' = Bytes(c, got[c] - Len(Held(cur)') + 1, got[c])
    BY <1>8, <1>9, <2>1, <2>2
  <2> QED
    BY <1>2, <2>1, <2>2, <2>3 DEF StreamOf, Bytes
<1>11. ASSUME NEW f \in OpenFds, f # cur PROVE Held(f)' = Held(f)
  <2>1. read_buffers_'[f] = read_buffers_[f]
    BY <1>3, <1>11 DEF OpenFds, TcpTypeOK
  <2> QED
    BY <1>2, <1>11, <2>1 DEF Held
<1>12. BufferOpen'
  <2>1. rest(p) # NoBuffer /\ owner[cur] # Free
    BY <1>1, <1>3, BufferAssumption, FreeAssumption DEF Byte
  <2>2. \A f \in Fds : read_buffers_'[f] = IF f = cur THEN rest(p) ELSE read_buffers_[f]
    BY <1>3 DEF TcpTypeOK
  <2> QED
    BY <1>0, <1>2, <2>1, <2>2 DEF BufferOpen
<1> QED
  BY <1>1, <1>2, <1>10, <1>11, <1>12

LEMMA StreamStep ==
  ASSUME TcpTypeOK, LoopInv, OwnerInv, CountsInv, BuffersMatchStream, Next
  PROVE  BufferOpen' /\ \A f \in OpenFds' : StreamOf(f)'
<1>1. \A f \in OpenFds : StreamOf(f)
  BY DEF CountsInv, BuffersMatchStream, StreamOf
<1>2. CASE ReadData
  <2>1. OpenFds' = OpenFds /\ owner' = owner
    BY <1>2 DEF ReadData, OpenFds
  <2>2. BufferOpen' /\ StreamOf(cur)' /\ cur' = cur
    BY <1>2, ReadDataEffect DEF ReadData, loopVars
  <2>3. ASSUME NEW f \in OpenFds, f # cur PROVE StreamOf(f)'
    <3>1. Held(f)' = Held(f) /\ got'[owner[f]] = got[owner[f]]
      BY <1>2, <2>3, ReadDataEffect
    <3> QED
      BY <1>1, <2>1, <2>3, <3>1 DEF StreamOf
  <2>4. ASSUME NEW f \in OpenFds, f = cur PROVE StreamOf(f)'
    BY <2>2, <2>4 DEF StreamOf, Held
  <2> QED
    BY <2>1, <2>2, <2>3, <2>4
<1>3. CASE ProcessLine
  <2>1. OpenFds' = OpenFds /\ owner' = owner /\ got' = got
    BY <1>3 DEF ProcessLine, OpenFds
  <2>2. BufferOpen' /\ StreamOf(cur)' /\ cur' = cur
    BY <1>3, ProcessLineStream DEF ProcessLine
  <2>3. ASSUME NEW f \in OpenFds, f # cur PROVE StreamOf(f)'
    <3>1. Held(f)' = Held(f)
      BY <1>3, <2>3, ProcessLineStream
    <3> QED
      BY <1>1, <2>1, <2>3, <3>1 DEF StreamOf
  <2>4. ASSUME NEW f \in OpenFds, f = cur PROVE StreamOf(f)'
    BY <2>2, <2>4 DEF StreamOf, Held
  <2> QED
    BY <2>1, <2>2, <2>3, <2>4
<1>4. CASE ~ReadData /\ ~ProcessLine
  <2>1. /\ got' = got /\ BufferOpen'
        /\ \A f \in OpenFds' : f \in OpenFds => owner'[f] = owner[f] /\ Held(f)' = Held(f)
        /\ \A f \in OpenFds' : f \notin OpenFds => Held(f)' = <<>>
    BY <1>4, HeldKept
  <2>2. ASSUME NEW f \in OpenFds', f \in OpenFds PROVE StreamOf(f)'
    BY <1>1, <2>1, <2>2 DEF StreamOf
  <2>3. ASSUME NEW f \in OpenFds', f \notin OpenFds PROVE StreamOf(f)'
    <3> DEFINE c == owner'[f]
    <3>1. c \in Conns /\ got[c] \in Nat
      <4>1. TcpTypeOK'
        BY TypeStep
      <4>2. c \in Conns
        BY <4>1 DEF OpenFds, TcpTypeOK
      <4> QED
        BY <4>2 DEF TcpTypeOK
    <3>2. Held(f)' = <<>> /\ Len(<<>>) = 0
      BY <2>1, <2>3
    <3>3. Bytes(c, got[c] - 0 + 1, got[c]) = <<>>
      <4>1. got[c] - 0 + 1 \in Nat /\ got[c] - 0 + 1 <= got[c] + 1
            /\ got[c] - (got[c] - 0 + 1) + 1 = 0
        BY <3>1
      <4>2. /\ Bytes(c, got[c] - 0 + 1, got[c]) \in Seq(Byte)
            /\ Len(Bytes(c, got[c] - 0 + 1, got[c])) = 0
        BY <3>1, <4>1, BytesProperties
      <4> QED
        BY <4>2, EmptySeq
    <3>4. Held(f)' = Bytes(c, got[c] - Len(Held(f)') + 1, got[c]) /\ Len(Held(f)') <= got[c]
      BY <3>1, <3>2, <3>3
    <3> QED
      BY <2>1, <3>4 DEF StreamOf
  <2> QED
    BY <2>1, <2>2, <2>3
<1> QED
  BY <1>2, <1>3, <1>4

\* Reading stays behind the client, and a socket buffer within its size.
LEMMA CountsStep ==
  ASSUME TcpTypeOK, LoopInv, OwnerInv, CountsInv, BuffersMatchStream, Next
  PROVE  \A c \in Conns : got'[c] <= sent'[c] /\ Len(outbox'[c]) <= SendBuf
<1> DEFINE Goal == \A c \in Conns : got'[c] <= sent'[c] /\ Len(outbox'[c]) <= SendBuf
<1>0. \A c \in Conns : got[c] <= sent[c] /\ Len(outbox[c]) <= SendBuf
  BY DEF CountsInv
<1>1. ASSUME NEW c \in Conns, Send(c) PROVE Goal
  BY <1>0, <1>1 DEF Send, TcpTypeOK
<1>2. ASSUME NEW c \in Conns, ReadAnswers(c) PROVE Goal
  <2>1. Len(<<>>) = 0 /\ 0 <= SendBuf
    BY SizeAssumption
  <2> QED
    BY <1>0, <1>2, <2>1 DEF ReadAnswers, TcpTypeOK
<1>3. CASE ReadData
  <2>1. owner[cur] \in Conns
    BY <1>3, CurIsOpen DEF ReadData
  <2>2. PICK n \in Nat : /\ got' = [got EXCEPT ![owner[cur]] = @ + n]
                         /\ got[owner[cur]] + n <= sent[owner[cur]]
    BY <1>3, ReadDataEffect
  <2> QED
    BY <1>0, <1>3, <2>1, <2>2 DEF ReadData, TcpTypeOK
<1>4. CASE ProcessLine
  <2> DEFINE c == owner[cur]
             line == Trim(FirstLine(read_buffers_[cur]))
  <2>1. c \in Conns /\ UNCHANGED <<got, sent>>
    BY <1>4, CurIsOpen DEF ProcessLine
  <2>2. CASE line = <<>>
    BY <1>0, <1>4, <2>2 DEF ProcessLine
  <2>3. CASE line # <<>>
    <3> DEFINE k == Len(executed[c])
    <3>1. Write(c, Answer(k + 1)) /\ k \in Nat
      BY <1>4, <2>1, <2>3 DEF ProcessLine, TcpTypeOK
    <3> HIDE DEF k
    <3>2. \/ outbox' = outbox
          \/ \E a \in AnswerPrefixes(k) :
               /\ outbox' = [outbox EXCEPT ![c] = @ \o a]
               /\ Len(outbox[c]) + Len(a) <= SendBuf
      BY <2>1, <3>1, WriteEffect
    <3>3. \A a \in AnswerPrefixes(k) :
            a \in Seq(Nat) /\ Len(outbox[c] \o a) = Len(outbox[c]) + Len(a)
      <4>1. outbox[c] \in Seq(Nat)
        BY <2>1 DEF TcpTypeOK
      <4>2. AnswerPrefixes(k) \subseteq Seq(Nat)
        BY <3>1, AnswerPrefixesType
      <4> QED
        BY <4>1, <4>2, ConcatProperties
    <3>4. \/ outbox' = outbox
          \/ \E a \in Seq(Nat) :
               /\ outbox' = [outbox EXCEPT ![c] = @ \o a]
               /\ Len(outbox[c] \o a) <= SendBuf
      BY <3>2, <3>3
    <3> QED
      BY <1>0, <2>1, <3>4 DEF TcpTypeOK
  <2> QED
    BY <2>2, <2>3
<1>5. CASE UNCHANGED <<got, sent, outbox>>
  BY <1>0, <1>5
<1> QED
  BY <1>1, <1>2, <1>3, <1>4, <1>5
     DEF Next, Server, Client, Connect, HangUp, EpollWait, BatchDone, Dispatch, Accept,
         AcceptDone, ReadClose, ReadAgain, ProcessDone, Restart, netVars

-----------------------------------------------------------------------------
\* Answers.

\* What AnswersInOrder says of one connection, with k lines run for it.
Ordered(s, k) == Increasing(s) /\ \A i \in DOMAIN s : s[i] \in 1..(2 * k)

AnswersOf(c) ==
  LET stream == seen[c] \o outbox[c] IN
  /\ Ordered(stream, Len(executed[c]))
  /\ (peer[c] \in {"open", "half"} /\ 2 * Len(executed[c]) <= SendBuf)
       => Len(stream) = 2 * Len(executed[c])

LEMMA AnswersParts == AnswersInOrder <=> \A c \in Conns : AnswersOf(c)
BY DEF AnswersInOrder, AnswersOf, Ordered

LEMMA OrderedGrows ==
  ASSUME NEW k \in Nat, NEW s, Ordered(s, k)
  PROVE  Ordered(s, k + 1)
BY DEF Ordered

\* The bytes of an answer are numbered after all earlier answers.
LEMMA AnswerAppended ==
  ASSUME NEW k \in Nat, NEW s \in Seq(Nat), Ordered(s, k), NEW a \in AnswerPrefixes(k)
  PROVE  Ordered(s \o a, k + 1) /\ Len(s \o a) = Len(s) + Len(a)
<1>1. a \in Seq(Nat) /\ Len(a) \in Nat
  BY AnswerPrefixesType
<1>2. Len(a) <= 2 /\ \A i \in 1..Len(a) : a[i] = 2 * k + i
  <2>1. CASE a = <<>>
    BY <2>1
  <2>2. CASE a = <<2 * k + 1>>
    BY <2>2
  <2>3. CASE a = <<2 * k + 1, 2 * k + 2>>
    <3>1. Len(a) = 2 /\ a[1] = 2 * k + 1 /\ a[2] = 2 * k + 2
      BY <2>3
    <3> QED
      BY <3>1
  <2> QED
    BY <2>1, <2>2, <2>3 DEF AnswerPrefixes
<1>3. Len(s) \in Nat /\ DOMAIN s = 1..Len(s)
  BY LenProperties
<1>4. /\ Len(s \o a) = Len(s) + Len(a)
      /\ \A i \in 1..(Len(s) + Len(a)) :
           (s \o a)[i] = IF i <= Len(s) THEN s[i] ELSE a[i - Len(s)]
      /\ DOMAIN (s \o a) = 1..(Len(s) + Len(a))
  BY <1>1, ConcatProperties, LenProperties
<1> DEFINE t == s \o a
<1> HIDE DEF t
<1>5. \A i \in 1..Len(s) : t[i] = s[i] /\ s[i] \in 1..(2 * k)
  <2>1. \A i \in 1..Len(s) : s[i] \in 1..(2 * k)
    BY <1>3 DEF Ordered
  <2>2. \A i \in 1..Len(s) : i \in 1..(Len(s) + Len(a)) /\ i <= Len(s)
    BY <1>1, <1>3
  <2>3. \A i \in 1..Len(s) : t[i] = s[i]
    BY <1>4, <2>2 DEF t
  <2> QED
    BY <2>1, <2>3
<1>6. \A i \in (Len(s) + 1)..(Len(s) + Len(a)) : t[i] = 2 * k + (i - Len(s))
  <2> TAKE i \in (Len(s) + 1)..(Len(s) + Len(a))
  <2>1. i - Len(s) \in 1..Len(a) /\ i \in 1..(Len(s) + Len(a)) /\ ~(i <= Len(s))
    BY <1>1, <1>3
  <2>2. t[i] = a[i - Len(s)]
    BY <1>4, <2>1 DEF t
  <2> QED
    BY <1>2, <2>1, <2>2
<1>7. ASSUME NEW i \in 1..(Len(s) + Len(a)) PROVE t[i] \in 1..(2 * (k + 1))
  <2>1. CASE i <= Len(s)
    BY <1>3, <1>5, <2>1
  <2>2. CASE ~(i <= Len(s))
    BY <1>1, <1>2, <1>3, <1>6, <2>2
  <2> QED
    BY <2>1, <2>2
<1>8. ASSUME NEW i \in 1..(Len(s) + Len(a)), NEW j \in 1..(Len(s) + Len(a)), i < j
      PROVE  t[i] < t[j]
  <2>1. CASE j <= Len(s)
    <3>1. i \in 1..Len(s) /\ j \in 1..Len(s)
      BY <1>3, <1>8, <2>1
    <3> QED
      BY <1>3, <1>5, <1>8, <3>1 DEF Ordered, Increasing
  <2>2. CASE i <= Len(s) /\ ~(j <= Len(s))
    <3>1. t[i] \in 1..(2 * k)
      BY <1>3, <1>5, <2>2
    <3>2. t[j] = 2 * k + (j - Len(s)) /\ j - Len(s) >= 1
      BY <1>1, <1>3, <1>6, <2>2
    <3> QED
      BY <1>1, <1>3, <3>1, <3>2
  <2>3. CASE ~(i <= Len(s))
    <3>1. /\ i \in (Len(s) + 1)..(Len(s) + Len(a))
          /\ j \in (Len(s) + 1)..(Len(s) + Len(a))
      BY <1>1, <1>3, <1>8, <2>3
    <3>2. t[i] = 2 * k + (i - Len(s)) /\ t[j] = 2 * k + (j - Len(s))
      BY <1>6, <3>1
    <3>3. 2 * k + (i - Len(s)) < 2 * k + (j - Len(s))
      BY <1>3, <1>8
    <3> QED
      BY <3>2, <3>3
  <2> QED
    BY <1>1, <1>3, <1>8, <2>1, <2>2, <2>3
<1> QED
  BY <1>4, <1>7, <1>8 DEF t, Ordered, Increasing

LEMMA AnswersRegroup ==
  ASSUME NEW x \in Seq(Nat), NEW y \in Seq(Nat), NEW z \in Seq(Nat)
  PROVE  (x \o y) \o z = x \o (y \o z)
<1>1. PICK N : N = Nat
  OBVIOUS
<1>2. \A s, t, u \in Seq(N) : (s \o t) \o u = s \o (t \o u)
  BY ConcatAssociative
<1>3. x \in Seq(N) /\ y \in Seq(N) /\ z \in Seq(N)
  BY <1>1
<1> QED
  BY <1>2, <1>3, Zenon

LEMMA AnswersStep ==
  ASSUME TcpTypeOK, LoopInv, OwnerInv, CountsInv, BuffersMatchStream, AnswersInOrder, Next
  PROVE  AnswersInOrder'
<1>0. SUFFICES ASSUME NEW c \in Conns PROVE AnswersOf(c)'
  BY DEF AnswersInOrder, AnswersOf, Ordered
<1>1. AnswersOf(c)
  BY AnswersParts
<1>2. /\ seen[c] \in Seq(Nat) /\ outbox[c] \in Seq(Nat) /\ Len(executed[c]) \in Nat
      /\ Len(seen[c]) \in Nat /\ Len(outbox[c]) \in Nat /\ seen[c] \o outbox[c] \in Seq(Nat)
      /\ Len(seen[c] \o outbox[c]) = Len(seen[c]) + Len(outbox[c])
  BY ConcatProperties, LenProperties DEF TcpTypeOK
<1>3. CASE /\ seen'[c] = seen[c] /\ outbox'[c] = outbox[c] /\ executed'[c] = executed[c]
           /\ peer'[c] \in {"open", "half"} => peer[c] \in {"open", "half"}
  BY <1>1, <1>3 DEF AnswersOf, Ordered, Increasing
<1>4. CASE ReadAnswers(c)
  <2>1. /\ seen'[c] = seen[c] \o outbox[c] /\ outbox'[c] = <<>>
        /\ executed' = executed /\ peer' = peer
    BY <1>4 DEF ReadAnswers, TcpTypeOK
  <2>2. (seen[c] \o outbox[c]) \o <<>> = seen[c] \o outbox[c]
    BY <1>2, ConcatEmptySeq
  <2>3. seen'[c] \o outbox'[c] = seen[c] \o outbox[c]
    BY <2>1, <2>2
  <2> QED
    BY <1>1, <2>1, <2>3 DEF AnswersOf, Ordered, Increasing
<1>5. CASE ProcessLine
  <2> DEFINE line == Trim(FirstLine(read_buffers_[cur]))
             k == Len(executed[c])
             s == seen[c] \o outbox[c]
  <2>1. /\ owner[cur] \in Conns /\ seen' = seen
        /\ \A d \in Conns : peer'[d] = peer[d] \/ (peer[d] # "open" /\ peer'[d] = "dead")
    BY <1>5, CurIsOpen, ProcessLineNet
  <2>2. CASE line = <<>>
    BY <1>3, <1>5, <2>2 DEF ProcessLine
  <2>3. CASE line # <<>> /\ c = owner[cur]
    <3>1. Write(c, Answer(k + 1)) /\ executed' = [executed EXCEPT ![c] = Append(@, line)]
      BY <1>5, <2>3 DEF ProcessLine
    <3>2. line \in Seq(Byte)
      BY <1>5, ProcessLineEffect
    <3> HIDE DEF line
    <3>3. Len(executed'[c]) = k + 1
      <4>1. executed[c] \in Seq(Seq(Byte)) /\ executed'[c] = Append(executed[c], line)
        BY <3>1 DEF TcpTypeOK, Byte
      <4> QED
        BY <3>2, <4>1, AppendProperties
    <3>4. k \in Nat /\ Ordered(s, k) /\ s \in Seq(Nat)
      BY <1>1, <1>2 DEF AnswersOf
    <3>5. CASE outbox' = outbox /\ peer[c] \notin {"open", "half"}
      <4>1. peer'[c] \notin {"open", "half"}
        BY <2>1, <3>5
      <4>2. Ordered(s, k + 1)
        BY <3>4, OrderedGrows
      <4> QED
        BY <2>1, <3>3, <3>5, <4>1, <4>2 DEF AnswersOf, Ordered, Increasing
    <3>6. ASSUME NEW a \in AnswerPrefixes(k),
                 outbox' = [outbox EXCEPT ![c] = @ \o a],
                 Len(outbox[c]) + 2 <= SendBuf => Len(a) = 2
          PROVE  AnswersOf(c)'
      <4>1. a \in Seq(Nat)
        BY <3>4, AnswerPrefixesType
      <4>2. outbox'[c] = outbox[c] \o a
        BY <3>6 DEF TcpTypeOK
      <4>3. seen'[c] \o outbox'[c] = s \o a
        <5>1. seen[c] \in Seq(Nat) /\ outbox[c] \in Seq(Nat)
          BY DEF TcpTypeOK
        <5>2. (seen[c] \o outbox[c]) \o a = seen[c] \o (outbox[c] \o a)
          BY <4>1, <5>1, AnswersRegroup, Zenon
        <5> QED
          BY <2>1, <4>2, <5>2
      <4>4. Ordered(s \o a, k + 1) /\ Len(s \o a) = Len(s) + Len(a)
        BY <3>4, AnswerAppended
      <4>5. ASSUME peer'[c] \in {"open", "half"}, 2 * (k + 1) <= SendBuf
            PROVE  Len(s \o a) = 2 * (k + 1)
        <5>1. peer[c] \in {"open", "half"} /\ 2 * k <= SendBuf
          BY <2>1, <3>4, <4>5, SizeAssumption
        <5>2. Len(s) = 2 * k
          BY <1>1, <5>1 DEF AnswersOf
        <5>3. Len(outbox[c]) <= 2 * k
          <6>1. \A x, y, z \in Nat : x + y = z => y <= z
            OBVIOUS
          <6>2. Len(seen[c]) + Len(outbox[c]) = 2 * k
            BY <1>2, <5>2, Zenon
          <6>3. 2 * k \in Nat
            BY <3>4
          <6> QED
            BY <1>2, <6>1, <6>2, <6>3
        <5>4. Len(outbox[c]) + 2 <= SendBuf
          <6>1. \A x, y, z \in Nat : x <= 2 * y /\ 2 * (y + 1) <= z => x + 2 <= z
            OBVIOUS
          <6> QED
            BY <1>2, <3>4, <4>5, <5>3, <6>1, SizeAssumption
        <5>5. Len(a) = 2
          BY <3>6, <5>4
        <5> QED
          BY <3>4, <4>4, <5>2, <5>5
      <4> QED
        BY <3>3, <4>3, <4>4, <4>5 DEF AnswersOf, Ordered, Increasing
    <3> QED
      BY <2>1, <2>3, <3>1, <3>4, <3>5, <3>6, WriteEffect
  <2>4. CASE line # <<>> /\ c # owner[cur]
    <3> DEFINE d == owner[cur]
               j == Len(executed[d])
    <3>1. Write(d, Answer(j + 1)) /\ executed' = [executed EXCEPT ![d] = Append(@, line)]
      BY <1>5, <2>4 DEF ProcessLine
    <3>2. executed'[c] = executed[c] /\ j \in Nat
      BY <2>1, <2>4, <3>1 DEF TcpTypeOK
    <3> HIDE DEF j
    <3>3. outbox'[c] = outbox[c]
      <4>1. \/ outbox' = outbox
            \/ \E a \in AnswerPrefixes(j) :
                 /\ outbox' = [outbox EXCEPT ![d] = @ \o a]
                 /\ Len(outbox[d]) + Len(a) <= SendBuf
        BY <2>1, <3>1, <3>2, WriteEffect
      <4> QED
        BY <2>1, <2>4, <4>1 DEF TcpTypeOK
    <3> QED
      BY <1>3, <2>1, <3>2, <3>3
  <2> QED
    BY <2>2, <2>3, <2>4
<1>6. ASSUME NEW d \in Conns, Client(d), ~ReadAnswers(c) PROVE AnswersOf(c)'
  BY <1>3, <1>6 DEF Client, Connect, Send, ReadAnswers, HangUp, TcpTypeOK
<1>7. CASE UNCHANGED <<seen, outbox, executed, peer>>
  BY <1>3, <1>7
<1> QED
  BY <1>4, <1>5, <1>6, <1>7
     DEF Next, Server, EpollWait, BatchDone, Dispatch, Accept, AcceptDone,
         ReadData, ReadClose, ReadAgain, ProcessDone, Restart, netVars

-----------------------------------------------------------------------------
\* The gauge.

LEMMA GaugeStep ==
  ASSUME TcpTypeOK, LoopInv, OwnerInv, CountsInv, BuffersMatchStream,
         ActiveConnectionsExact, Next
  PROVE  ActiveConnectionsExact'
<1> DEFINE n == Cardinality(OpenFds)
<1>1. IsFiniteSet(OpenFds) /\ n \in Nat /\ active_connections_ = n
  BY FdAssumption, FS_Subset, FS_CardinalityType DEF OpenFds, ActiveConnectionsExact
<1>2. ASSUME NEW c \in Conns, Accept(c) PROVE ActiveConnectionsExact'
  <2>1. PICK fd \in Fds : owner[fd] = Free /\ owner' = [owner EXCEPT ![fd] = c]
    BY <1>2, AcceptDescriptor DEF Accept, FreeFds
  <2>2. active_connections_' = active_connections_ + 1
    BY <1>2 DEF Accept
  <2>3. OpenFds' = OpenFds \cup {fd} /\ fd \notin OpenFds
    BY <2>1, FreeAssumption DEF OpenFds, TcpTypeOK
  <2>4. Cardinality(OpenFds \cup {fd}) = n + 1
    BY <1>1, <2>3, FS_AddElement
  <2> QED
    BY <1>1, <2>2, <2>3, <2>4 DEF ActiveConnectionsExact
<1>3. CASE ReadClose
  <2>1. cur \in OpenFds
    BY <1>3, CurIsOpen DEF ReadClose
  <2>2. OpenFds' = OpenFds \ {cur}
    BY <1>3, <2>1 DEF ReadClose, OpenFds, TcpTypeOK
  <2>3. IsFiniteSet(OpenFds \ {cur}) /\ Cardinality(OpenFds \ {cur}) = n - 1
    BY <1>1, <2>1, FS_RemoveElement
  <2>4. n - 1 \in Nat
    BY <2>3, FS_CardinalityType
  <2>5. active_connections_' = n - 1
    BY <1>1, <1>3, <2>4 DEF ReadClose
  <2> QED
    BY <2>2, <2>3, <2>5 DEF ActiveConnectionsExact
<1>4. CASE Restart
  <2>1. OpenFds' = {} /\ active_connections_' = 0
    BY <1>4 DEF Restart, OpenFds
  <2> QED
    BY <2>1, FS_EmptySet DEF ActiveConnectionsExact
<1>5. CASE UNCHANGED <<owner, active_connections_>>
  BY <1>1, <1>5 DEF ActiveConnectionsExact, OpenFds
<1> QED
  BY <1>2, <1>3, <1>4, <1>5
     DEF Next, Server, Client, Connect, Send, ReadAnswers, HangUp, EpollWait, BatchDone,
         Dispatch, AcceptDone, ReadData, ReadAgain, ProcessLine, ProcessDone, netVars

-----------------------------------------------------------------------------
\* The inductive invariant, and what it implies.

TcpInv ==
  /\ TcpTypeOK
  /\ LoopInv
  /\ OwnerInv
  /\ CountsInv
  /\ BuffersMatchStream
  /\ WakeInv
  /\ AnswersInOrder
  /\ ActiveConnectionsExact

LEMMA TcpInit == Init => TcpInv
<1> SUFFICES ASSUME Init PROVE TcpInv
  OBVIOUS
<1>1. OpenFds = {} /\ Len(<<>>) = 0
  BY DEF Init, OpenFds
<1>2. TcpTypeOK
  BY DEF Init, TcpTypeOK
<1>3. LoopInv /\ OwnerInv /\ WakeInv
  BY <1>1 DEF Init, LoopInv, OwnerInv, WakeInv
<1>4. CountsInv
  BY <1>1, SizeAssumption DEF Init, CountsInv
<1>5. BuffersMatchStream
  BY <1>1 DEF Init, BuffersMatchStream
<1>6. AnswersInOrder
  <2>1. <<>> \o <<>> = <<>>
    BY EmptySeq, ConcatEmptySeq
  <2> QED
    BY <1>1, <2>1 DEF Init, AnswersInOrder, Increasing
<1>7. ActiveConnectionsExact
  BY <1>1, FS_EmptySet DEF Init, ActiveConnectionsExact
<1> QED
  BY <1>2, <1>3, <1>4, <1>5, <1>6, <1>7 DEF TcpInv

LEMMA TcpStep == TcpInv /\ [Next]_tcpVars => TcpInv'
<1> SUFFICES ASSUME TcpInv, [Next]_tcpVars PROVE TcpInv'
  OBVIOUS
<1>1. CASE UNCHANGED tcpVars
  <2> USE <1>1 DEF TcpInv, OpenFds, Held, tcpVars, netVars, loopVars, bufVars
  <2>1. TcpTypeOK'
    BY DEF TcpTypeOK
  <2>2. LoopInv' /\ OwnerInv' /\ CountsInv'
    BY DEF LoopInv, OwnerInv, CountsInv
  <2>3. BuffersMatchStream'
    BY DEF BuffersMatchStream
  <2>4. WakeInv'
    BY DEF WakeInv, Awake, NoLineWaits, HasInput, Newlines, Is
  <2>5. AnswersInOrder' /\ ActiveConnectionsExact'
    BY DEF AnswersInOrder, ActiveConnectionsExact
  <2> QED
    BY <2>1, <2>2, <2>3, <2>4, <2>5
<1>2. CASE Next
  <2>1. TcpTypeOK' /\ LoopInv' /\ OwnerInv' /\ WakeInv' /\ AnswersInOrder'
        /\ ActiveConnectionsExact'
    BY <1>2, TypeStep, OwnerStep, WakeStep, AnswersStep, GaugeStep DEF TcpInv
  <2>2. /\ \A c \in Conns : got'[c] <= sent'[c] /\ Len(outbox'[c]) <= SendBuf
        /\ BufferOpen' /\ \A f \in OpenFds' : StreamOf(f)'
    BY <1>2, CountsStep, StreamStep DEF TcpInv
  <2>3. CountsInv' /\ BuffersMatchStream'
    BY <2>2 DEF CountsInv, BuffersMatchStream, StreamOf, BufferOpen
  <2> QED
    BY <2>1, <2>3 DEF TcpInv
<1> QED
  BY <1>1, <1>2

THEOREM TcpInvariant == Spec => []TcpInv
BY TcpInit, TcpStep, PTL DEF Spec

\* Types: every variable of the event loop keeps the shape its code gives it.
THEOREM TcpTypeCorrect == Spec => []TcpTypeOK
BY TcpInvariant, PTL DEF TcpInv

\* event_loop hands each event of a batch to the connection that raised it,
\* whatever descriptors the batch's earlier events closed or opened.
THEOREM TcpEventsNotStale == Spec => []EventsNotStale
<1>1. TcpInv => EventsNotStale
  <2> SUFFICES ASSUME TcpInv, NEW e \in batch, e.fd # ListenFd
               PROVE  owner[e.fd] = e.conn /\ conn[e.conn] = "open"
    BY DEF EventsNotStale
  <2>1. e.fd \in Fds /\ owner[e.fd] = e.conn /\ e.conn # Free
    BY DEF TcpInv, TcpTypeOK, OwnerInv
  <2>2. e.fd \in OpenFds
    BY <2>1 DEF OpenFds
  <2> QED
    BY <2>1, <2>2 DEF TcpInv, OwnerInv
<1> QED
  BY <1>1, TcpInvariant, PTL

\* handle_read's buffer of a descriptor is the unread end of its connection's
\* stream, through every close and reuse of the descriptor.
THEOREM TcpBuffersMatchStream == Spec => []BuffersMatchStream
BY TcpInvariant, PTL DEF TcpInv

\* epoll_wait never sleeps on input: edge-triggered reads go on until EAGAIN, and
\* the lines of the last one are all run before the loop waits again.
THEOREM TcpNoLostWakeup == Spec => []NoLostWakeup
<1>1. TcpInv => NoLostWakeup
  <2> SUFFICES ASSUME TcpInv, pc = "wait", NEW f \in OpenFds
               PROVE  (HasInput(owner[f]) => f \in ready) /\ Newlines(read_buffers_[f]) = {}
    BY DEF NoLostWakeup
  <2>1. (HasInput(owner[f]) => Awake(f)) /\ NoLineWaits(f) /\ batch = {}
    BY DEF TcpInv, WakeInv, LoopInv
  <2> QED
    BY <2>1 DEF Awake, NoLineWaits
<1> QED
  BY <1>1, TcpInvariant, PTL

\* increment_connections and decrement_connections keep STATS' gauge at the
\* number of open client sockets.
THEOREM TcpActiveConnections == Spec => []ActiveConnectionsExact
BY TcpInvariant, PTL DEF TcpInv

\* Best-effort write() never reorders, repeats or anticipates answers, and loses
\* none of a client that is there unless they outgrow its socket buffer.
THEOREM TcpAnswersInOrder == Spec => []AnswersInOrder
BY TcpInvariant, PTL DEF TcpInv

-----------------------------------------------------------------------------
\* TcpServer implements LineStream.

Owned(c) == \E f \in Fds : owner[f] = c

\* Done, descriptor by descriptor.
LEMMA DoneValue ==
  ASSUME OwnerInv, NEW c \in Conns
  PROVE  /\ \A f \in Fds : owner[f] = c => f \in OpenFds /\ Done(c) = got[c] - Len(Held(f))
         /\ ~Owned(c) => Done(c) = got[c]
<1>1. ASSUME NEW f \in Fds, owner[f] = c
      PROVE  f \in OpenFds /\ Done(c) = got[c] - Len(Held(f))
  <2>1. f \in OpenFds
    BY <1>1, FreeAssumption DEF OpenFds
  <2>2. \A g \in Fds : owner[g] = c => g = f
    BY <1>1, <2>1, FreeAssumption DEF OwnerInv, OpenFds
  <2>3. (CHOOSE g \in Fds : owner[g] = c) = f
    BY <1>1, <2>2
  <2> QED
    BY <1>1, <2>1, <2>3 DEF Done
<1> QED
  BY <1>1 DEF Done, Owned

LEMMA DoneValueNext ==
  ASSUME OwnerInv', NEW c \in Conns
  PROVE  /\ \A f \in Fds : owner'[f] = c => f \in OpenFds' /\ Done(c)' = got'[c] - Len(Held(f)')
         /\ ~Owned(c)' => Done(c)' = got'[c]
<1>1. ASSUME NEW f \in Fds, owner'[f] = c
      PROVE  f \in OpenFds' /\ Done(c)' = got'[c] - Len(Held(f)')
  <2>1. f \in OpenFds'
    BY <1>1, FreeAssumption DEF OpenFds
  <2>2. \A g \in Fds : owner'[g] = c => g = f
    BY <1>1, <2>1, FreeAssumption DEF OwnerInv, OpenFds
  <2>3. (CHOOSE g \in Fds : owner'[g] = c) = f
    BY <1>1, <2>2
  <2> QED
    BY <1>1, <2>1, <2>3 DEF Done
<1> QED
  BY <1>1 DEF Done, Owned

\* The server is done with no more than it has read.
LEMMA DoneBounds ==
  ASSUME TcpInv, NEW c \in Conns
  PROVE  Done(c) \in Nat /\ Done(c) <= got[c] /\ got[c] <= sent[c]
<1>1. got[c] \in Nat /\ got[c] <= sent[c]
  BY DEF TcpInv, TcpTypeOK, CountsInv
<1>2. BufferOpen
  BY DEF TcpInv, BuffersMatchStream, BufferOpen
<1>3. ASSUME NEW f \in Fds, owner[f] = c PROVE Done(c) \in Nat /\ Done(c) <= got[c]
  <2>1. f \in OpenFds /\ Done(c) = got[c] - Len(Held(f))
    BY <1>3, DoneValue DEF TcpInv
  <2>2. Len(Held(f)) \in Nat /\ Len(Held(f)) <= got[c]
    BY <1>2, <1>3, <2>1, HeldProperties DEF TcpInv, CountsInv
  <2> QED
    BY <1>1, <2>1, <2>2
<1>4. CASE ~Owned(c)
  BY <1>1, <1>4, DoneValue DEF TcpInv
<1> QED
  BY <1>1, <1>3, <1>4 DEF Owned

\* Apart from the steps that read, run a line or close, nothing becomes done; a
\* connection that keeps its descriptor keeps what is done of it.
LEMMA DoneKept ==
  ASSUME TcpInv, TcpInv', Next, ~ReadData, ~ProcessLine, NEW c \in Conns,
         Owned(c) => Owned(c)'
  PROVE  Done(c)' = Done(c)
<1>1. /\ got' = got
      /\ \A f \in OpenFds' : f \in OpenFds => owner'[f] = owner[f] /\ Held(f)' = Held(f)
      /\ \A f \in OpenFds' : f \notin OpenFds => Held(f)' = <<>>
  BY HeldKept DEF TcpInv
<1>2. ASSUME NEW f \in Fds, owner'[f] = c, f \in OpenFds PROVE Done(c)' = Done(c)
  <2>1. f \in OpenFds' /\ Done(c)' = got'[c] - Len(Held(f)')
    BY <1>2, DoneValueNext DEF TcpInv
  <2>2. owner[f] = c /\ Held(f)' = Held(f)
    BY <1>1, <1>2, <2>1
  <2>3. Done(c) = got[c] - Len(Held(f))
    BY <1>2, <2>2, DoneValue DEF TcpInv
  <2> QED
    BY <1>1, <2>1, <2>2, <2>3
<1>3. ASSUME NEW f \in Fds, owner'[f] = c, f \notin OpenFds, ~Owned(c)
      PROVE  Done(c)' = Done(c)
  <2>1. f \in OpenFds' /\ Done(c)' = got'[c] - Len(Held(f)')
    BY <1>3, DoneValueNext DEF TcpInv
  <2>2. Held(f)' = <<>> /\ Len(<<>>) = 0
    BY <1>1, <1>3, <2>1
  <2>3. Done(c) = got[c] /\ got[c] \in Nat
    BY <1>3, DoneValue DEF TcpInv, TcpTypeOK
  <2> QED
    BY <1>1, <2>1, <2>2, <2>3
<1>4. ASSUME NEW f \in Fds, owner'[f] = c, f \notin OpenFds, NEW g \in Fds, owner[g] = c
      PROVE  FALSE
  <2>1. f \in OpenFds' /\ g \in OpenFds
    BY <1>4, FreeAssumption DEF OpenFds
  <2>2. conn[c] = "open" /\ c # Free
    BY <1>4, <2>1, FreeAssumption DEF TcpInv, OwnerInv
  <2>3. owner' = owner \/ ReadClose \/ Restart \/ \E d \in Conns : Accept(d)
    BY DEF Next, Server, Client, Connect, Send, ReadAnswers, HangUp, EpollWait, BatchDone,
           Dispatch, AcceptDone, ReadAgain, ProcessDone, netVars
  <2>4. ASSUME NEW d \in Conns, Accept(d) PROVE FALSE
    <3>1. PICK fd \in Fds : owner[fd] = Free /\ owner' = [owner EXCEPT ![fd] = d]
      BY <2>4, AcceptDescriptor DEF Accept, FreeFds
    <3>2. conn[d] = "backlog"
      BY <2>4 DEF Accept, Backlog
    <3> QED
      BY <1>4, <2>1, <2>2, <3>1, <3>2 DEF OpenFds, TcpInv, TcpTypeOK
  <2>5. CASE ReadClose
    <3>1. owner' = [owner EXCEPT ![cur] = Free]
      BY <2>5 DEF ReadClose
    <3> QED
      BY <1>4, <2>1, <2>2, <3>1 DEF OpenFds, TcpInv, TcpTypeOK
  <2>6. CASE Restart
    BY <2>1, <2>6 DEF Restart, OpenFds
  <2>7. CASE owner' = owner
    BY <1>4, <2>1, <2>7 DEF OpenFds
  <2> QED
    BY <2>3, <2>4, <2>5, <2>6, <2>7
<1>5. CASE ~Owned(c)'
  <2>1. ~Owned(c)
    BY <1>5
  <2> QED
    BY <1>1, <1>5, <2>1, DoneValue, DoneValueNext DEF TcpInv
<1> QED
  BY <1>2, <1>3, <1>4, <1>5 DEF Owned

\* A line without its carriage return is LineStream's text between two newlines.
LEMMA TrimIsText ==
  ASSUME NEW c \in Conns, NEW m \in Nat, NEW p \in Nat \ {0}, NEW line \in Seq(Byte),
         Len(line) = p - 1, \A j \in 1..(p - 1) : line[j] = <<c, m + j>>
  PROVE  Trim(line) = Stream!Text(c, m, m + p)
<1>1. \A j \in 1..Len(line) : line[j] = <<c, (m + 1) + j - 1>>
  <2>1. \A j \in 1..(p - 1) : m + j = (m + 1) + j - 1
    OBVIOUS
  <2> QED
    BY <2>1
<1>2. line = Bytes(c, m + 1, m + p - 1)
  <2>1. /\ m + 1 \in Nat /\ m + p - 1 \in Nat /\ m + 1 <= (m + p - 1) + 1
        /\ Len(line) = (m + p - 1) - (m + 1) + 1
    OBVIOUS
  <2> QED
    BY <1>1, <2>1, BytesUnique
<1>3. \A e \in Nat : [i \in 1..(e - m) |-> <<c, m + i>>] = Bytes(c, m + 1, e)
  <2> TAKE e \in Nat
  <2>1. 1..(e - m) = 1..(e - (m + 1) + 1) /\ \A i \in 1..(e - m) : m + i = (m + 1) + i - 1
    OBVIOUS
  <2> QED
    BY <2>1 DEF Bytes
<1>4. CASE line = <<>>
  <2>1. p = 1 /\ ~(m + 1 < m + p)
    BY <1>4
  <2>2. Stream!Text(c, m, m + p) = [i \in 1..((m + p - 1) - m) |-> <<c, m + i>>]
    BY <2>1 DEF Stream!Text
  <2>3. m + p - 1 \in Nat
    OBVIOUS
  <2> QED
    BY <1>2, <1>3, <1>4, <2>2, <2>3 DEF Trim
<1>5. CASE line # <<>>
  <2>1. p - 1 \in Nat \ {0}
    <3>1. Len(line) # 0
      BY <1>5, EmptySeq
    <3> QED
      BY <3>1
  <2>2. m + 1 < m + p /\ m + p - 1 = m + (p - 1) /\ m + p - 2 \in Nat
    BY <2>1
  <2>3. Last(line) = <<c, m + p - 1>>
    <3>1. Last(line) = line[p - 1] /\ p - 1 \in 1..(p - 1)
      BY <2>1 DEF Last
    <3> QED
      BY <2>2, <3>1
  <2>4. Is(Last(line), "cr") <=> Script[c][m + p - 1] = "cr"
    BY <2>3 DEF Is
  <2>5. Front(line) = Bytes(c, m + 1, m + p - 2)
    <3> DEFINE t == SubSeq(line, 1, (p - 1) - 1)
    <3>1. \A j \in 1..((p - 1) - 1) : line[j] \in Byte
      BY <2>1, ElementOfSeq
    <3>2. /\ t \in Seq(Byte)
          /\ Len(t) = IF 1 <= (p - 1) - 1 THEN ((p - 1) - 1) - 1 + 1 ELSE 0
          /\ \A j \in 1..(((p - 1) - 1) - 1 + 1) : t[j] = line[1 + j - 1]
      BY <2>1, <3>1, SubSeqProperties
    <3>3. Front(line) = t
      BY DEF Front
    <3> HIDE DEF t
    <3>4. Len(t) = (m + p - 2) - (m + 1) + 1
      BY <2>1, <3>2
    <3>5. ASSUME NEW j \in 1..Len(t) PROVE t[j] = <<c, (m + 1) + j - 1>>
      <4>1. j \in 1..(p - 1) /\ j \in 1..(((p - 1) - 1) - 1 + 1) /\ 1 + j - 1 = j
        BY <2>1, <3>4
      <4> QED
        BY <1>1, <3>2, <4>1
    <3>6. m + 1 \in Nat /\ m + 1 <= (m + p - 2) + 1
      BY <2>1
    <3>7. t = Bytes(c, m + 1, m + p - 2)
      BY <2>2, <3>2, <3>4, <3>5, <3>6, BytesUnique
    <3> QED
      BY <3>3, <3>7
  <2>6. CASE Script[c][m + p - 1] = "cr"
    <3>1. Stream!Text(c, m, m + p) = [i \in 1..((m + p - 2) - m) |-> <<c, m + i>>]
      <4>1. \A e : e = (IF m + 1 < m + p /\ Script[c][m + p - 1] = "cr"
                         THEN m + p - 2 ELSE m + p - 1)
              => Stream!Text(c, m, m + p) = [i \in 1..(e - m) |-> <<c, m + i>>]
        BY DEF Stream!Text
      <4> QED
        BY <2>2, <2>6, <4>1
    <3>2. Stream!Text(c, m, m + p) = Bytes(c, m + 1, m + p - 2)
      BY <1>3, <2>2, <3>1
    <3> QED
      BY <1>5, <2>4, <2>5, <2>6, <3>2 DEF Trim
  <2>7. CASE Script[c][m + p - 1] # "cr"
    <3>1. Stream!Text(c, m, m + p) = [i \in 1..((m + p - 1) - m) |-> <<c, m + i>>]
      BY <2>2, <2>7 DEF Stream!Text
    <3>2. m + p - 1 \in Nat
      BY <2>1
    <3> QED
      BY <1>2, <1>3, <2>4, <2>7, <3>1, <3>2 DEF Trim
  <2> QED
    BY <2>6, <2>7
<1> QED
  BY <1>4, <1>5

\* The refinement mapping's value of done.
DoneMap == [c \in Conns |-> Done(c)]

\* Running a line is LineStream's next line of that connection.
LEMMA ProcessLineRefines ==
  ASSUME TcpInv, TcpInv', ProcessLine, NEW g \in Fds, cur = g, NEW c \in Conns, owner[g] = c
  PROVE  Stream!NextLine(c)
<1> DEFINE buf == read_buffers_[g]
           line == Trim(FirstLine(buf))
           d == Done(c)
<1>0. BufferOpen
  BY DEF TcpInv, BuffersMatchStream, BufferOpen
<1>1. g \in OpenFds /\ buf \in Seq(Byte)
  BY CurIsOpen DEF ProcessLine, TcpInv
<1>2. /\ pc = "process" /\ pc' # "read" /\ got' = got
      /\ UNCHANGED <<conn, sent, owner, cur>>
  BY ProcessLineNet DEF TcpInv
<1>3. PICK p \in 1..Len(buf) :
        /\ Is(buf[p], "nl")
        /\ \A j \in 1..(p - 1) : ~Is(buf[j], "nl")
        /\ FirstLine(buf) \in Seq(Byte) /\ Len(FirstLine(buf)) = p - 1
        /\ \A j \in 1..(p - 1) : FirstLine(buf)[j] = buf[j]
        /\ Trim(FirstLine(buf)) \in Seq(Byte)
        /\ SubSeq(buf, p + 1, Len(buf)) \in Seq(Byte)
        /\ Len(SubSeq(buf, p + 1, Len(buf))) = Len(buf) - p
        /\ read_buffers_' = [read_buffers_ EXCEPT ![g] = SubSeq(buf, p + 1, Len(buf))]
  BY ProcessLineEffect DEF TcpInv
<1>4. Held(g) = buf
  BY <1>0, <1>1, <1>2, HeldProperties DEF TcpInv
<1>5. Len(buf) \in Nat /\ got[c] \in Nat /\ p \in Nat \ {0} /\ p <= Len(buf)
  BY <1>1, <1>3, LenProperties DEF TcpInv, TcpTypeOK
<1>6. d = got[c] - Len(buf) /\ d \in Nat /\ got[c] <= sent[c] /\ sent[c] \in Nat
  <2>1. d = got[c] - Len(buf)
    BY <1>1, <1>4, DoneValue DEF TcpInv
  <2>2. d \in Nat /\ got[c] <= sent[c]
    BY DoneBounds
  <2>3. sent[c] \in Nat
    BY DEF TcpInv, TcpTypeOK
  <2> QED
    BY <2>1, <2>2, <2>3
<1>7. \A j \in 1..Len(buf) : buf[j] = <<c, d + j>>
  <2>1. buf = Bytes(c, got[c] - Len(buf) + 1, got[c])
    BY <1>1, <1>4 DEF TcpInv, BuffersMatchStream
  <2>2. /\ d + 1 \in Nat /\ d + 1 <= got[c] + 1 /\ got[c] - Len(buf) + 1 = d + 1
        /\ Len(buf) = got[c] - (d + 1) + 1
    BY <1>5, <1>6
  <2>3. buf = Bytes(c, d + 1, got[c])
    BY <2>1, <2>2
  <2>4. \A j \in 1..(got[c] - (d + 1) + 1) : Bytes(c, d + 1, got[c])[j] = <<c, (d + 1) + j - 1>>
    BY <1>1, <1>5, <2>2, BytesProperties
  <2>5. \A j \in 1..Len(buf) : (d + 1) + j - 1 = d + j
    BY <1>6
  <2> QED
    BY <2>2, <2>3, <2>4, <2>5
<1>8. Done(c)' = d + p
  <2>1. owner'[g] = c /\ cur' = g
    BY <1>2
  <2>2. Done(c)' = got'[c] - Len(Held(g)')
    BY <2>1, DoneValueNext DEF TcpInv
  <2>3. Held(g)' = SubSeq(buf, p + 1, Len(buf))
    <3>1. read_buffers_'[g] = SubSeq(buf, p + 1, Len(buf))
      BY <1>1, <1>3 DEF TcpInv, TcpTypeOK
    <3>2. SubSeq(buf, p + 1, Len(buf)) \o <<>> = SubSeq(buf, p + 1, Len(buf))
      BY <1>3, ConcatEmptySeq
    <3> QED
      BY <1>2, <3>1, <3>2 DEF Held
  <2>4. Len(Held(g)') = Len(buf) - p
    BY <1>3, <2>3
  <2> QED
    BY <1>2, <1>5, <1>6, <2>2, <2>4
<1> HIDE DEF d
<1>9. ASSUME NEW e \in Conns, e # c PROVE Done(e)' = Done(e)
  <2>1. \A f \in OpenFds : f # g => Held(f)' = Held(f)
    BY ProcessLineStream DEF TcpInv
  <2>2. \A f \in Fds : owner[f] = e => f \in OpenFds /\ f # g
    BY <1>9, FreeAssumption DEF OpenFds
  <2>3. CASE ~Owned(e)
    <3>1. ~Owned(e)'
      BY <1>2, <2>3 DEF Owned
    <3> QED
      BY <1>2, <2>3, <3>1, DoneValue, DoneValueNext DEF TcpInv
  <2>4. ASSUME NEW f \in Fds, owner[f] = e PROVE Done(e)' = Done(e)
    BY <1>2, <2>1, <2>2, <2>4, DoneValue, DoneValueNext DEF TcpInv
  <2> QED
    BY <2>3, <2>4 DEF Owned
<1>10. DoneMap' = [DoneMap EXCEPT ![c] = d + p] /\ DoneMap[c] = d
  BY <1>1, <1>8, <1>9 DEF DoneMap, d
<1>11. line = Stream!Text(c, d, d + p)
  <2> DEFINE first == FirstLine(buf)
  <2>1. \A j \in 1..(p - 1) : j \in 1..Len(buf)
    BY <1>5
  <2>2. /\ first \in Seq(Byte) /\ Len(first) = p - 1
        /\ \A j \in 1..(p - 1) : first[j] = buf[j]
    BY <1>3
  <2> HIDE DEF first
  <2>3. \A j \in 1..(p - 1) : first[j] = <<c, d + j>>
    BY <1>7, <2>1, <2>2, Zenon
  <2>4. Trim(first) = Stream!Text(c, d, d + p)
    <3>1. d \in Nat /\ p \in Nat \ {0}
      BY <1>5, <1>6
    <3> QED
      BY <2>2, <2>3, <3>1, TrimIsText, Zenon
  <2> QED
    BY <2>4 DEF first
<1>12. executed' =
         [executed EXCEPT ![c] = IF line = <<>> THEN @ ELSE Append(@, line)]
  BY <1>1 DEF ProcessLine, TcpInv, TcpTypeOK
<1>13. c \notin Gone /\ Gone' = Gone
  BY <1>1, <1>2 DEF Gone, TcpInv, OwnerInv
<1>14. Script[c][d + p] = "nl" /\ d + p \in (d + 1)..sent[c]
  <2>1. buf[p] = <<c, d + p>>
    BY <1>7
  <2>2. Script[c][d + p] = "nl"
    BY <1>3, <2>1 DEF Is
  <2> QED
    BY <1>5, <1>6, <2>2
<1>15. ASSUME NEW k \in (d + 1)..(d + p - 1) PROVE Script[c][k] # "nl"
  <2>1. k - d \in 1..(p - 1) /\ k - d \in 1..Len(buf) /\ d + (k - d) = k
    BY <1>5, <1>6
  <2>2. buf[k - d] = <<c, k>>
    BY <1>7, <2>1
  <2> QED
    BY <1>3, <2>1, <2>2 DEF Is
<1> HIDE DEF line
<1> DEFINE n == d + p
<1>16. executed' =
         [executed EXCEPT ![c] =
            IF Stream!Text(c, d, n) = <<>> THEN @ ELSE Append(@, Stream!Text(c, d, n))]
  BY <1>11, <1>12
<1>17. \A k \in (d + 1)..(n - 1) : Script[c][k] # "nl"
  BY <1>5, <1>6, <1>15
<1>18. n \in (d + 1)..sent[c] /\ Script[c][n] = "nl" /\ DoneMap' = [DoneMap EXCEPT ![c] = n]
  BY <1>10, <1>14
<1>19. UNCHANGED <<sent, Gone>> /\ c \notin Gone /\ DoneMap[c] = d
  BY <1>2, <1>10, <1>13
<1> HIDE DEF n
<1> QED
  BY <1>16, <1>17, <1>18, <1>19 DEF Stream!NextLine, DoneMap

\* Reading moves bytes from the stream to the buffer: nothing becomes done.
LEMMA ReadDataRefines ==
  ASSUME TcpInv, TcpInv', ReadData
  PROVE  DoneMap' = DoneMap
<1>1. cur \in OpenFds /\ cur \in Fds /\ owner[cur] \in Conns
  BY CurIsOpen DEF TcpInv, ReadData
<1>2. PICK g \in Fds, c \in Conns : cur = g /\ owner[g] = c
  BY <1>1
<1>3. owner' = owner /\ cur' = g
  BY <1>2 DEF ReadData, loopVars
<1>4. PICK n \in Nat : /\ got' = [got EXCEPT ![c] = @ + n]
                       /\ Len(Held(g)') = Len(Held(g)) + n
  BY <1>2, <1>3, ReadDataEffect DEF TcpInv, Held
<1>5. BufferOpen
  BY DEF TcpInv, BuffersMatchStream, BufferOpen
<1>6. Len(Held(g)) \in Nat /\ got[c] \in Nat /\ got'[c] = got[c] + n
  BY <1>1, <1>2, <1>4, <1>5, HeldProperties DEF TcpInv, TcpTypeOK
<1>7. Done(c)' = Done(c)
  <2>1. Done(c) = got[c] - Len(Held(g)) /\ Done(c)' = got'[c] - Len(Held(g)')
    BY <1>2, <1>3, DoneValue, DoneValueNext DEF TcpInv
  <2> QED
    BY <1>4, <1>6, <2>1
<1>8. ASSUME NEW e \in Conns, e # c PROVE Done(e)' = Done(e)
  <2>1. got'[e] = got[e]
    BY <1>4, <1>8 DEF TcpInv, TcpTypeOK
  <2>2. CASE ~Owned(e)
    <3>1. ~Owned(e)'
      BY <1>3, <2>2 DEF Owned
    <3> QED
      BY <2>1, <2>2, <3>1, DoneValue, DoneValueNext DEF TcpInv
  <2>3. ASSUME NEW f \in Fds, owner[f] = e PROVE Done(e)' = Done(e)
    <3>1. f \in OpenFds /\ f # cur
      BY <1>2, <1>8, <2>3, FreeAssumption DEF OpenFds
    <3>2. Held(f)' = Held(f)
      BY <3>1, ReadDataEffect DEF TcpInv
    <3> QED
      BY <1>3, <2>1, <2>3, <3>2, DoneValue, DoneValueNext DEF TcpInv
  <2> QED
    BY <2>2, <2>3 DEF Owned
<1> QED
  BY <1>7, <1>8 DEF DoneMap

\* A step that closes exactly the connections of S closes them in LineStream.
LEMMA CloseRefines ==
  ASSUME TcpInv, TcpInv', Next, ~ReadData, ~ProcessLine, NEW S \in SUBSET Conns,
         Gone' = Gone \cup S, UNCHANGED <<sent, executed>>,
         \A c \in Conns : IF c \in S THEN ~Owned(c)' ELSE Owned(c) => Owned(c)'
  PROVE  Stream!Close(S)
<1>1. got' = got
  BY HeldKept DEF TcpInv
<1>2. ASSUME NEW c \in Conns, c \in S PROVE Done(c)' \in Done(c)..sent[c]
  <2>1. Done(c)' = got[c]
    BY <1>1, <1>2, DoneValueNext DEF TcpInv
  <2>2. got[c] \in Nat /\ sent[c] \in Nat
    BY DEF TcpInv, TcpTypeOK
  <2> QED
    BY <2>1, <2>2, DoneBounds
<1>3. ASSUME NEW c \in Conns, c \notin S PROVE Done(c)' = Done(c)
  BY <1>3, DoneKept
<1>4. ASSUME NEW c \in Conns PROVE Done(c)' \in Nat
  <2>1. CASE c \in S
    <3>1. Done(c)' = got[c]
      BY <1>1, <2>1, DoneValueNext DEF TcpInv
    <3> QED
      BY <3>1 DEF TcpInv, TcpTypeOK
  <2>2. CASE c \notin S
    <3>1. Done(c)' = Done(c) /\ Done(c) \in Nat
      BY <1>3, <2>2, DoneBounds
    <3> QED
      BY <3>1
  <2> QED
    BY <2>1, <2>2
<1>5. DoneMap' \in [Conns -> Nat]
  BY <1>4 DEF DoneMap
<1>6. \A c \in Conns :
        IF c \in S THEN DoneMap'[c] \in DoneMap[c]..sent[c] ELSE DoneMap'[c] = DoneMap[c]
  BY <1>2, <1>3 DEF DoneMap
<1> QED
  BY <1>5, <1>6 DEF Stream!Close, DoneMap

LEMMA StepRefines ==
  ASSUME TcpInv, TcpInv', Next
  PROVE  Stream!StreamNext \/ UNCHANGED Stream!streamVars
<1> DEFINE Stutter == UNCHANGED <<sent, DoneMap, executed, Gone>>
<1>1. Stutter => UNCHANGED Stream!streamVars
  BY DEF Stream!streamVars, DoneMap
<1>2. ASSUME NEW c \in Conns, Send(c) PROVE Stream!StreamNext
  <2>1. /\ UNCHANGED <<conn, owner, executed>>
        /\ ~ReadData /\ ~ProcessLine
    <3>1. sent[c] \in Nat /\ sent' = [sent EXCEPT ![c] = @ + 1] /\ sent'[c] = sent[c] + 1
      BY <1>2 DEF Send, TcpInv, TcpTypeOK
    <3>2. sent' # sent
      BY <3>1
    <3>3. ~ReadData /\ ~ProcessLine
      BY <3>2 DEF ReadData, ProcessLine
    <3>4. UNCHANGED <<conn, owner, executed>>
      BY <1>2 DEF Send
    <3> QED
      BY <3>3, <3>4
  <2>2. DoneMap' = DoneMap
    BY <2>1, DoneKept DEF Owned, DoneMap
  <2>3. Gone' = Gone /\ c \notin Gone
    BY <1>2, <2>1 DEF Send, Gone
  <2>4. sent[c] < Len(Script[c]) /\ sent' = [sent EXCEPT ![c] = @ + 1]
    BY <1>2 DEF Send
  <2>5. Stream!Arrive(c)
    BY <2>1, <2>2, <2>3, <2>4 DEF Stream!Arrive, DoneMap
  <2> QED
    BY <2>5 DEF Stream!StreamNext
<1>3. CASE ProcessLine
  <2>1. PICK g \in Fds, c \in Conns : cur = g /\ owner[g] = c
    BY <1>3, CurIsOpen DEF TcpInv, ProcessLine
  <2>2. Stream!NextLine(c)
    BY <1>3, <2>1, ProcessLineRefines
  <2> QED
    BY <2>2 DEF Stream!StreamNext
<1>4. CASE ReadData
  <2>1. UNCHANGED <<sent, executed, Gone>>
    BY <1>4 DEF ReadData, Gone
  <2> QED
    BY <1>1, <1>4, <2>1, ReadDataRefines
<1>5. CASE ReadClose /\ ~ReadData /\ ~ProcessLine
  <2>1. cur \in OpenFds /\ cur \in Fds /\ owner[cur] \in Conns
    BY <1>5, CurIsOpen DEF TcpInv, ReadClose
  <2>2. PICK g \in Fds, c \in Conns : cur = g /\ owner[g] = c /\ g \in OpenFds
    BY <2>1
  <2>3. /\ owner' = [owner EXCEPT ![g] = Free]
        /\ conn' = [conn EXCEPT ![c] = "gone"]
        /\ UNCHANGED <<sent, executed>>
    BY <1>5, <2>2 DEF ReadClose
  <2>4. Gone' = Gone \cup {c}
    BY <2>3 DEF Gone, TcpInv, TcpTypeOK
  <2>5. \A f \in Fds : owner'[f] = IF f = g THEN Free ELSE owner[f]
    BY <2>3 DEF TcpInv, TcpTypeOK
  <2>6. ~Owned(c)'
    BY <2>2, <2>5, FreeAssumption DEF Owned, TcpInv, OwnerInv, OpenFds
  <2>7. ASSUME NEW e \in Conns, e # c, Owned(e) PROVE Owned(e)'
    BY <2>2, <2>5, <2>7 DEF Owned
  <2>8. Stream!Close({c})
    BY <1>5, <2>3, <2>4, <2>6, <2>7, CloseRefines
  <2> QED
    BY <2>8 DEF Stream!StreamNext
<1>6. CASE Restart /\ ~ReadData /\ ~ProcessLine
  <2> DEFINE S == {c \in Conns : conn[c] # "none"}
  <2>1. /\ conn' = [c \in Conns |-> IF conn[c] = "none" THEN "none" ELSE "gone"]
        /\ owner' = [f \in Fds |-> Free] /\ UNCHANGED <<sent, executed>>
    BY <1>6 DEF Restart
  <2>2. Gone' = Gone \cup S
    BY <2>1 DEF Gone
  <2>3. ASSUME NEW c \in Conns PROVE ~Owned(c)'
    BY <2>1, FreeAssumption DEF Owned
  <2>4. ASSUME NEW c \in Conns, c \notin S PROVE ~Owned(c)
    BY <2>4, FreeAssumption DEF Owned, OpenFds, TcpInv, OwnerInv
  <2>5. S \in SUBSET Conns /\ \A c \in Conns : IF c \in S THEN ~Owned(c)' ELSE Owned(c) => Owned(c)'
    BY <2>3, <2>4
  <2> HIDE DEF S
  <2>6. Stream!Close(S)
    BY <1>6, <2>1, <2>2, <2>5, CloseRefines
  <2> QED
    BY <2>5, <2>6 DEF Stream!StreamNext
<1>7. ASSUME NEW c \in Conns, Accept(c), ~ReadData, ~ProcessLine PROVE Stutter
  <2>1. PICK fd \in Fds : owner[fd] = Free /\ owner' = [owner EXCEPT ![fd] = c]
    BY <1>7, AcceptDescriptor DEF Accept, FreeFds
  <2>2. \A e \in Conns : Owned(e) => Owned(e)'
    BY <2>1, FreeAssumption DEF Owned, TcpInv, TcpTypeOK
  <2>3. Gone' = Gone /\ UNCHANGED <<sent, executed>>
    BY <1>7 DEF Accept, Backlog, Gone, TcpInv, TcpTypeOK
  <2> QED
    BY <1>7, <2>2, <2>3, DoneKept DEF DoneMap
<1>8. ASSUME UNCHANGED <<sent, executed, conn, owner>>, ~ReadData, ~ProcessLine PROVE Stutter
  BY <1>8, DoneKept DEF DoneMap, Gone, Owned
<1>9. ASSUME NEW c \in Conns, Connect(c), ~ReadData, ~ProcessLine PROVE Stutter
  <2>1. UNCHANGED <<sent, executed, owner>> /\ Gone' = Gone
    BY <1>9 DEF Connect, Gone, TcpInv, TcpTypeOK
  <2> QED
    BY <1>9, <2>1, DoneKept DEF DoneMap, Owned
<1> QED
  BY <1>1, <1>2, <1>3, <1>4, <1>5, <1>6, <1>7, <1>8, <1>9
     DEF Next, Server, Client, ReadAnswers, HangUp, EpollWait, BatchDone, Dispatch,
         AcceptDone, ReadAgain, ProcessDone, netVars

\* handle_read's chunks, its buffer per descriptor and the reuse of descriptors
\* implement LineStream: each line a client completes is run whole, in order and
\* once, and only a closing connection takes bytes along that were not run.
THEOREM TcpImplementsStream == Spec => ImplementsStream
<1>1. Init => Stream!StreamInit
  <2> SUFFICES ASSUME Init PROVE Stream!StreamInit
    OBVIOUS
  <2>1. \A c \in Conns : Done(c) = 0
    BY FreeAssumption DEF Init, Done
  <2> QED
    BY <2>1 DEF Init, Gone, Stream!StreamInit
<1>2. TcpInv /\ TcpInv' /\ [Next]_tcpVars => [Stream!StreamNext]_Stream!streamVars
  <2>1. UNCHANGED tcpVars => UNCHANGED Stream!streamVars
    BY DEF tcpVars, netVars, loopVars, bufVars, Stream!streamVars, Done, Held, Gone
  <2> QED
    BY <2>1, StepRefines
<1> QED
  BY <1>1, <1>2, TcpInvariant, PTL DEF Spec, ImplementsStream, Stream!StreamSpec

-----------------------------------------------------------------------------
(* The lines of the whole script.                                          *)

\* s holds the lines with a text that end at d or before, in order.
RanTo(s, c, d) ==
  /\ Len(s) = LinesUpTo(c, d)
  /\ \A i \in 1..Len(s) :
       \E n \in FullLines(c) : n <= d /\ LinesUpTo(c, n) = i /\ s[i] = LineTo(c, n)

LEMMA LineEndsType ==
  ASSUME NEW c \in Conns
  PROVE  /\ Len(Script[c]) \in Nat /\ LineEnds(c) \subseteq 1..Len(Script[c])
         /\ FullLines(c) \subseteq LineEnds(c) /\ IsFiniteSet(FullLines(c))
         /\ \A n \in 1..Len(Script[c]) : n \in LineEnds(c) <=> Script[c][n] = "nl"
<1>1. Script[c] \in Seq({"x", "cr", "nl"})
  BY ScriptAssumption
<1>2. Len(Script[c]) \in Nat /\ DOMAIN Script[c] = 1..Len(Script[c])
  BY <1>1, LenProperties
<1>3. LineEnds(c) \in SUBSET (1..Len(Script[c]))
  BY <1>2 DEF LineEnds
<1>4. FullLines(c) \in SUBSET (1..Len(Script[c])) /\ FullLines(c) \subseteq LineEnds(c)
  BY <1>3 DEF FullLines
<1>5. IsFiniteSet(1..Len(Script[c]))
  BY <1>2, FS_Interval
<1>6. IsFiniteSet(FullLines(c))
  BY <1>4, <1>5, FS_Subset
<1> QED
  BY <1>2, <1>3, <1>4, <1>6 DEF LineEnds

LEMMA LinesUpToType ==
  ASSUME NEW c \in Conns, NEW d \in Nat
  PROVE  /\ IsFiniteSet({m \in FullLines(c) : m <= d}) /\ LinesUpTo(c, d) \in Nat
         /\ LinesUpTo(c, d) <= Cardinality(FullLines(c))
         /\ Cardinality(FullLines(c)) \in Nat
<1> DEFINE T == {m \in FullLines(c) : m <= d}
<1>1. T \in SUBSET FullLines(c) /\ IsFiniteSet(FullLines(c))
  BY LineEndsType
<1>2. LinesUpTo(c, d) = Cardinality(T)
  BY DEF LinesUpTo
<1> HIDE DEF T
<1>3. IsFiniteSet(T) /\ Cardinality(T) <= Cardinality(FullLines(c))
  BY <1>1, FS_Subset
<1>4. Cardinality(T) \in Nat /\ Cardinality(FullLines(c)) \in Nat
  BY <1>1, <1>3, FS_CardinalityType
<1> QED
  BY <1>2, <1>3, <1>4 DEF T

\* A line starts after the newline before it, or at the stream's start.
LEMMA LineStartIs ==
  ASSUME NEW c \in Conns, NEW d \in LineEnds(c) \cup {0}, NEW n \in Nat, d < n,
         \A k \in (d + 1)..(n - 1) : k \notin LineEnds(c)
  PROVE  LineStart(c, n) = d
<1>1. \A m \in LineEnds(c) \cup {0} : m \in Nat
  BY LineEndsType
<1>2. ASSUME NEW m \in LineEnds(c) \cup {0}, m < n,
             \A k \in (m + 1)..(n - 1) : k \notin LineEnds(c)
      PROVE  m = d
  <2>1. m \in Nat /\ d \in Nat
    BY <1>1
  <2>2. CASE m < d
    <3>1. d \in (m + 1)..(n - 1) /\ d # 0
      BY <2>1, <2>2
    <3> QED
      BY <1>2, <3>1
  <2>3. CASE d < m
    <3>1. m \in (d + 1)..(n - 1) /\ m # 0
      BY <1>2, <2>1, <2>3
    <3> QED
      BY <3>1
  <2> QED
    BY <2>1, <2>2, <2>3
<1> QED
  BY <1>2 DEF LineStart

\* Each line with a text has a number of its own.
LEMMA LineNumbersDiffer ==
  ASSUME NEW c \in Conns, NEW a \in FullLines(c), NEW b \in FullLines(c),
         LinesUpTo(c, a) = LinesUpTo(c, b)
  PROVE  a = b
<1>1. \A n \in FullLines(c) : n \in Nat
  BY LineEndsType
<1>2. ASSUME NEW m \in FullLines(c), NEW n \in FullLines(c), m < n
      PROVE  LinesUpTo(c, m) # LinesUpTo(c, n)
  <2> DEFINE S == {k \in FullLines(c) : k <= m}
             T == {k \in FullLines(c) : k <= n}
  <2>1. LinesUpTo(c, m) = Cardinality(S) /\ LinesUpTo(c, n) = Cardinality(T)
    BY DEF LinesUpTo
  <2>2. S \in SUBSET T
    BY <1>1, <1>2
  <2>3. n \in T /\ n \notin S
    BY <1>1, <1>2
  <2>4. IsFiniteSet(T)
    BY <1>1, LinesUpToType
  <2> HIDE DEF S, T
  <2>5. Cardinality(S) # Cardinality(T)
    BY <2>2, <2>3, <2>4, FS_Subset
  <2> QED
    BY <2>1, <2>5
<1>3. a \in Nat /\ b \in Nat
  BY <1>1
<1>4. a < b \/ b < a \/ a = b
  BY <1>3
<1> QED
  BY <1>2, <1>4

\* From a newline to the next, one line more, or none if it has no text.
LEMMA OneLineMore ==
  ASSUME NEW c \in Conns, NEW d \in Nat, NEW n \in LineEnds(c), d < n,
         \A k \in (d + 1)..(n - 1) : k \notin LineEnds(c)
  PROVE  /\ n \in FullLines(c) => LinesUpTo(c, n) = LinesUpTo(c, d) + 1
         /\ n \notin FullLines(c) => LinesUpTo(c, n) = LinesUpTo(c, d)
<1> DEFINE S == {k \in FullLines(c) : k <= d}
           T == {k \in FullLines(c) : k <= n}
<1>1. LinesUpTo(c, d) = Cardinality(S) /\ LinesUpTo(c, n) = Cardinality(T)
  BY DEF LinesUpTo
<1>2. n \in Nat /\ \A k \in FullLines(c) : k \in Nat /\ k \in LineEnds(c)
  BY LineEndsType
<1>3. \A k \in FullLines(c) : k <= n <=> k <= d \/ k = n
  <2> TAKE k \in FullLines(c)
  <2>1. k \in Nat /\ k \notin (d + 1)..(n - 1)
    BY <1>2
  <2> QED
    BY <1>2, <2>1
<1>4. IsFiniteSet(S) /\ n \notin S
  BY <1>2, LinesUpToType
<1>5. CASE n \in FullLines(c)
  <2>1. T = S \cup {n}
    BY <1>3, <1>5
  <2> HIDE DEF S, T
  <2>2. Cardinality(S \cup {n}) = Cardinality(S) + 1
    BY <1>4, FS_AddElement
  <2> QED
    BY <1>1, <1>5, <2>1, <2>2
<1>6. CASE n \notin FullLines(c)
  <2>1. T = S
    BY <1>3, <1>6
  <2> HIDE DEF S, T
  <2> QED
    BY <1>1, <1>6, <2>1
<1> QED
  BY <1>5, <1>6

LEMMA TextType ==
  ASSUME NEW c \in Conns, NEW m \in Nat, NEW n \in Nat, m < n
  PROVE  Stream!Text(c, m, n) \in Seq(Byte)
<1>1. PICK e \in Nat : m <= e /\ Stream!Text(c, m, n) = [i \in 1..(e - m) |-> <<c, m + i>>]
  <2>1. CASE m + 1 < n /\ Script[c][n - 1] = "cr"
    <3>1. n - 2 \in Nat /\ m <= n - 2
      BY <2>1
    <3>2. Stream!Text(c, m, n) = [i \in 1..((n - 2) - m) |-> <<c, m + i>>]
      BY <2>1 DEF Stream!Text
    <3> QED
      BY <3>1, <3>2
  <2>2. CASE ~(m + 1 < n /\ Script[c][n - 1] = "cr")
    <3>1. n - 1 \in Nat /\ m <= n - 1
      OBVIOUS
    <3>2. Stream!Text(c, m, n) = [i \in 1..((n - 1) - m) |-> <<c, m + i>>]
      BY <2>2 DEF Stream!Text
    <3> QED
      BY <3>1, <3>2
  <2> QED
    BY <2>1, <2>2
<1>2. e - m \in Nat /\ \A i \in 1..(e - m) : <<c, m + i>> \in Byte
  BY <1>1 DEF Byte
<1>3. [i \in 1..(e - m) |-> <<c, m + i>>] \in [1..(e - m) -> Byte]
  BY <1>2
<1> QED
  BY <1>1, <1>2, <1>3, FunctionIsSeq

\* Running the line that ends at n after those up to d.
LEMMA RanNext ==
  ASSUME NEW c \in Conns, NEW d \in LineEnds(c) \cup {0}, NEW n \in LineEnds(c), d < n,
         \A k \in (d + 1)..(n - 1) : k \notin LineEnds(c),
         NEW s \in Seq(Seq(Byte)), RanTo(s, c, d), NEW text, text = Stream!Text(c, d, n)
  PROVE  RanTo(IF text = <<>> THEN s ELSE Append(s, text), c, n)
<1>1. d \in Nat /\ n \in Nat
  BY LineEndsType
<1>2. LineTo(c, n) = text
  <2>1. LineStart(c, n) = d
    BY <1>1, LineStartIs
  <2> QED
    BY <2>1 DEF LineTo
<1>3. n \in FullLines(c) <=> text # <<>>
  BY <1>2 DEF FullLines
<1>4. /\ n \in FullLines(c) => LinesUpTo(c, n) = LinesUpTo(c, d) + 1
      /\ n \notin FullLines(c) => LinesUpTo(c, n) = LinesUpTo(c, d)
  BY <1>1, OneLineMore
<1>5. Len(s) = LinesUpTo(c, d)
  BY DEF RanTo
<1>6. ASSUME NEW i \in 1..Len(s)
      PROVE  \E m \in FullLines(c) : m <= n /\ LinesUpTo(c, m) = i /\ s[i] = LineTo(c, m)
  <2>1. PICK m \in FullLines(c) : m <= d /\ LinesUpTo(c, m) = i /\ s[i] = LineTo(c, m)
    BY DEF RanTo
  <2>2. m \in Nat
    BY LineEndsType
  <2>3. m <= n
    BY <1>1, <2>1, <2>2
  <2> QED
    BY <2>1, <2>3
<1>7. CASE text = <<>>
  <2>1. Len(s) = LinesUpTo(c, n)
    BY <1>3, <1>4, <1>5, <1>7
  <2>2. RanTo(s, c, n)
    BY <1>6, <2>1 DEF RanTo
  <2> QED
    BY <1>7, <2>2
<1>8. CASE text # <<>>
  <2> DEFINE t == Append(s, text)
  <2>1. text \in Seq(Byte)
    BY <1>1, TextType
  <2>2. /\ Len(t) = Len(s) + 1 /\ Len(s) \in Nat
        /\ \A i \in 1..Len(s) : t[i] = s[i]
        /\ t[Len(s) + 1] = text
    BY <2>1, AppendProperties, LenProperties
  <2> HIDE DEF t
  <2>3. Len(t) = LinesUpTo(c, n)
    BY <1>3, <1>4, <1>5, <1>8, <2>2
  <2>4. ASSUME NEW i \in 1..Len(t)
        PROVE  \E m \in FullLines(c) : m <= n /\ LinesUpTo(c, m) = i /\ t[i] = LineTo(c, m)
    <3>1. CASE i \in 1..Len(s)
      <4>1. t[i] = s[i]
        BY <2>2, <3>1
      <4> QED
        BY <1>6, <3>1, <4>1
    <3>2. CASE i = Len(s) + 1
      <4>1. n \in FullLines(c) /\ LinesUpTo(c, n) = i
        BY <1>3, <1>8, <2>2, <2>3, <3>2
      <4>2. t[i] = LineTo(c, n) /\ n <= n
        BY <1>1, <1>2, <2>2, <3>2
      <4> QED
        BY <4>1, <4>2
    <3>3. i \in 1..Len(s) \/ i = Len(s) + 1
      BY <2>2
    <3> QED
      BY <3>1, <3>2, <3>3
  <2>5. RanTo(t, c, n)
    BY <2>3, <2>4 DEF RanTo
  <2> QED
    BY <1>8, <2>5 DEF t
<1> QED
  BY <1>7, <1>8

\* Sequences that agree up to k have the same prefix.
LEMMA SamePrefix ==
  ASSUME NEW s, NEW t, NEW k \in Nat, \A i \in 1..k : s[i] = t[i]
  PROVE  SubSeq(s, 1, k) = SubSeq(t, 1, k)
<1> DEFINE S == {s[i] : i \in 1..k}
           a == SubSeq(s, 1, k)
           b == SubSeq(t, 1, k)
<1>1. \A i \in 1..k : s[i] \in S /\ t[i] \in S
  OBVIOUS
<1> HIDE DEF S
<1>2. /\ a \in Seq(S) /\ Len(a) = IF 1 <= k THEN k - 1 + 1 ELSE 0
      /\ \A i \in 1..(k - 1 + 1) : a[i] = s[1 + i - 1]
  BY <1>1, SubSeqProperties
<1>3. /\ b \in Seq(S) /\ Len(b) = IF 1 <= k THEN k - 1 + 1 ELSE 0
      /\ \A i \in 1..(k - 1 + 1) : b[i] = t[1 + i - 1]
  BY <1>1, SubSeqProperties
<1> HIDE DEF a, b
<1>4. Len(a) = k /\ Len(b) = k
  BY <1>2, <1>3
<1>5. \A i \in 1..Len(a) : a[i] = b[i]
  <2> TAKE i \in 1..Len(a)
  <2>1. i \in 1..k /\ i \in 1..(k - 1 + 1) /\ 1 + i - 1 = i
    BY <1>4
  <2> QED
    BY <1>2, <1>3, <2>1
<1>6. a = b
  BY <1>2, <1>3, <1>4, <1>5, SeqEqual
<1> QED
  BY <1>6 DEF a, b

\* The lines up to a newline are the first of those of the script.
LEMMA RanIsPrefix ==
  ASSUME NEW c \in Conns, NEW d \in Nat, NEW s \in Seq(Seq(Byte)), RanTo(s, c, d)
  PROVE  IsPrefix(s, Lines[c])
<1> DEFINE N == Cardinality(FullLines(c))
           nth(i) == CHOOSE n \in FullLines(c) : LinesUpTo(c, n) = i
           t == [i \in 1..N |-> LineTo(c, nth(i))]
           S == {t[i] : i \in 1..N}
<1>1. Lines[c] = t
  BY DEF Lines
<1>2. N \in Nat /\ Len(s) = LinesUpTo(c, d) /\ Len(s) \in Nat /\ Len(s) <= N
  BY LinesUpToType DEF RanTo
<1>3. ASSUME NEW i \in 1..Len(s) PROVE s[i] = t[i]
  <2>1. PICK n \in FullLines(c) : LinesUpTo(c, n) = i /\ s[i] = LineTo(c, n)
    BY DEF RanTo
  <2>2. nth(i) = n
    BY <2>1, LineNumbersDiffer
  <2>3. i \in 1..N
    BY <1>2
  <2> HIDE DEF N, nth
  <2> QED
    BY <2>1, <2>2, <2>3
<1>4. t \in [1..N -> S]
  OBVIOUS
<1> HIDE DEF N, t, S
<1>5. Len(t) = N
  BY <1>2, <1>4, FunctionIsSeq
<1>6. SubSeq(s, 1, Len(s)) = SubSeq(t, 1, Len(s))
  BY <1>2, <1>3, SamePrefix
<1> QED
  BY <1>1, <1>2, <1>5, <1>6 DEF IsPrefix

\* The lines run for a connection are those up to what the server is done with; of
\* a connection that is over, those up to some point.
LinesInv ==
  \A c \in Conns :
    /\ sent[c] <= Len(Script[c])
    /\ \E d \in Nat :
         /\ RanTo(executed[c], c, d)
         /\ c \notin Gone => d = Done(c) /\ d \in LineEnds(c) \cup {0}

LEMMA InitLines == Init => LinesInv
<1> SUFFICES ASSUME Init, NEW c \in Conns
             PROVE  /\ sent[c] <= Len(Script[c])
                    /\ RanTo(executed[c], c, 0) /\ Done(c) = 0
  BY DEF LinesInv
<1>1. executed[c] = <<>> /\ Len(<<>>) = 0 /\ sent[c] = 0 /\ Done(c) = 0
  BY FreeAssumption DEF Init, Done
<1>2. \A n \in FullLines(c) : n \in Nat \ {0}
  BY LineEndsType
<1>3. {m \in FullLines(c) : m <= 0} = {}
  BY <1>2
<1>4. LinesUpTo(c, 0) = 0
  BY <1>3, FS_EmptySet DEF LinesUpTo
<1>5. RanTo(<<>>, c, 0)
  BY <1>1, <1>4 DEF RanTo
<1> QED
  BY <1>1, <1>5, LineEndsType

LEMMA StepLines ==
  ASSUME TcpInv, TcpInv', LinesInv, Next
  PROVE  LinesInv'
<1>1. \A c \in Conns : sent[c] \in Nat /\ executed[c] \in Seq(Seq(Byte)) /\ Done(c) \in Nat
  BY DoneBounds DEF TcpInv, TcpTypeOK, Byte
<1>2. \A c \in Conns : Done(c) = DoneMap[c] /\ Done(c)' = DoneMap'[c]
  BY DEF DoneMap
<1>3. ASSUME NEW c \in Conns, Stream!Arrive(c) PROVE LinesInv'
  <2>1. /\ sent[c] < Len(Script[c]) /\ sent' = [sent EXCEPT ![c] = @ + 1]
        /\ DoneMap' = DoneMap /\ executed' = executed /\ Gone' = Gone
    BY <1>3 DEF Stream!Arrive, DoneMap
  <2>2. \A e \in Conns : sent'[e] <= Len(Script[e])
    <3>1. sent'[c] = sent[c] + 1 /\ \A e \in Conns : e # c => sent'[e] = sent[e]
      BY <2>1 DEF TcpInv, TcpTypeOK
    <3>2. Len(Script[c]) \in Nat /\ sent[c] \in Nat
      BY <1>1, LineEndsType
    <3>3. sent'[c] <= Len(Script[c])
      BY <2>1, <3>1, <3>2
    <3> QED
      BY <3>1, <3>3 DEF LinesInv
  <2> QED
    BY <1>2, <2>1, <2>2 DEF LinesInv
<1>4. ASSUME NEW c \in Conns, Stream!NextLine(c) PROVE LinesInv'
  <2>1. PICK n \in (DoneMap[c] + 1)..sent[c] :
          /\ c \notin Gone /\ Script[c][n] = "nl"
          /\ \A k \in (DoneMap[c] + 1)..(n - 1) : Script[c][k] # "nl"
          /\ DoneMap' = [DoneMap EXCEPT ![c] = n]
          /\ executed' =
               [executed EXCEPT ![c] =
                  IF Stream!Text(c, DoneMap[c], n) = <<>>
                    THEN @ ELSE Append(@, Stream!Text(c, DoneMap[c], n))]
          /\ UNCHANGED <<sent, Gone>>
    BY <1>4 DEF Stream!NextLine, DoneMap
  <2>2. PICK d, text : d = Done(c) /\ text = Stream!Text(c, d, n)
    OBVIOUS
  <2>3. /\ d \in Nat /\ n \in Nat /\ d < n /\ n \in (d + 1)..sent[c] /\ DoneMap[c] = d
        /\ n \in 1..Len(Script[c])
    <3>1. sent[c] <= Len(Script[c]) /\ Len(Script[c]) \in Nat
      BY LineEndsType DEF LinesInv
    <3> QED
      BY <1>1, <1>2, <2>1, <2>2, <3>1
  <2>4. RanTo(executed[c], c, d) /\ d \in LineEnds(c) \cup {0}
    BY <2>1, <2>2 DEF LinesInv
  <2>5. n \in LineEnds(c) /\ \A k \in (d + 1)..(n - 1) : k \notin LineEnds(c)
    <3>1. \A k \in LineEnds(c) : Script[c][k] = "nl"
      BY DEF LineEnds
    <3> QED
      BY <2>1, <2>3, <3>1, LineEndsType
  <2>6. RanTo(IF text = <<>> THEN executed[c] ELSE Append(executed[c], text), c, n)
    BY <1>1, <2>2, <2>3, <2>4, <2>5, RanNext
  <2>7. executed'[c] = IF text = <<>> THEN executed[c] ELSE Append(executed[c], text)
    BY <2>1, <2>2, <2>3 DEF TcpInv, TcpTypeOK
  <2>8. DoneMap'[c] = n /\ \A e \in Conns : e # c => DoneMap'[e] = DoneMap[e]
    BY <2>1 DEF DoneMap
  <2>9. \A e \in Conns : e # c => executed'[e] = executed[e]
    BY <2>1 DEF TcpInv, TcpTypeOK
  <2>10. ASSUME NEW e \in Conns
         PROVE  /\ sent'[e] <= Len(Script[e])
                /\ \E m \in Nat :
                     /\ RanTo(executed'[e], e, m)
                     /\ e \notin Gone' => m = Done(e)' /\ m \in LineEnds(e) \cup {0}
    <3>1. sent'[e] <= Len(Script[e])
      BY <2>1 DEF LinesInv
    <3>2. CASE e = c
      BY <1>2, <2>3, <2>5, <2>6, <2>7, <2>8, <3>1, <3>2
    <3>3. CASE e # c
      <4>1. executed'[e] = executed[e] /\ Done(e)' = Done(e) /\ Gone' = Gone
        BY <1>2, <2>1, <2>8, <2>9, <3>3
      <4> QED
        BY <3>1, <4>1 DEF LinesInv
    <3> QED
      BY <3>2, <3>3
  <2> QED
    BY <2>10 DEF LinesInv
<1>5. ASSUME NEW S \in SUBSET Conns, Stream!Close(S) PROVE LinesInv'
  <2>1. /\ Gone' = Gone \cup S /\ UNCHANGED <<sent, executed>>
        /\ \A c \in Conns : c \notin S => DoneMap'[c] = DoneMap[c]
    BY <1>5 DEF Stream!Close, DoneMap
  <2>2. ASSUME NEW c \in Conns
        PROVE  /\ sent'[c] <= Len(Script[c])
               /\ \E d \in Nat :
                    /\ RanTo(executed'[c], c, d)
                    /\ c \notin Gone' => d = Done(c)' /\ d \in LineEnds(c) \cup {0}
    <3>1. PICK d \in Nat :
            /\ RanTo(executed[c], c, d)
            /\ c \notin Gone => d = Done(c) /\ d \in LineEnds(c) \cup {0}
      BY DEF LinesInv
    <3>2. sent'[c] <= Len(Script[c])
      BY <2>1 DEF LinesInv
    <3>3. c \notin Gone' => c \notin Gone /\ Done(c)' = Done(c)
      BY <1>2, <2>1
    <3> QED
      BY <2>1, <3>1, <3>2, <3>3
  <2> QED
    BY <2>2 DEF LinesInv
<1>6. CASE UNCHANGED Stream!streamVars
  <2>1. DoneMap' = DoneMap /\ UNCHANGED <<sent, executed, Gone>>
    BY <1>6 DEF Stream!streamVars, DoneMap
  <2> QED
    BY <1>2, <2>1 DEF LinesInv
<1> QED
  BY <1>3, <1>4, <1>5, <1>6, StepRefines DEF Stream!StreamNext

\* Cutting each read's bytes at their newlines, with the rest kept in the buffer,
\* runs for every client the first of the lines it sends, as a reading of the whole
\* script finds them: none is split, joined to another, repeated or left out.
THEOREM TcpLinesRunInOrder == Spec => []LinesRunInOrder
<1>1. TcpInv /\ TcpInv' /\ LinesInv /\ [Next]_tcpVars => LinesInv'
  <2>1. ASSUME LinesInv, UNCHANGED tcpVars PROVE LinesInv'
    <3>1. UNCHANGED <<conn, sent, got, owner, pc, cur, accumulated, read_buffers_, executed>>
      BY <2>1 DEF tcpVars, netVars, loopVars, bufVars
    <3>2. Gone' = Gone
      BY <3>1 DEF Gone
    <3>3. \A c \in Conns : Done(c)' = Done(c)
      BY <3>1 DEF Done, Held
    <3> QED
      BY <2>1, <3>1, <3>2, <3>3 DEF LinesInv
  <2> QED
    BY <2>1, StepLines
<1>2. TcpInv /\ LinesInv => LinesRunInOrder
  <2> SUFFICES ASSUME TcpInv, LinesInv, NEW c \in Conns
               PROVE  IsPrefix(executed[c], Lines[c])
    BY DEF LinesRunInOrder
  <2>1. executed[c] \in Seq(Seq(Byte))
    BY DEF TcpInv, TcpTypeOK, Byte
  <2>2. PICK d \in Nat : RanTo(executed[c], c, d)
    BY DEF LinesInv
  <2> QED
    BY <2>1, <2>2, RanIsPrefix
<1> QED
  BY <1>1, <1>2, InitLines, TcpInvariant, PTL DEF Spec
=============================================================================
