------------------------------ MODULE IpcProofs ------------------------------
(***************************************************************************)
(* Proofs about Ipc: both ends agree who is connected to whom, commands    *)
(* and answers arrive whole and with their own client, and only a kill     *)
(* ends a daemon, for any number of daemons and clients, any commands, any *)
(* size of a read and any backlog.                                         *)
(***************************************************************************)
EXTENDS Ipc, FiniteSetTheorems, FunctionTheorems, SequenceTheorems,
        WellFoundedInduction, TLAPS

-----------------------------------------------------------------------------
(* The invariant.                                                          *)

\* What is between two places of a text that is sent, and where its first line ends.
Piece(line, i, j) == SubSeq(Packet(line), i + 1, j)
EndOf(line) == Len(UpToNewline(line))

Kept ==
  /\ request \in Requests
  /\ path \in Daemon \union {None}
  /\ at \in [Daemon -> {"down"} \union Launching \union Looping]
  /\ conn \in [Daemon -> Client \union {None}]
  /\ phase \in [Client -> {"idle", "sending", "reading"} \union Ended]
  /\ queue \in [Daemon -> Seq(Client)]
  /\ link \in [Client -> Daemon \union {None}]
  /\ up \in [Client -> Text] /\ down \in [Client -> Text]
  /\ text \in [Client \union Daemon -> Text]

\* A daemon serves and queues the clients linked to it, each once.
Linked ==
  \A d \in Daemon :
    /\ at[d] \in {"receive", "handle", "send"} <=> conn[d] # None
    /\ Len(queue[d]) <= Backlog
    /\ \A c \in Client : link[c] = d <=> c \in Waiting(d) \/ c = conn[d]
    /\ conn[d] \notin Waiting(d)
    /\ \A i, j \in DOMAIN queue[d] : queue[d][i] = queue[d][j] => i = j

Connected == \A c \in Client : link[c] # None => phase[c] \notin {"idle", "failed"}

Unused ==
  /\ \A d \in Daemon : conn[d] = None => text[d] = << >>
  /\ \A c \in Client : phase[c] = "idle" => up[c] = << >> /\ down[c] = << >>

\* A command is still on its way to the daemon.
Asking(c) == link[c] # None /\ (conn[link[c]] = c => at[link[c]] = "receive")

Received(c) == IF conn[link[c]] = c THEN text[link[c]] ELSE << >>

\* What the daemon received, what is in the socket and what is not written yet are
\* consecutive pieces of the request, and the line break is not among the first.
CommandOf(c) ==
  \E k \in 0..EndOf(request[c]) : \E m \in k..Len(request[c]) + 1 :
    /\ Received(c) = Piece(request[c], 0, k)
    /\ up[c] = Piece(request[c], k, m)
    /\ phase[c] = "sending" =>
         /\ m <= Len(request[c])
         /\ text[c] = Piece(request[c], m, Len(request[c]) + 1)

CommandInPieces == \A c \in Client : Asking(c) => CommandOf(c)

\* Nothing comes back before the command is handled.
Unanswered == \A c \in Client : Asking(c) => down[c] = << >> /\ phase[c] # "answered"

CommandReceived ==
  \A d \in Daemon :
    /\ at[d] = "handle" => text[d] = Command(conn[d]) /\ down[conn[d]] = << >>
                           /\ phase[conn[d]] # "answered"
    /\ at[d] = "send" => <<conn[d], Command(conn[d])>> \in handled

Answering(c) == link[c] # None /\ conn[link[c]] = c /\ at[link[c]] = "send"

\* A client that is still writing, after the line break of its first line, has read
\* nothing.
Taken(c) == IF phase[c] = "reading" THEN text[c] ELSE << >>

\* What the client read, what is in the socket and what the daemon still has to write
\* are consecutive pieces of the answer, and the line break is not among the first.
AnswerOf(c) ==
  \E k \in 0..EndOf(Reply(c)) : \E m \in k..Len(Reply(c)) + 1 :
    /\ Taken(c) = Piece(Reply(c), 0, k)
    /\ down[c] = Piece(Reply(c), k, m)
    /\ m > 0 => <<c, Command(c)>> \in handled
    /\ link[c] # None /\ ~Answering(c) => m = 0
    /\ Answering(c) => text[link[c]] = Piece(Reply(c), m, Len(Reply(c)) + 1)

AnswerInPieces == \A c \in Client : Open(c) => AnswerOf(c)

IInv ==
  /\ Kept /\ Linked /\ Connected /\ Unused /\ CommandInPieces /\ Unanswered
  /\ CommandReceived /\ AnswerInPieces /\ WholeCommands /\ OwnAnswer
-----------------------------------------------------------------------------
(* Pieces of a line.                                                       *)

LEMMA PacketOfLine ==
  ASSUME NEW line \in Text
  PROVE  /\ Packet(line) \in Text
         /\ Len(line) \in Nat
         /\ Len(Packet(line)) = Len(line) + 1
         /\ \A i \in 1..Len(line) : Packet(line)[i] = line[i]
         /\ Packet(line)[Len(line) + 1] = Newline
<1>1. Newline \in Word \union {Newline} /\ Len(line) \in Nat
  BY LenProperties DEF Text
<1> QED BY <1>1, AppendProperties DEF Packet, Text

LEMMA PartOfText ==
  ASSUME NEW s \in Text, NEW m \in Nat, NEW n \in Nat,
         1 <= m, m <= n + 1, n <= Len(s)
  PROVE  /\ SubSeq(s, m, n) \in Text
         /\ Len(SubSeq(s, m, n)) = n - m + 1
         /\ \A i \in 1..(n - m + 1) : SubSeq(s, m, n)[i] = s[m + i - 1]
<1>1. Len(s) \in Nat
  BY LenProperties DEF Text
<1>2. \A i \in m..n : s[i] \in Word \union {Newline}
  BY <1>1, ElementOfSeq DEF Text
<1>3. /\ SubSeq(s, m, n) \in Text
      /\ Len(SubSeq(s, m, n)) = IF m <= n THEN n - m + 1 ELSE 0
      /\ \A i \in 1..(n - m + 1) : SubSeq(s, m, n)[i] = s[m + i - 1]
  BY <1>2, SubSeqProperties DEF Text
<1> QED BY <1>3

LEMMA PieceOfLine ==
  ASSUME NEW line \in Text,
         NEW i \in 0..Len(line) + 1, NEW j \in i..Len(line) + 1
  PROVE  /\ Piece(line, i, j) \in Text
         /\ Len(Piece(line, i, j)) = j - i
         /\ \A n \in 1..(j - i) : Piece(line, i, j)[n] = Packet(line)[i + n]
<1>1. /\ Packet(line) \in Text /\ Len(line) \in Nat
      /\ Len(Packet(line)) = Len(line) + 1
  BY PacketOfLine
<1>2. PICK m \in Nat : m = i + 1
  BY <1>1
<1>3. i \in Nat /\ j \in Nat /\ 1 <= m /\ m <= j + 1 /\ j <= Len(Packet(line))
  BY <1>1, <1>2
<1>4. /\ SubSeq(Packet(line), m, j) \in Text
      /\ Len(SubSeq(Packet(line), m, j)) = j - m + 1
      /\ \A n \in 1..(j - m + 1) : SubSeq(Packet(line), m, j)[n] = Packet(line)[m + n - 1]
  BY <1>1, <1>3, PartOfText
<1>5. Piece(line, i, j) = SubSeq(Packet(line), m, j)
  BY <1>2 DEF Piece
<1> QED BY <1>2, <1>3, <1>4, <1>5

LEMMA PiecesJoin ==
  ASSUME NEW line \in Text,
         NEW i \in 0..Len(line) + 1, NEW j \in i..Len(line) + 1, NEW k \in j..Len(line) + 1
  PROVE  Piece(line, i, j) \o Piece(line, j, k) = Piece(line, i, k)
<1>1. /\ Packet(line) \in Text /\ Len(line) \in Nat
      /\ Len(Packet(line)) = Len(line) + 1
  BY PacketOfLine
<1>2. /\ i + 1 \in 1..Len(Packet(line)) + 1 /\ j \in (i + 1) - 1..Len(Packet(line))
      /\ k \in j..Len(Packet(line))
  BY <1>1
<1> QED BY <1>1, <1>2, ConcatAdjacentSubSeq DEF Piece, Text

LEMMA EmptyPiece ==
  ASSUME NEW line \in Text, NEW i \in 0..Len(line) + 1
  PROVE  Piece(line, i, i) = << >>
  BY PacketOfLine, SubSeqEmpty DEF Piece

\* The start of a text is the start of what is sent for it.
LEMMA StartPiece ==
  ASSUME NEW line \in Text, NEW n \in 0..Len(line)
  PROVE  SubSeq(line, 1, n) = Piece(line, 0, n)
<1>1. Len(line) \in Nat /\ n \in Nat /\ n <= Len(line) /\ n \in 0..Len(line) + 1
      /\ 0 \in 0..Len(line) + 1
  BY PacketOfLine
<1>2. /\ SubSeq(line, 1, n) \in Text
      /\ Len(SubSeq(line, 1, n)) = n - 1 + 1
      /\ \A i \in 1..(n - 1 + 1) : SubSeq(line, 1, n)[i] = line[1 + i - 1]
  BY <1>1, PartOfText
<1>3. Piece(line, 0, n) \in Text /\ Len(Piece(line, 0, n)) = n - 0
      /\ \A i \in 1..(n - 0) : Piece(line, 0, n)[i] = Packet(line)[0 + i]
  BY <1>1, PieceOfLine
<1>4. ASSUME NEW i \in 1..Len(SubSeq(line, 1, n))
      PROVE  SubSeq(line, 1, n)[i] = Piece(line, 0, n)[i]
  <2>1. i \in 1..(n - 1 + 1) /\ i \in 1..(n - 0) /\ 1 + i - 1 = i /\ 0 + i = i /\ i \in 1..Len(line)
    BY <1>1, <1>2
  <2> QED BY <2>1, <1>2, <1>3, PacketOfLine
<1>5. Len(SubSeq(line, 1, n)) = Len(Piece(line, 0, n))
  BY <1>1, <1>2, <1>3
<1> QED BY <1>2, <1>3, <1>4, <1>5, SeqEqual DEF Text

LEMMA WholePiece ==
  ASSUME NEW line \in Text
  PROVE  Piece(line, 0, Len(line) + 1) = Packet(line) /\ Piece(line, 0, Len(line)) = line
<1>1. Piece(line, 0, Len(line) + 1) = Packet(line)
  BY PacketOfLine, SubSeqFull DEF Piece, Text
<1>2. Len(line) \in 0..Len(line) /\ SubSeq(line, 1, Len(line)) = line
  BY PacketOfLine, SubSeqFull DEF Text
<1> QED BY <1>1, <1>2, StartPiece

LEMMA CutPiece ==
  ASSUME NEW line \in Text,
         NEW i \in 0..Len(line) + 1, NEW j \in i..Len(line) + 1, NEW k \in i..j
  PROVE  /\ SubSeq(Piece(line, i, j), 1, k - i) = Piece(line, i, k)
         /\ SubSeq(Piece(line, i, j), k - i + 1, Len(Piece(line, i, j))) = Piece(line, k, j)
<1> DEFINE piece == Piece(line, i, j)
<1>1. Len(line) \in Nat /\ i \in Nat /\ j \in Nat /\ k \in Nat /\ i <= k /\ k <= j
      /\ k \in i..Len(line) + 1 /\ k \in 0..Len(line) + 1 /\ j \in k..Len(line) + 1
  BY PacketOfLine
<1>2. piece \in Text /\ Len(piece) = j - i
      /\ \A n \in 1..(j - i) : piece[n] = Packet(line)[i + n]
  BY PieceOfLine
<1>3. PICK p \in Nat, q \in Nat, r \in Nat : p = k - i /\ q = k - i + 1 /\ r = j - i
  BY <1>1
<1> HIDE DEF piece
<1>4. SubSeq(piece, 1, p) = Piece(line, i, k)
  <2>1. /\ SubSeq(piece, 1, p) \in Text
        /\ Len(SubSeq(piece, 1, p)) = p - 1 + 1
        /\ \A n \in 1..(p - 1 + 1) : SubSeq(piece, 1, p)[n] = piece[1 + n - 1]
    <3>1. 1 \in Nat /\ 1 <= p + 1 /\ p <= Len(piece)
      BY <1>1, <1>2, <1>3
    <3> QED BY <1>2, <3>1, PartOfText
  <2>2. Piece(line, i, k) \in Text /\ Len(Piece(line, i, k)) = k - i
        /\ \A n \in 1..(k - i) : Piece(line, i, k)[n] = Packet(line)[i + n]
    BY <1>1, PieceOfLine
  <2>3. Len(SubSeq(piece, 1, p)) = Len(Piece(line, i, k))
    BY <1>1, <1>3, <2>1, <2>2
  <2>4. ASSUME NEW n \in 1..Len(SubSeq(piece, 1, p))
        PROVE  SubSeq(piece, 1, p)[n] = Piece(line, i, k)[n]
    <3>1. n \in 1..(p - 1 + 1) /\ n \in 1..(k - i) /\ 1 + n - 1 = n /\ n \in 1..(j - i)
      BY <1>1, <1>3, <2>1
    <3> QED BY <3>1, <1>2, <2>1, <2>2
  <2> QED BY <2>1, <2>2, <2>3, <2>4, SeqEqual DEF Text
<1>5. SubSeq(piece, q, r) = Piece(line, k, j)
  <2>1. /\ SubSeq(piece, q, r) \in Text
        /\ Len(SubSeq(piece, q, r)) = r - q + 1
        /\ \A n \in 1..(r - q + 1) : SubSeq(piece, q, r)[n] = piece[q + n - 1]
    BY <1>1, <1>2, <1>3, PartOfText
  <2>2. Piece(line, k, j) \in Text /\ Len(Piece(line, k, j)) = j - k
        /\ \A n \in 1..(j - k) : Piece(line, k, j)[n] = Packet(line)[k + n]
    BY <1>1, PieceOfLine
  <2>3. r - q + 1 = j - k
    BY <1>1, <1>3
  <2>4. ASSUME NEW n \in 1..Len(SubSeq(piece, q, r))
        PROVE  SubSeq(piece, q, r)[n] = Piece(line, k, j)[n]
    <3>1. n \in 1..(j - k)
      BY <2>1, <2>3
    <3>2. q + n - 1 \in 1..(j - i) /\ i + (q + n - 1) = k + n
      BY <1>1, <1>3, <3>1
    <3> QED BY <3>1, <3>2, <1>2, <2>1, <2>2, <2>3
  <2> QED BY <2>1, <2>2, <2>3, <2>4, SeqEqual DEF Text
<1> QED BY <1>2, <1>3, <1>4, <1>5 DEF piece

LEMMA LeastOf ==
  ASSUME NEW T \in SUBSET Nat, T # {}
  PROVE  \E i \in T : \A j \in T : i <= j
<1> DEFINE R == {ss \in Nat \X Nat : ss[1] < ss[2]}
<1>1. IsWellFoundedOn(R, Nat)
  BY NatLessThanWellFounded DEF OpToRel
<1>2. \E i \in T : \A j \in T : ~(<<j, i>> \in R)
  <2> HIDE DEF R
  <2> QED BY <1>1, WFMin
<1>3. PICK i \in T : \A j \in T : ~(<<j, i>> \in R)
  BY <1>2
<1>4. \A j \in T : ~(j < i)
  BY <1>3
<1> QED BY <1>4

LEMMA UpToFirst ==
  ASSUME NEW s \in Text, NEW e \in 1..Len(s), s[e] = Newline,
         \A i \in 1..(e - 1) : s[i] # Newline
  PROVE  SawNewline(s) /\ UpToNewline(s) = SubSeq(s, 1, e - 1)
<1>1. Len(s) \in Nat /\ DOMAIN s = 1..Len(s)
  BY LenProperties DEF Text
<1>2. e \in Newlines(s) /\ \A j \in Newlines(s) : j \in Nat /\ e <= j
  BY <1>1 DEF Newlines
<1>3. PICK first : first = CHOOSE i \in Newlines(s) : \A j \in Newlines(s) : i <= j
  OBVIOUS
<1>4. first \in Newlines(s) /\ \A j \in Newlines(s) : first <= j
  BY <1>2, <1>3
<1>5. first = e
  BY <1>2, <1>4
<1> QED BY <1>2, <1>3, <1>5 DEF SawNewline, UpToNewline

LEMMA NoneToFind ==
  ASSUME NEW s \in Text, \A i \in 1..Len(s) : s[i] # Newline
  PROVE  ~SawNewline(s) /\ UpToNewline(s) = s
<1>1. DOMAIN s = 1..Len(s)
  BY LenProperties DEF Text
<1> QED BY <1>1 DEF SawNewline, Newlines, UpToNewline

\* What is sent for a text has a line break where its first line ends, and none before.
LEMMA FirstLine ==
  ASSUME NEW line \in Text
  PROVE  /\ EndOf(line) \in 0..Len(line)
         /\ Packet(line)[EndOf(line) + 1] = Newline
         /\ \A i \in 1..EndOf(line) : Packet(line)[i] # Newline
         /\ UpToNewline(line) = Piece(line, 0, EndOf(line))
         /\ UpToNewline(line) \in Text
<1>1. Len(line) \in Nat /\ DOMAIN line = 1..Len(line)
  BY LenProperties DEF Text
<1>2. CASE Newlines(line) # {}
  <2>1. Newlines(line) \in SUBSET Nat
    BY <1>1 DEF Newlines
  <2>2. PICK e \in Newlines(line) : \A j \in Newlines(line) : e <= j
    BY <1>2, <2>1, LeastOf
  <2>3. e \in 1..Len(line) /\ line[e] = Newline /\ \A i \in 1..(e - 1) : line[i] # Newline
    <3>1. e \in 1..Len(line) /\ line[e] = Newline
      BY <1>1 DEF Newlines
    <3>2. ASSUME NEW i \in 1..(e - 1), line[i] = Newline
          PROVE  FALSE
      <4>1. i \in Newlines(line) /\ ~(e <= i)
        BY <1>1, <3>1, <3>2 DEF Newlines
      <4> QED BY <2>2, <4>1
    <3> QED BY <3>1, <3>2
  <2>4. UpToNewline(line) = SubSeq(line, 1, e - 1)
    BY <2>3, UpToFirst
  <2>5. e - 1 \in 0..Len(line) /\ e - 1 \in Nat /\ (e - 1) + 1 = e /\ e \in Nat
    BY <1>1, <2>3
  <2>6. SubSeq(line, 1, e - 1) \in Text /\ Len(SubSeq(line, 1, e - 1)) = e - 1
    <3>1. PICK n \in Nat : n = e - 1 /\ 1 <= n + 1 /\ n <= Len(line) /\ n - 1 + 1 = n
      BY <1>1, <2>5
    <3>2. SubSeq(line, 1, n) \in Text /\ Len(SubSeq(line, 1, n)) = n - 1 + 1
      BY <3>1, PartOfText
    <3> QED BY <3>1, <3>2
  <2>7. EndOf(line) = e - 1
    BY <2>4, <2>6 DEF EndOf
  <2>8. Packet(line)[e] = Newline /\ \A i \in 1..(e - 1) : Packet(line)[i] # Newline
    BY <1>1, <2>3, <2>5, PacketOfLine
  <2> QED BY <2>4, <2>5, <2>6, <2>7, <2>8, StartPiece
<1>3. CASE Newlines(line) = {}
  <2>1. \A i \in 1..Len(line) : line[i] # Newline
    BY <1>1, <1>3 DEF Newlines
  <2>2. UpToNewline(line) = line /\ EndOf(line) = Len(line)
    BY <2>1, NoneToFind DEF EndOf
  <2> QED BY <1>1, <2>1, <2>2, PacketOfLine, WholePiece
<1> QED BY <1>2, <1>3

LEMMA ChunkOfPiece ==
  ASSUME NEW line \in Text,
         NEW k \in 0..Len(line), NEW m \in k..Len(line) + 1, Piece(line, k, m) # << >>
  PROVE  \E n \in (k + 1)..m : /\ Chunk(Piece(line, k, m)) = Piece(line, k, n)
                               /\ Unread(Piece(line, k, m)) = Piece(line, n, m)
<1> DEFINE piece == Piece(line, k, m)
<1>1. Len(line) \in Nat /\ k \in Nat /\ m \in Nat /\ k <= m /\ m <= Len(line) + 1
      /\ k \in 0..Len(line) + 1 /\ ChunkSize \in Nat /\ ChunkSize >= 1
  BY PacketOfLine, SizeAssumption
<1>2. Len(piece) = m - k
  BY <1>1, PieceOfLine
<1>3. k < m
  BY <1>1, EmptyPiece
<1>4. PICK n \in (k + 1)..m : n = IF m - k < ChunkSize THEN m ELSE k + ChunkSize
  BY <1>1, <1>3
<1>5. n \in k..m /\ n \in k..Len(line) + 1
  BY <1>1, <1>4
<1>6. /\ SubSeq(piece, 1, n - k) = Piece(line, k, n)
      /\ SubSeq(piece, n - k + 1, Len(piece)) = Piece(line, n, m)
  BY <1>1, <1>5, CutPiece
<1>7. Chunk(piece) = Piece(line, k, n)
  <2>1. CASE m - k < ChunkSize
    BY <2>1, <1>2, <1>4 DEF Chunk
  <2>2. CASE ~(m - k < ChunkSize)
    <3>1. n - k = ChunkSize
      BY <2>2, <1>1, <1>4
    <3> QED BY <2>2, <3>1, <1>2, <1>6 DEF Chunk
  <2> QED BY <2>1, <2>2
<1>8. Len(Chunk(piece)) = n - k
  BY <1>1, <1>5, <1>7, PieceOfLine
<1> QED BY <1>6, <1>7, <1>8 DEF Unread

\* A read takes the next piece of a text, and sees a line break exactly when it takes
\* the end of the first line.
LEMMA ReadPiece ==
  ASSUME NEW line \in Text,
         NEW k \in 0..EndOf(line), NEW m \in k..Len(line) + 1, Piece(line, k, m) # << >>
  PROVE  \E n \in (k + 1)..m :
           LET chunk == Chunk(Piece(line, k, m))
               received == Piece(line, 0, k) \o UpToNewline(chunk)
           IN /\ Unread(Piece(line, k, m)) = Piece(line, n, m)
              /\ SawNewline(chunk) <=> n > EndOf(line)
              /\ received = IF SawNewline(chunk) THEN UpToNewline(line) ELSE Piece(line, 0, n)
<1> DEFINE f == EndOf(line)
<1>1. Len(line) \in Nat /\ f \in 0..Len(line) /\ k \in 0..Len(line)
  BY PacketOfLine, FirstLine
<1>2. PICK n \in (k + 1)..m : /\ Chunk(Piece(line, k, m)) = Piece(line, k, n)
                              /\ Unread(Piece(line, k, m)) = Piece(line, n, m)
  BY <1>1, ChunkOfPiece
<1>3. k \in Nat /\ m \in Nat /\ n \in Nat /\ f \in Nat /\ k + 1 <= n /\ n <= m /\ k <= f
      /\ m <= Len(line) + 1 /\ k \in 0..Len(line) + 1
      /\ n \in k..Len(line) + 1 /\ 0 \in 0..Len(line) + 1
  BY <1>1
<1> DEFINE piece == Piece(line, k, n)
<1>4. piece \in Text /\ Len(piece) = n - k
      /\ \A i \in 1..(n - k) : piece[i] = Packet(line)[k + i]
  BY <1>3, PieceOfLine
<1>5. /\ Packet(line)[f + 1] = Newline
      /\ \A i \in 1..f : Packet(line)[i] # Newline
      /\ UpToNewline(line) = Piece(line, 0, f)
  BY FirstLine
<1> HIDE DEF f, piece
<1>6. CASE n > f
  <2>1. PICK e \in 1..Len(piece) : e = f + 1 - k
    BY <1>3, <1>4, <1>6
  <2>2. piece[e] = Newline
    <3>1. k + e = f + 1 /\ e \in 1..(n - k)
      BY <1>3, <1>4, <2>1
    <3> QED BY <3>1, <1>4, <1>5
  <2>3. ASSUME NEW i \in 1..(e - 1)
        PROVE  piece[i] # Newline
    <3>1. k + i \in 1..f /\ i \in 1..(n - k)
      BY <1>3, <1>6, <2>1
    <3> QED BY <3>1, <1>4, <1>5
  <2>4. SawNewline(piece) /\ UpToNewline(piece) = SubSeq(piece, 1, e - 1)
    BY <1>4, <2>2, <2>3, UpToFirst
  <2>5. e - 1 = f - k /\ f \in k..n /\ f \in k..Len(line) + 1
    BY <1>1, <1>3, <1>6, <2>1
  <2>6. SubSeq(piece, 1, f - k) = Piece(line, k, f)
    BY <1>3, <2>5, CutPiece DEF piece
  <2>7. Piece(line, 0, k) \o Piece(line, k, f) = Piece(line, 0, f)
    BY <1>3, <2>5, PiecesJoin
  <2> QED BY <1>2, <1>5, <1>6, <2>4, <2>5, <2>6, <2>7 DEF f, piece
<1>7. CASE ~(n > f)
  <2>1. ASSUME NEW i \in 1..Len(piece)
        PROVE  piece[i] # Newline
    <3>1. i \in 1..(n - k)
      BY <1>4
    <3>2. k + i \in 1..f
      BY <3>1, <1>3, <1>7
    <3> QED BY <3>1, <3>2, <1>4, <1>5
  <2>2. ~SawNewline(piece) /\ UpToNewline(piece) = piece
    BY <1>4, <2>1, NoneToFind
  <2>3. Piece(line, 0, k) \o Piece(line, k, n) = Piece(line, 0, n)
    BY <1>3, PiecesJoin
  <2> QED BY <1>2, <1>7, <2>2, <2>3 DEF f, piece
<1> QED BY <1>6, <1>7

\* A write moves the next piece of a line into the socket.
LEMMA WritePiece ==
  ASSUME NEW line \in Text,
         NEW k \in 0..Len(line) + 1, NEW m \in k..Len(line) + 1,
         NEW n \in 1..Len(Piece(line, m, Len(line) + 1))
  PROVE  LET left == Piece(line, m, Len(line) + 1)
         IN /\ m + n \in m..Len(line) + 1 /\ m < Len(line) + 1
            /\ Piece(line, k, m) \o SubSeq(left, 1, n) = Piece(line, k, m + n)
            /\ SubSeq(left, n + 1, Len(left)) = Piece(line, m + n, Len(line) + 1)
            /\ n = Len(left) <=> m + n = Len(line) + 1
<1> DEFINE left == Piece(line, m, Len(line) + 1)
<1>1. Len(line) \in Nat /\ k \in Nat /\ m \in Nat /\ k <= m /\ m <= Len(line) + 1
      /\ m \in 0..Len(line) + 1 /\ Len(line) + 1 \in m..Len(line) + 1
  BY PacketOfLine
<1>2. Len(left) = Len(line) + 1 - m
  <2>1. \A j \in m..Len(line) + 1 : Len(Piece(line, m, j)) = j - m
    BY <1>1, PieceOfLine
  <2> QED BY <1>1, <2>1
<1>3. PICK p \in m..Len(line) + 1 : p = m + n /\ p - m = n /\ m < Len(line) + 1
  BY <1>1, <1>2
<1>4. /\ SubSeq(left, 1, p - m) = Piece(line, m, p)
      /\ SubSeq(left, p - m + 1, Len(left)) = Piece(line, p, Len(line) + 1)
  BY <1>1, <1>3, CutPiece
<1>5. Piece(line, k, m) \o Piece(line, m, p) = Piece(line, k, p)
  BY <1>1, <1>3, PiecesJoin
<1>6. n = Len(left) <=> p = Len(line) + 1
  BY <1>1, <1>2, <1>3
<1> QED BY <1>3, <1>4, <1>5, <1>6

-----------------------------------------------------------------------------
(* Every step keeps the invariant.                                         *)

Serving == {"receive", "handle", "send"}

LEMMA Names ==
  /\ None \notin Client /\ None \notin Daemon
  /\ \A c \in Client, d \in Daemon : c # d
  BY NoneAssumption

LEMMA TextOf ==
  ASSUME IInv, NEW c \in Client
  PROVE  request[c] \in Text /\ Reply(c) \in Text
  BY TextAssumption DEF IInv, Kept, Reply, Command

LEMMA Served ==
  ASSUME IInv, NEW d \in Daemon, at[d] \in Serving
  PROVE  /\ conn[d] \in Client /\ link[conn[d]] = d
         /\ phase[conn[d]] \notin {"idle", "failed"}
         /\ \A e \in Daemon : conn[e] = conn[d] => e = d
         /\ conn[d] \notin Waiting(d)
         /\ request[conn[d]] \in Text /\ Reply(conn[d]) \in Text
<1>1. conn[d] \in Client /\ link[conn[d]] = d /\ conn[d] \notin Waiting(d)
  BY DEF IInv, Kept, Linked, Serving
<1>2. \A e \in Daemon : conn[e] = conn[d] => e = d
  BY <1>1 DEF IInv, Linked
<1>3. phase[conn[d]] \notin {"idle", "failed"}
  BY <1>1, Names DEF IInv, Connected
<1>4. request[conn[d]] \in Text /\ Reply(conn[d]) \in Text
  BY <1>1, TextOf
<1> QED BY <1>1, <1>2, <1>3, <1>4

LEMMA StartKeeps ==
  ASSUME IInv, NEW d \in Daemon, Launch(d) \/ Start(d)
  PROVE  IInv'
<1>1. /\ at[d] \notin Serving
      /\ \E a \in ({"down"} \union Launching \union Looping) \ Serving :
           at' = [at EXCEPT ![d] = a]
      /\ path' \in Daemon \union {None}
      /\ UNCHANGED <<request, queue, conn, phase, link, up, down, text, handled>>
  BY DEF IInv, Kept, Launch, Start, Unlink, Bind, BindFails, Listen, Serving, Launching, Looping
<1>2. Kept'
  BY <1>1 DEF IInv, Kept
<1>3. at'[d] \notin Serving /\ \A e \in Daemon \ {d} : at'[e] = at[e]
  BY <1>1 DEF IInv, Kept
<1>4. Linked'
  BY <1>1, <1>3 DEF IInv, Linked, Waiting, Serving
<1>5. conn[d] = None
  BY <1>1 DEF IInv, Linked, Serving
<1>6. \A c \in Client : link[c] \in Daemon \union {None}
  BY DEF IInv, Kept
<1>7. \A c \in Client : /\ Asking(c)' = Asking(c) /\ Answering(c)' = Answering(c)
                        /\ Received(c)' = Received(c)
  BY <1>1, <1>3, <1>5, <1>6, Names DEF Asking, Answering, Received, Serving
<1>8. CommandInPieces' /\ Unanswered'
  BY <1>1, <1>7 DEF IInv, CommandInPieces, CommandOf, Unanswered
<1>9. AnswerInPieces'
  BY <1>1, <1>7 DEF IInv, AnswerInPieces, AnswerOf, Taken, Reply, Command, Open
<1>10. CommandReceived'
  BY <1>1, <1>3 DEF IInv, CommandReceived, Serving, Command
<1> QED BY <1>1, <1>2, <1>4, <1>8, <1>9, <1>10
           DEF IInv, Connected, Unused, WholeCommands, OwnAnswer, Command, Reply

LEMMA KillKeeps ==
  ASSUME IInv, NEW d \in Daemon, Kill(d)
  PROVE  IInv'
<1>1. Kept'
  <2>1. << >> \in Seq(Client) /\ << >> \in Text
    BY DEF Text
  <2>2. link' \in [Client -> Daemon \union {None}] /\ queue' \in [Daemon -> Seq(Client)]
    BY <2>1 DEF IInv, Kept, Kill
  <2>3. text' \in [Client \union Daemon -> Text]
    BY <2>1 DEF IInv, Kept, Kill
  <2> QED BY <2>2, <2>3 DEF IInv, Kept, Kill
<1>2. /\ at'[d] = "down" /\ conn'[d] = None /\ queue'[d] = << >> /\ text'[d] = << >>
      /\ \A e \in Daemon \ {d} : /\ at'[e] = at[e] /\ conn'[e] = conn[e]
                                 /\ queue'[e] = queue[e] /\ text'[e] = text[e]
      /\ \A c \in Client : /\ text'[c] = text[c]
                           /\ link'[c] = IF link[c] = d THEN None ELSE link[c]
      /\ UNCHANGED <<request, path, phase, up, down, handled>>
  BY Names DEF IInv, Kept, Kill
<1>3. Linked'
  <2>1. Waiting(d)' = {} /\ Len(<< >>) = 0 /\ Backlog \in Nat
    BY <1>2, SizeAssumption DEF Waiting
  <2>2. ASSUME NEW e \in Daemon \ {d}
        PROVE  Waiting(e)' = Waiting(e)
    BY <1>2 DEF Waiting
  <2> QED BY <1>2, <2>1, <2>2, Names DEF IInv, Linked
<1>4. Connected' /\ Unused'
  BY <1>2, Names DEF IInv, Connected, Unused
<1>5. \A c \in Client : link[c] \in Daemon \union {None}
  BY DEF IInv, Kept
<1>6. ASSUME NEW c \in Client, link[c] # d
      PROVE  /\ link'[c] = link[c] /\ text'[c] = text[c]
             /\ Asking(c)' = Asking(c) /\ Answering(c)' = Answering(c)
             /\ link[c] # None => Received(c)' = Received(c) /\ text'[link[c]] = text[link[c]]
  BY <1>2, <1>5, <1>6 DEF Asking, Answering, Received
<1>7. ASSUME NEW c \in Client, link[c] = d
      PROVE  link'[c] = None /\ ~Asking(c)' /\ ~Answering(c)' /\ text'[c] = text[c]
  BY <1>2, <1>7 DEF Asking, Answering
<1>8. CommandInPieces' /\ Unanswered'
  <2> SUFFICES ASSUME NEW c \in Client, Asking(c)'
               PROVE  CommandOf(c)' /\ down'[c] = << >> /\ phase'[c] # "answered"
    BY DEF CommandInPieces, Unanswered
  <2>1. link[c] # d /\ Asking(c) /\ link[c] # None
    BY <1>6, <1>7 DEF Asking
  <2>2. CommandOf(c) /\ down[c] = << >> /\ phase[c] # "answered"
    BY <2>1 DEF IInv, CommandInPieces, Unanswered
  <2> QED BY <1>2, <1>6, <2>1, <2>2 DEF CommandOf
<1>9. AnswerInPieces'
  <2> SUFFICES ASSUME NEW c \in Client, Open(c)'
               PROVE  AnswerOf(c)'
    BY DEF AnswerInPieces, Open
  <2>1. AnswerOf(c)
    BY <1>2 DEF IInv, AnswerInPieces, Open
  <2>2. CASE link[c] # d
    BY <1>2, <1>6, <2>1, <2>2 DEF AnswerOf, Answering, Taken, Reply, Command
  <2>3. CASE link[c] = d
    BY <1>2, <1>7, <2>1, <2>3 DEF AnswerOf, Taken, Reply, Command
  <2> QED BY <2>2, <2>3
<1>10. CommandReceived'
  BY <1>2 DEF IInv, CommandReceived, Command
<1>11. WholeCommands' /\ OwnAnswer'
  BY <1>2 DEF IInv, WholeCommands, OwnAnswer, Command, Reply
<1> QED BY <1>1, <1>3, <1>4, <1>8, <1>9, <1>10, <1>11 DEF IInv

LEMMA HeadOfQueue ==
  ASSUME IInv, NEW d \in Daemon, queue[d] # << >>
  PROVE  /\ Head(queue[d]) \in Waiting(d)
         /\ Tail(queue[d]) \in Seq(Client)
         /\ Len(Tail(queue[d])) <= Backlog
         /\ {Tail(queue[d])[i] : i \in DOMAIN Tail(queue[d])} = Waiting(d) \ {Head(queue[d])}
         /\ \A i, j \in DOMAIN Tail(queue[d]) : Tail(queue[d])[i] = Tail(queue[d])[j] => i = j
<1> DEFINE q == queue[d]
           t == Tail(queue[d])
<1>1. q \in Seq(Client) /\ Len(q) <= Backlog /\ Backlog \in Nat
      /\ \A i, j \in DOMAIN q : q[i] = q[j] => i = j
  BY SizeAssumption DEF IInv, Kept, Linked
<1>2. Len(q) \in Nat \ {0} /\ DOMAIN q = 1..Len(q) /\ Head(q) = q[1]
  BY <1>1, EmptySeq, LenProperties
<1>3. t \in Seq(Client) /\ Len(t) = Len(q) - 1 /\ \A i \in 1..Len(t) : t[i] = q[i + 1]
  BY <1>1, HeadTailProperties
<1>4. DOMAIN t = 1..Len(t)
  BY <1>3, LenProperties
<1>5. Waiting(d) = {q[i] : i \in 1..Len(q)}
  BY <1>2 DEF Waiting
<1> HIDE DEF q, t
<1>6. Head(q) \in {q[i] : i \in 1..Len(q)}
  BY <1>2
<1>7. {t[i] : i \in DOMAIN t} = {q[i] : i \in 1..Len(q)} \ {Head(q)}
  <2>1. ASSUME NEW i \in DOMAIN t
        PROVE  t[i] \in {q[j] : j \in 1..Len(q)} /\ t[i] # Head(q)
    <3>1. i + 1 \in DOMAIN q /\ 1 \in DOMAIN q /\ i + 1 # 1 /\ t[i] = q[i + 1]
      BY <1>2, <1>3, <1>4
    <3> QED BY <3>1, <1>1, <1>2
  <2>2. ASSUME NEW j \in 1..Len(q), q[j] # Head(q)
        PROVE  \E i \in DOMAIN t : q[j] = t[i]
    <3>1. j # 1 /\ j - 1 \in DOMAIN t /\ (j - 1) + 1 = j
      BY <2>2, <1>2, <1>3, <1>4
    <3>2. t[j - 1] = q[j]
      BY <3>1, <1>3, <1>4
    <3> QED BY <3>1, <3>2
  <2> QED BY <2>1, <2>2
<1>8. \A i, j \in DOMAIN t : t[i] = t[j] => i = j
  <2> SUFFICES ASSUME NEW i \in DOMAIN t, NEW j \in DOMAIN t, t[i] = t[j]
               PROVE  i = j
    OBVIOUS
  <2>1. i + 1 \in DOMAIN q /\ j + 1 \in DOMAIN q /\ q[i + 1] = q[j + 1] /\ i \in Nat /\ j \in Nat
    BY <1>2, <1>3, <1>4
  <2>2. i + 1 = j + 1
    BY <2>1, <1>1
  <2> QED BY <2>1, <2>2
<1>9. Len(t) <= Backlog
  BY <1>1, <1>2, <1>3
<1> QED BY <1>3, <1>5, <1>6, <1>7, <1>8, <1>9 DEF q, t

LEMMA AcceptKeeps ==
  ASSUME IInv, NEW d \in Daemon, Accept(d)
  PROVE  IInv'
<1>c. PICK c : c = Head(queue[d])
  OBVIOUS
<1>1. /\ c \in Waiting(d) /\ Tail(queue[d]) \in Seq(Client)
      /\ Len(Tail(queue[d])) <= Backlog
      /\ {Tail(queue[d])[i] : i \in DOMAIN Tail(queue[d])} = Waiting(d) \ {c}
      /\ \A i, j \in DOMAIN Tail(queue[d]) : Tail(queue[d])[i] = Tail(queue[d])[j] => i = j
  BY <1>c, HeadOfQueue DEF Accept
<1>2. c \in Client /\ link[c] = d
  <2>1. Waiting(d) \subseteq Client
    BY LenProperties DEF IInv, Kept, Waiting
  <2> QED BY <2>1, <1>1 DEF IInv, Linked
<1>3. conn[d] = None /\ text[d] = << >>
  BY DEF IInv, Linked, Unused, Accept
<1>4. /\ at'[d] = "receive" /\ conn'[d] = c /\ queue'[d] = Tail(queue[d])
      /\ \A e \in Daemon \ {d} : at'[e] = at[e] /\ conn'[e] = conn[e] /\ queue'[e] = queue[e]
      /\ UNCHANGED <<request, path, phase, link, up, down, text, handled>>
  BY <1>c DEF IInv, Kept, Accept
<1>5. Kept'
  BY <1>c, <1>1, <1>2, <1>4 DEF IInv, Kept, Accept, Looping
<1>6. Linked'
  <2>1. Waiting(d)' = Waiting(d) \ {c}
    <3>1. Waiting(d)' = {queue'[d][i] : i \in DOMAIN queue'[d]}
      BY DEF Waiting
    <3>2. queue'[d] = Tail(queue[d])
      BY <1>4
    <3>3. Waiting(d)' = {Tail(queue[d])[i] : i \in DOMAIN Tail(queue[d])}
      BY <3>1, <3>2
    <3> QED BY <3>3, <1>1
  <2>2. \A e \in Daemon \ {d} : Waiting(e)' = Waiting(e)
    BY <1>4 DEF Waiting
  <2>3. ASSUME NEW e \in Daemon
        PROVE  Linked!(e)'
    <3>1. CASE e = d
      <4>1. \A b \in Client : link[b] = d <=> b \in Waiting(d)
        BY <1>2, <1>3, Names DEF IInv, Linked
      <4>2. \A b \in Client : link'[b] = d <=> b \in Waiting(d)' \/ b = c
        BY <1>1, <1>2, <1>4, <2>1, <4>1
      <4>3. c # None /\ c \notin Waiting(d)'
        BY <1>2, <2>1, Names
      <4>4. /\ Len(queue'[d]) <= Backlog
            /\ \A i, j \in DOMAIN queue'[d] : queue'[d][i] = queue'[d][j] => i = j
        <5>1. queue'[d] = Tail(queue[d])
          BY <1>4
        <5> QED BY <1>1, <5>1
      <4>5. at'[d] = "receive" /\ conn'[d] = c /\ link' = link
        BY <1>4
      <4>6. \A b \in Client : link'[b] = d <=> b \in Waiting(d)' \/ b = conn'[d]
        BY <4>2, <4>5
      <4> QED BY <3>1, <4>3, <4>4, <4>5, <4>6
    <3>2. CASE e # d
      <4>1. Linked!(e)
        BY DEF IInv, Linked
      <4> QED BY <1>4, <2>2, <3>2, <4>1
    <3> QED BY <3>1, <3>2
  <2> QED BY <2>3 DEF Linked
<1>7. \A b \in Client : link[b] \in Daemon \union {None}
  BY DEF IInv, Kept
<1>8. \A e \in Daemon : conn[e] # c
  BY <1>1, <1>2, <1>3, Names DEF IInv, Linked
<1>9. Asking(c) /\ Asking(c)' /\ Received(c)' = Received(c) /\ ~Answering(c) /\ ~Answering(c)'
  BY <1>2, <1>3, <1>4, <1>8, Names DEF Asking, Received, Answering
<1>10. ASSUME NEW b \in Client, b # c
       PROVE  /\ Asking(b)' = Asking(b) /\ Answering(b)' = Answering(b)
              /\ link[b] # None => Received(b)' = Received(b)
  <2>1. link'[b] = link[b] /\ (link[b] = d => conn[d] # b /\ conn'[d] # b)
    BY <1>3, <1>4, <1>10, Names
  <2>2. CASE link[b] = d
    BY <1>4, <2>1, <2>2 DEF Asking, Received, Answering
  <2>3. CASE link[b] # d
    BY <1>4, <1>7, <2>1, <2>3 DEF Asking, Received, Answering
  <2> QED BY <2>2, <2>3
<1>11. CommandInPieces' /\ Unanswered'
  BY <1>4, <1>9, <1>10 DEF IInv, CommandInPieces, CommandOf, Unanswered, Asking
<1>12. AnswerInPieces'
  BY <1>4, <1>9, <1>10 DEF IInv, AnswerInPieces, AnswerOf, Taken, Reply, Command, Open
<1>13. Connected' /\ Unused'
  BY <1>2, <1>4, Names DEF IInv, Connected, Unused
<1>14. CommandReceived' /\ WholeCommands' /\ OwnAnswer'
  BY <1>4 DEF IInv, CommandReceived, WholeCommands, OwnAnswer, Command, Reply
<1> QED BY <1>5, <1>6, <1>11, <1>12, <1>13, <1>14 DEF IInv

LEMMA CloseKeeps ==
  ASSUME IInv, NEW d \in Daemon, EndOfFile(d) \/ NoCommand(d) \/ Sent(d)
  PROVE  IInv'
<1>1. at[d] \in Serving
  BY DEF EndOfFile, NoCommand, Sent, Serving
<1>c. PICK c : c = conn[d]
  OBVIOUS
<1>2. /\ c \in Client /\ link[c] = d /\ c \notin Waiting(d)
      /\ \A e \in Daemon : conn[e] = c => e = d
  BY <1>c, <1>1, Served
<1>3. /\ at'[d] = "accept" /\ conn'[d] = None /\ text'[d] = << >> /\ link'[c] = None
      /\ \A e \in Daemon \ {d} : at'[e] = at[e] /\ conn'[e] = conn[e] /\ text'[e] = text[e]
      /\ \A b \in Client : text'[b] = text[b]
      /\ \A b \in Client \ {c} : link'[b] = link[b]
      /\ UNCHANGED <<request, path, queue, phase, up, down, handled>>
  BY <1>c, <1>2, Names DEF IInv, Kept, EndOfFile, NoCommand, Sent, CloseConnection
<1>4. Kept'
  <2>1. << >> \in Text
    BY DEF Text
  <2>2. text' \in [Client \union Daemon -> Text]
    <3>1. text' = [text EXCEPT ![d] = << >>]
      BY DEF EndOfFile, NoCommand, Sent, CloseConnection
    <3> QED BY <2>1, <3>1 DEF IInv, Kept
  <2>4. link' \in [Client -> Daemon \union {None}]
    <3>1. link' = [link EXCEPT ![c] = None]
      BY <1>c DEF EndOfFile, NoCommand, Sent, CloseConnection
    <3> QED BY <3>1 DEF IInv, Kept
  <2>3. at' \in [Daemon -> {"down"} \union Launching \union Looping]
        /\ conn' \in [Daemon -> Client \union {None}]
    BY DEF IInv, Kept, EndOfFile, NoCommand, Sent, CloseConnection, Looping
  <2> QED BY <1>3, <2>2, <2>3, <2>4 DEF IInv, Kept
<1>5. Linked'
  <2>1. \A e \in Daemon : Waiting(e)' = Waiting(e)
    BY <1>3 DEF Waiting
  <2>2. \A e \in Daemon : c \notin Waiting(e)
    BY <1>2 DEF IInv, Linked
  <2>3. ASSUME NEW e \in Daemon
        PROVE  Linked!(e)'
    <3>1. Linked!(e)
      BY DEF IInv, Linked
    <3>2. CASE e = d
      <4>1. \A b \in Client : link'[b] = d <=> b \in Waiting(d)
        BY <1>c, <1>2, <1>3, <2>2, <3>1, <3>2, Names
      <4>2. None \notin Waiting(d)
        BY LenProperties, Names DEF IInv, Kept, Waiting
      <4> QED BY <1>3, <2>1, <3>1, <3>2, <4>1, <4>2, Names
    <3>3. CASE e # d
      <4>1. \A b \in Client : link'[b] = e <=> link[b] = e
        BY <1>2, <1>3, <3>3, Names
      <4> QED BY <1>3, <2>1, <3>1, <3>3, <4>1
    <3> QED BY <3>2, <3>3
  <2> QED BY <2>3 DEF Linked
<1>6. Connected' /\ Unused'
  BY <1>2, <1>3, Names DEF IInv, Connected, Unused
<1>7. \A b \in Client : link[b] \in Daemon \union {None}
  BY DEF IInv, Kept
<1>8. ASSUME NEW b \in Client, b # c
      PROVE  /\ link'[b] = link[b]
             /\ Asking(b)' = Asking(b) /\ Answering(b)' = Answering(b)
             /\ Asking(b) => Received(b)' = Received(b)
             /\ Answering(b) => text'[link[b]] = text[link[b]]
  BY <1>c, <1>2, <1>3, <1>7, <1>8, Names DEF Asking, Answering, Received
<1>9. ~Asking(c)' /\ ~Answering(c)' /\ link'[c] = None
  BY <1>3 DEF Asking, Answering
<1>10. CommandInPieces' /\ Unanswered'
  <2> SUFFICES ASSUME NEW b \in Client, Asking(b)'
               PROVE  CommandOf(b)' /\ down'[b] = << >> /\ phase'[b] # "answered"
    BY DEF CommandInPieces, Unanswered
  <2>1. b # c /\ Asking(b)
    BY <1>8, <1>9
  <2>2. CommandOf(b) /\ down[b] = << >> /\ phase[b] # "answered"
    BY <2>1 DEF IInv, CommandInPieces, Unanswered
  <2> QED BY <1>3, <1>8, <2>1, <2>2 DEF CommandOf
<1>11. AnswerInPieces'
  <2> SUFFICES ASSUME NEW b \in Client, Open(b)'
               PROVE  AnswerOf(b)'
    BY DEF AnswerInPieces, Open
  <2>1. AnswerOf(b)
    BY <1>3 DEF IInv, AnswerInPieces, Open
  <2>2. CASE b # c
    BY <1>3, <1>8, <2>1, <2>2 DEF AnswerOf, Taken, Reply, Command
  <2>3. CASE b = c
    BY <1>3, <1>9, <2>1, <2>3 DEF AnswerOf, Taken, Reply, Command
  <2> QED BY <2>2, <2>3
<1>12. CommandReceived'
  BY <1>3 DEF IInv, CommandReceived, Command
<1>13. WholeCommands' /\ OwnAnswer'
  BY <1>3 DEF IInv, WholeCommands, OwnAnswer, Command, Reply
<1> QED BY <1>4, <1>5, <1>6, <1>10, <1>11, <1>12, <1>13 DEF IInv

LEMMA ReceiveKeeps ==
  ASSUME IInv, NEW d \in Daemon, Receive(d)
  PROVE  IInv'
<1>c. PICK c : c = conn[d]
  OBVIOUS
<1>1. /\ c \in Client /\ link[c] = d /\ request[c] \in Text
      /\ \A e \in Daemon : conn[e] = c => e = d
  BY <1>c, Served DEF Receive, Serving
<1>2. Asking(c) /\ Received(c) = text[d] /\ ~Answering(c)
  BY <1>c, <1>1, Names DEF Receive, Asking, Received, Answering
<1>3. down[c] = << >> /\ phase[c] # "answered"
  BY <1>1, <1>2 DEF IInv, Unanswered
<1>4. /\ Len(request[c]) \in Nat /\ EndOf(request[c]) \in 0..Len(request[c])
      /\ Command(c) \in Text /\ Command(c) = UpToNewline(request[c])
  BY <1>1, LenProperties, FirstLine DEF Command, Text
<1>5. PICK k \in 0..EndOf(request[c]), m \in 0..Len(request[c]) + 1 :
        /\ m \in k..Len(request[c]) + 1
        /\ text[d] = Piece(request[c], 0, k)
        /\ up[c] = Piece(request[c], k, m)
        /\ phase[c] = "sending" =>
             /\ m <= Len(request[c])
             /\ text[c] = Piece(request[c], m, Len(request[c]) + 1)
  <2>1. CommandOf(c)
    BY <1>1, <1>2 DEF IInv, CommandInPieces
  <2>2. \A i \in 0..EndOf(request[c]) : \A l \in i..Len(request[c]) + 1 :
          l \in 0..Len(request[c]) + 1
    BY <1>4
  <2> QED BY <1>2, <2>1, <2>2 DEF CommandOf
<1>6. PICK n \in (k + 1)..m :
        LET chunk == Chunk(up[c])
            received == text[d] \o UpToNewline(chunk)
        IN /\ Unread(up[c]) = Piece(request[c], n, m)
           /\ SawNewline(chunk) <=> n > EndOf(request[c])
           /\ received = IF SawNewline(chunk) THEN UpToNewline(request[c]) ELSE Piece(request[c], 0, n)
  <2>1. Piece(request[c], k, m) # << >>
    BY <1>c, <1>5 DEF Receive
  <2>2. \E n \in (k + 1)..m :
          LET chunk == Chunk(Piece(request[c], k, m))
              received == Piece(request[c], 0, k) \o UpToNewline(chunk)
          IN /\ Unread(Piece(request[c], k, m)) = Piece(request[c], n, m)
             /\ SawNewline(chunk) <=> n > EndOf(request[c])
             /\ received = IF SawNewline(chunk) THEN UpToNewline(request[c]) ELSE Piece(request[c], 0, n)
    BY <1>1, <1>5, <2>1, ReadPiece
  <2> QED BY <1>5, <2>2, Zenon
<1>7. /\ up' = [up EXCEPT ![c] = Piece(request[c], n, m)]
      /\ text' = [text EXCEPT ![d] = IF n > EndOf(request[c]) THEN Command(c)
                                     ELSE Piece(request[c], 0, n)]
      /\ at' = [at EXCEPT ![d] = IF n > EndOf(request[c]) THEN "handle" ELSE "receive"]
      /\ UNCHANGED <<request, path, queue, conn, phase, link, down, handled>>
  BY <1>c, <1>4, <1>6 DEF Receive
<1>8. /\ 0 \in 0..Len(request[c]) + 1 /\ n \in 0..Len(request[c]) + 1
      /\ m \in n..Len(request[c]) + 1
  BY <1>4
<1>9. Piece(request[c], n, m) \in Text /\ Piece(request[c], 0, n) \in Text
  BY <1>1, <1>8, PieceOfLine
<1>10. Kept'
  <2>1. up' \in [Client -> Text] /\ text' \in [Client \union Daemon -> Text]
    BY <1>4, <1>7, <1>9 DEF IInv, Kept
  <2>2. at' \in [Daemon -> {"down"} \union Launching \union Looping]
    BY <1>7 DEF IInv, Kept, Looping
  <2> QED BY <1>7, <2>1, <2>2 DEF IInv, Kept
<1>11. /\ up'[c] = Piece(request[c], n, m)
       /\ text'[d] = IF n > EndOf(request[c]) THEN Command(c) ELSE Piece(request[c], 0, n)
       /\ at'[d] = IF n > EndOf(request[c]) THEN "handle" ELSE "receive"
       /\ \A b \in Client \ {c} : up'[b] = up[b]
       /\ \A b \in Client : text'[b] = text[b]
       /\ \A e \in Daemon \ {d} : text'[e] = text[e] /\ at'[e] = at[e]
  BY <1>1, <1>7, Names DEF IInv, Kept
<1>12. Linked'
  BY <1>7, <1>11 DEF IInv, Linked, Waiting, Receive
<1>13. Connected' /\ Unused'
  BY <1>c, <1>1, <1>7, <1>11, Names DEF IInv, Connected, Unused
<1>14. ASSUME NEW b \in Client, b # c
       PROVE  /\ Asking(b)' = Asking(b) /\ Answering(b)' = Answering(b)
              /\ link[b] # None => Received(b)' = Received(b)
              /\ Answering(b) => text'[link[b]] = text[link[b]]
  <2>1. link[b] \in Daemon \union {None}
    BY DEF IInv, Kept
  <2>2. link[b] = d => conn[d] # b
    BY <1>c, <1>14
  <2> QED BY <1>c, <1>7, <1>11, <2>1, <2>2 DEF Asking, Received, Answering
<1>15. CommandInPieces' /\ Unanswered'
  <2> SUFFICES ASSUME NEW b \in Client, Asking(b)'
               PROVE  CommandOf(b)' /\ down'[b] = << >> /\ phase'[b] # "answered"
    BY DEF CommandInPieces, Unanswered
  <2>1. CASE b # c
    <3>1. Asking(b) /\ link[b] # None /\ CommandOf(b) /\ down[b] = << >> /\ phase[b] # "answered"
      BY <1>14, <2>1 DEF IInv, CommandInPieces, Unanswered, Asking
    <3> QED BY <1>7, <1>11, <1>14, <2>1, <3>1 DEF CommandOf
  <2>2. CASE b = c
    <3>1. ~(n > EndOf(request[c]))
      BY <1>c, <1>1, <1>7, <1>11, <2>2, Names DEF Asking
    <3>2. n \in 0..EndOf(request[c]) /\ m \in n..Len(request[c]) + 1
      BY <1>4, <3>1
    <3>3. Received(c)' = Piece(request[c], 0, n)
      BY <1>c, <1>1, <1>7, <1>11, <3>1 DEF Received
    <3>4. /\ Received(c)' = Piece(request'[c], 0, n)
          /\ up'[c] = Piece(request'[c], n, m)
          /\ phase'[c] = "sending" =>
               /\ m <= Len(request'[c])
               /\ text'[c] = Piece(request'[c], m, Len(request'[c]) + 1)
      BY <1>1, <1>5, <1>7, <1>11, <3>3
    <3>5. n \in 0..EndOf(request'[c]) /\ m \in n..Len(request'[c]) + 1
      BY <1>7, <3>2
    <3>6. CommandOf(c)'
      BY <3>4, <3>5 DEF CommandOf
    <3> QED BY <1>3, <1>7, <2>2, <3>6
  <2> QED BY <2>1, <2>2
<1>16. AnswerInPieces'
  <2> SUFFICES ASSUME NEW b \in Client, Open(b)'
               PROVE  AnswerOf(b)'
    BY DEF AnswerInPieces, Open
  <2>1. AnswerOf(b)
    BY <1>7 DEF IInv, AnswerInPieces, Open
  <2>2. CASE b # c
    BY <1>7, <1>11, <1>14, <2>1, <2>2 DEF AnswerOf, Taken, Reply, Command
  <2>3. CASE b = c
    <3>1. ~Answering(c)'
      BY <1>1, <1>7, <1>11 DEF Answering
    <3> QED BY <1>2, <1>7, <1>11, <2>1, <2>3, <3>1 DEF AnswerOf, Taken, Reply, Command
  <2> QED BY <2>2, <2>3
<1>17. CommandReceived'
  <2>1. ASSUME NEW e \in Daemon, e # d
        PROVE  CommandReceived!(e)'
    <3>1. CommandReceived!(e)
      BY DEF IInv, CommandReceived, Command
    <3> QED BY <1>7, <1>11, <2>1, <3>1 DEF Command
  <2>2. Command(c)' = Command(c)
    BY <1>7 DEF Command
  <2>3. CommandReceived!(d)'
    BY <1>c, <1>3, <1>7, <1>11, <2>2
  <2> QED BY <2>1, <2>3 DEF CommandReceived, Command
<1>18. WholeCommands' /\ OwnAnswer'
  BY <1>7, <1>11 DEF IInv, WholeCommands, OwnAnswer, Command, Reply
<1> QED BY <1>10, <1>12, <1>13, <1>15, <1>16, <1>17, <1>18 DEF IInv

LEMMA HandleKeeps ==
  ASSUME IInv, NEW d \in Daemon, Handle(d)
  PROVE  IInv'
<1>c. PICK c : c = conn[d]
  OBVIOUS
<1>1. /\ c \in Client /\ link[c] = d
      /\ \A e \in Daemon : conn[e] = c => e = d
  BY <1>c, Served DEF Handle, Serving
<1>2. text[d] = Command(c) /\ down[c] = << >> /\ phase[c] # "answered"
  BY <1>c DEF IInv, CommandReceived, Handle, Command
<1>3. Reply(c) \in Text /\ Packet(Reply(c)) \in Text /\ Len(Reply(c)) \in Nat
  BY <1>1, TextOf, PacketOfLine
<1>4. /\ handled' = handled \union {<<c, Command(c)>>}
      /\ text' = [text EXCEPT ![d] = Packet(Reply(c))]
      /\ at' = [at EXCEPT ![d] = "send"]
      /\ UNCHANGED <<request, path, queue, conn, phase, link, up, down>>
  BY <1>c, <1>2 DEF Handle, Reply
<1>5. /\ text'[d] = Packet(Reply(c)) /\ at'[d] = "send"
      /\ \A b \in Client : text'[b] = text[b]
      /\ \A e \in Daemon \ {d} : text'[e] = text[e] /\ at'[e] = at[e]
  BY <1>4, Names DEF IInv, Kept
<1>6. Kept'
  BY <1>3, <1>4 DEF IInv, Kept, Looping
<1>7. Linked'
  BY <1>4, <1>5 DEF IInv, Linked, Waiting, Handle
<1>8. Connected' /\ Unused'
  BY <1>c, <1>1, <1>4, <1>5, Names DEF IInv, Connected, Unused
<1>9. ASSUME NEW b \in Client, b # c
      PROVE  /\ Asking(b)' = Asking(b) /\ Answering(b)' = Answering(b)
             /\ link[b] # None => Received(b)' = Received(b)
             /\ Answering(b) => text'[link[b]] = text[link[b]]
  <2>1. link[b] \in Daemon \union {None}
    BY DEF IInv, Kept
  <2>2. link[b] = d => conn[d] # b
    BY <1>c, <1>9
  <2> QED BY <1>c, <1>4, <1>5, <2>1, <2>2 DEF Asking, Received, Answering
<1>10. ~Asking(c)' /\ ~Answering(c) /\ link[c] # None
  BY <1>c, <1>1, <1>4, <1>5, Names DEF Asking, Answering, Handle
<1>11. CommandInPieces' /\ Unanswered'
  BY <1>4, <1>5, <1>9, <1>10 DEF IInv, CommandInPieces, CommandOf, Unanswered, Asking
<1>12. AnswerInPieces'
  <2> SUFFICES ASSUME NEW b \in Client, Open(b)'
               PROVE  AnswerOf(b)'
    BY DEF AnswerInPieces, Open
  <2>1. AnswerOf(b)
    BY <1>4 DEF IInv, AnswerInPieces, Open
  <2>2. CASE b # c
    BY <1>4, <1>5, <1>9, <2>1, <2>2 DEF AnswerOf, Taken, Reply, Command
  <2>3. CASE b = c
    <3>1. PICK k \in 0..EndOf(Reply(c)), m \in 0..Len(Reply(c)) + 1 :
            /\ m \in k..Len(Reply(c)) + 1
            /\ Taken(c) = Piece(Reply(c), 0, k)
            /\ down[c] = Piece(Reply(c), k, m)
            /\ m = 0
      <4>1. \A i \in 0..EndOf(Reply(c)) : \A l \in i..Len(Reply(c)) + 1 :
              l \in 0..Len(Reply(c)) + 1
        BY <1>3, FirstLine
      <4> QED BY <1>10, <2>1, <2>3, <4>1 DEF AnswerOf
    <3>2. text'[link[c]] = Piece(Reply(c), m, Len(Reply(c)) + 1)
      BY <1>1, <1>3, <1>5, <3>1, WholePiece
    <3>3. ~(m > 0)
      BY <3>1
    <3>4. Answering(c)'
      BY <1>c, <1>1, <1>4, <1>5, Names DEF Answering
    <3> QED BY <1>1, <1>4, <1>5, <2>3, <3>1, <3>2, <3>3, <3>4 DEF AnswerOf, Taken, Reply, Command
  <2> QED BY <2>2, <2>3
<1>13. CommandReceived'
  BY <1>c, <1>2, <1>4, <1>5 DEF IInv, CommandReceived, Command
<1>14. WholeCommands' /\ OwnAnswer'
  BY <1>4, <1>5 DEF IInv, WholeCommands, OwnAnswer, Command, Reply
<1> QED BY <1>6, <1>7, <1>8, <1>11, <1>12, <1>13, <1>14 DEF IInv

LEMMA SendKeeps ==
  ASSUME IInv, NEW d \in Daemon, Send(d)
  PROVE  IInv'
<1>c. PICK c : c = conn[d]
  OBVIOUS
<1>1. /\ c \in Client /\ link[c] = d
      /\ \A e \in Daemon : conn[e] = c => e = d
  BY <1>c, Served DEF Send, Serving
<1>2. Open(c) /\ Answering(c) /\ <<c, Command(c)>> \in handled
  BY <1>c, <1>1, Names DEF IInv, CommandReceived, Send, Answering
<1>d. PICK answer \in Text : answer = Reply(c)
  BY <1>1, TextOf
<1>3. EndOf(answer) \in 0..Len(answer) /\ Len(answer) \in Nat
  BY FirstLine, PacketOfLine
<1>4. PICK k \in 0..EndOf(answer), m \in 0..Len(answer) + 1 :
        /\ m \in k..Len(answer) + 1
        /\ Taken(c) = Piece(answer, 0, k)
        /\ down[c] = Piece(answer, k, m)
        /\ text[d] = Piece(answer, m, Len(answer) + 1)
  <2>1. AnswerOf(c)
    BY <1>1, <1>2 DEF IInv, AnswerInPieces
  <2>2. \A i \in 0..EndOf(answer) : \A l \in i..Len(answer) + 1 : l \in 0..Len(answer) + 1
    BY <1>3
  <2> QED BY <1>1, <1>2, <1>d, <2>1, <2>2 DEF AnswerOf
<1>5. PICK n \in 1..Len(text[d]) :
        /\ down' = [down EXCEPT ![c] = @ \o SubSeq(text[d], 1, n)]
        /\ text' = [text EXCEPT ![d] = SubSeq(@, n + 1, Len(@))]
        /\ UNCHANGED <<request, path, at, queue, conn, phase, link, up, handled>>
  BY <1>c DEF Send
<1>u. UNCHANGED <<request, path, at, queue, conn, phase, link, up, handled>>
  BY <1>5
<1>6. Len(answer) \in Nat /\ k \in 0..Len(answer) + 1
  BY <1>3
<1>7. /\ m + n \in m..Len(answer) + 1
      /\ down[c] \o SubSeq(text[d], 1, n) = Piece(answer, k, m + n)
      /\ SubSeq(text[d], n + 1, Len(text[d])) = Piece(answer, m + n, Len(answer) + 1)
  <2>1. n \in 1..Len(Piece(answer, m, Len(answer) + 1))
    BY <1>4, <1>5
  <2>2. LET left == Piece(answer, m, Len(answer) + 1)
        IN /\ m + n \in m..Len(answer) + 1 /\ m < Len(answer) + 1
           /\ Piece(answer, k, m) \o SubSeq(left, 1, n) = Piece(answer, k, m + n)
           /\ SubSeq(left, n + 1, Len(left)) = Piece(answer, m + n, Len(answer) + 1)
           /\ n = Len(left) <=> m + n = Len(answer) + 1
    <3>1. k \in 0..Len(answer) + 1 /\ m \in k..Len(answer) + 1
      BY <1>4, <1>6
    <3> QED BY <2>1, <3>1, WritePiece, ZenonT(60)
  <2> QED BY <1>4, <2>2
<1>8. PICK p \in m..Len(answer) + 1 : p = m + n
  BY <1>7
<1>9. p \in k..Len(answer) + 1 /\ p \in 0..Len(answer) + 1 /\ Len(answer) + 1 \in p..Len(answer) + 1
  BY <1>4, <1>6
<1>10. Piece(answer, k, p) \in Text /\ Piece(answer, p, Len(answer) + 1) \in Text
  BY <1>6, <1>9, PieceOfLine
<1>11. /\ down' = [down EXCEPT ![c] = Piece(answer, k, p)]
       /\ text' = [text EXCEPT ![d] = Piece(answer, p, Len(answer) + 1)]
  BY <1>5, <1>7, <1>8
<1>12. /\ down'[c] = Piece(answer, k, p) /\ text'[d] = Piece(answer, p, Len(answer) + 1)
       /\ \A b \in Client \ {c} : down'[b] = down[b]
       /\ \A b \in Client : text'[b] = text[b]
       /\ \A e \in Daemon \ {d} : text'[e] = text[e]
  BY <1>1, <1>11, Names DEF IInv, Kept
<1>13. Kept'
  <2>1. down' \in [Client -> Text] /\ text' \in [Client \union Daemon -> Text]
    BY <1>10, <1>11 DEF IInv, Kept
  <2> QED BY <1>u, <2>1 DEF IInv, Kept
<1>14. Linked'
  BY <1>u DEF IInv, Linked, Waiting
<1>15. Connected' /\ Unused'
  BY <1>c, <1>1, <1>2, <1>u, <1>12, Names DEF IInv, Connected, Unused
<1>16. ASSUME NEW b \in Client, b # c
       PROVE  /\ Asking(b)' = Asking(b) /\ Answering(b)' = Answering(b)
              /\ link[b] # None => Received(b)' = Received(b)
              /\ Answering(b) => text'[link[b]] = text[link[b]]
  <2>1. link[b] \in Daemon \union {None}
    BY DEF IInv, Kept
  <2>2. link[b] = d => conn[d] # b
    BY <1>c, <1>16
  <2> QED BY <1>c, <1>u, <1>12, <2>1, <2>2 DEF Asking, Received, Answering
<1>17. Answering(c)' /\ ~Asking(c)'
  BY <1>c, <1>1, <1>2, <1>5 DEF Answering, Asking
<1>18. CommandInPieces' /\ Unanswered'
  BY <1>u, <1>12, <1>16, <1>17 DEF IInv, CommandInPieces, CommandOf, Unanswered, Asking
<1>19. AnswerInPieces'
  <2> SUFFICES ASSUME NEW b \in Client, Open(b)'
               PROVE  AnswerOf(b)'
    BY DEF AnswerInPieces, Open
  <2>1. CASE b # c
    <3>1. AnswerOf(b)
      BY <1>u DEF IInv, AnswerInPieces, Open
    <3>2. /\ Taken(b)' = Taken(b) /\ Reply(b)' = Reply(b) /\ Command(b)' = Command(b)
          /\ down'[b] = down[b] /\ link' = link /\ handled' = handled
          /\ Answering(b)' = Answering(b)
          /\ Answering(b) => text'[link[b]] = text[link[b]]
      BY <1>u, <1>12, <1>16, <2>1 DEF Taken, Reply, Command
    <3> QED BY <3>1, <3>2 DEF AnswerOf
  <2>2. CASE b = c
    <3>1. answer = Reply(c)' /\ Command(c)' = Command(c) /\ Taken(c)' = Taken(c)
      BY <1>d, <1>1, <1>u, <1>12 DEF Reply, Command, Taken
    <3>2. /\ Taken(c)' = Piece(answer, 0, k)
          /\ down'[c] = Piece(answer, k, p)
          /\ p > 0 => <<c, Command(c)'>> \in handled'
          /\ link'[c] # None /\ ~Answering(c)' => p = 0
          /\ Answering(c)' => text'[link'[c]] = Piece(answer, p, Len(answer) + 1)
      BY <1>1, <1>2, <1>4, <1>u, <1>12, <1>17, <3>1
    <3>3. AnswerOf(c)'
      BY <1>9, <3>1, <3>2 DEF AnswerOf
    <3> QED BY <2>2, <3>3
  <2> QED BY <2>1, <2>2
<1>20. CommandReceived'
  <2>1. ASSUME NEW e \in Daemon, e # d
        PROVE  CommandReceived!(e)'
    <3>1. CommandReceived!(e) /\ (at[e] \in Serving => conn[e] \in Client /\ conn[e] # c)
      BY <1>1, <2>1, Served DEF IInv, CommandReceived, Command
    <3> QED BY <1>u, <1>12, <2>1, <3>1 DEF Serving, Command
  <2>2. CommandReceived!(d)'
    <3>1. at[d] = "send" /\ CommandReceived!(d)
      BY DEF IInv, CommandReceived, Send, Command
    <3> QED BY <1>u, <3>1 DEF Command
  <2> QED BY <2>1, <2>2 DEF CommandReceived, Command
<1>21. WholeCommands' /\ OwnAnswer'
  BY <1>u, <1>12 DEF IInv, WholeCommands, OwnAnswer, Command, Reply
<1> QED BY <1>13, <1>14, <1>15, <1>18, <1>19, <1>20, <1>21 DEF IInv

\* A step of the client c that leaves its connection alone leaves what it says about
\* every other client alone.
LEMMA OthersKeep ==
  ASSUME IInv, NEW c \in Client, NEW b \in Client, b # c,
         UNCHANGED <<request, at, conn, link, handled>>,
         phase'[b] = phase[b], up'[b] = up[b], down'[b] = down[b], text'[b] = text[b],
         \A d \in Daemon : text'[d] = text[d]
  PROVE  /\ Asking(b)' => CommandOf(b)' /\ down'[b] = << >> /\ phase'[b] # "answered"
         /\ Open(b)' => AnswerOf(b)'
         /\ phase'[b] = "answered" => /\ text'[b] = UpToNewline(Reply(b)')
                                      /\ <<b, Command(b)'>> \in handled'
         /\ link'[b] # None => phase'[b] \notin {"idle", "failed"}
         /\ phase'[b] = "idle" => up'[b] = << >> /\ down'[b] = << >>
<1>1. link[b] \in Daemon \union {None}
  BY DEF IInv, Kept
<1>2. /\ Asking(b)' = Asking(b) /\ Answering(b)' = Answering(b)
      /\ Asking(b) => Received(b)' = Received(b)
      /\ Answering(b) => text'[link[b]] = text[link[b]]
  BY <1>1 DEF Asking, Answering, Received
<1>3. Asking(b)' => CommandOf(b)' /\ down'[b] = << >> /\ phase'[b] # "answered"
  BY <1>2 DEF IInv, CommandInPieces, CommandOf, Unanswered
<1>4. Open(b)' => AnswerOf(b)'
  BY <1>2 DEF IInv, AnswerInPieces, AnswerOf, Taken, Reply, Command, Open
<1> QED BY <1>3, <1>4 DEF IInv, OwnAnswer, Connected, Unused, Reply, Command

\* The client fails or is interrupted: what it wrote can still be read.
LEMMA LeaveKeeps ==
  ASSUME IInv, NEW c \in Client, ConnectFails(c) \/ Fail(c) \/ Quit(c)
  PROVE  IInv'
<1>1. PICK p \in {"failed", "gone"} :
        /\ phase' = [phase EXCEPT ![c] = p]
        /\ p = "failed" => link[c] = None
        /\ phase[c] \notin {"answered", "failed", "gone"}
        /\ UNCHANGED <<request, path, at, queue, conn, link, up, down, text, handled>>
  BY Names DEF IInv, Connected, ConnectFails, Fail, Quit, Open
<1>2. phase'[c] = p /\ \A b \in Client \ {c} : phase'[b] = phase[b]
  BY <1>1 DEF IInv, Kept
<1>3. Kept'
  BY <1>1 DEF IInv, Kept, Ended
<1>4. Linked'
  BY <1>1 DEF IInv, Linked, Waiting
<1>5. ASSUME NEW b \in Client, b # c
      PROVE  /\ Asking(b)' => CommandOf(b)' /\ down'[b] = << >> /\ phase'[b] # "answered"
             /\ Open(b)' => AnswerOf(b)'
             /\ phase'[b] = "answered" => /\ text'[b] = UpToNewline(Reply(b)')
                                          /\ <<b, Command(b)'>> \in handled'
             /\ link'[b] # None => phase'[b] \notin {"idle", "failed"}
             /\ phase'[b] = "idle" => up'[b] = << >> /\ down'[b] = << >>
  BY <1>1, <1>2, <1>5, OthersKeep
<1>6. Asking(c)' => CommandOf(c)' /\ down'[c] = << >> /\ phase'[c] # "answered"
  <2>1. Asking(c)' = Asking(c) /\ Received(c)' = Received(c)
    BY <1>1 DEF Asking, Received
  <2> QED BY <1>1, <1>2, <2>1 DEF IInv, CommandInPieces, CommandOf, Unanswered
<1>7. link'[c] # None => phase'[c] \notin {"idle", "failed"}
  BY <1>1, <1>2
<1>8. Connected' /\ Unused' /\ CommandInPieces' /\ Unanswered' /\ AnswerInPieces' /\ OwnAnswer'
  BY <1>1, <1>2, <1>5, <1>6, <1>7
     DEF IInv, Connected, Unused, CommandInPieces, Unanswered, AnswerInPieces, OwnAnswer, Open, Reply, Command
<1>9. CommandReceived' /\ WholeCommands'
  BY <1>1, <1>2, Served DEF IInv, CommandReceived, WholeCommands, Serving, Command
<1> QED BY <1>3, <1>4, <1>8, <1>9 DEF IInv

LEMMA WriteKeeps ==
  ASSUME IInv, NEW c \in Client, Write(c)
  PROVE  IInv'
<1>1. /\ phase[c] = "sending" /\ link[c] # None /\ link[c] \in Daemon
      /\ request[c] \in Text /\ text[c] \in Text /\ up[c] \in Text
  BY TextOf DEF IInv, Kept, Write
<1>2. PICK n \in 1..Len(text[c]) :
        /\ up' = [up EXCEPT ![c] = @ \o SubSeq(text[c], 1, n)]
        /\ text' = [text EXCEPT ![c] = SubSeq(@, n + 1, Len(@))]
        /\ phase' = [phase EXCEPT ![c] = IF n = Len(text[c]) THEN "reading" ELSE @]
        /\ UNCHANGED <<request, path, at, queue, conn, link, down, handled>>
  BY DEF Write
<1>u. UNCHANGED <<request, path, at, queue, conn, link, down, handled>>
  BY <1>2
<1>3. PICK wrote \in Text, left \in Text :
        /\ wrote = SubSeq(text[c], 1, n)
        /\ left = SubSeq(text[c], n + 1, Len(text[c]))
        /\ n = Len(text[c]) => left = << >>
  <2>1. Len(text[c]) \in Nat
    BY <1>1, LenProperties DEF Text
  <2>2. PICK l \in Nat : l = Len(text[c]) /\ n \in Nat /\ 1 <= n /\ n <= l
    BY <2>1
  <2>3. SubSeq(text[c], 1, n) \in Text
    BY <1>1, <2>2, PartOfText
  <2>4. PICK p \in Nat : p = n + 1 /\ 1 <= p /\ p <= l + 1
    BY <2>2
  <2>5. SubSeq(text[c], p, l) \in Text /\ Len(SubSeq(text[c], p, l)) = l - p + 1
    BY <1>1, <2>2, <2>4, PartOfText
  <2>6. n = l => SubSeq(text[c], p, l) = << >>
    BY <2>2, <2>4, <2>5, EmptySeq DEF Text
  <2> QED BY <2>2, <2>3, <2>4, <2>5, <2>6
<1>4. /\ up' = [up EXCEPT ![c] = up[c] \o wrote]
      /\ text' = [text EXCEPT ![c] = left]
      /\ phase' = [phase EXCEPT ![c] = IF n = Len(text[c]) THEN "reading" ELSE "sending"]
  BY <1>1, <1>2, <1>3
<1>5. /\ up'[c] = up[c] \o wrote /\ text'[c] = left
      /\ phase'[c] = IF n = Len(text[c]) THEN "reading" ELSE "sending"
      /\ \A b \in Client \ {c} : up'[b] = up[b] /\ text'[b] = text[b] /\ phase'[b] = phase[b]
      /\ \A d \in Daemon : text'[d] = text[d]
  BY <1>4, Names DEF IInv, Kept
<1>6. Kept'
  <2>1. up[c] \o wrote \in Text
    BY <1>1, <1>3, ConcatProperties DEF Text
  <2>2. up' \in [Client -> Text] /\ text' \in [Client \union Daemon -> Text]
    BY <1>3, <1>4, <2>1 DEF IInv, Kept
  <2> QED BY <1>u, <1>4, <2>2 DEF IInv, Kept
<1>7. Linked'
  BY <1>u DEF IInv, Linked, Waiting
<1>8. ASSUME NEW b \in Client, b # c
       PROVE  /\ Asking(b)' => CommandOf(b)' /\ down'[b] = << >> /\ phase'[b] # "answered"
              /\ Open(b)' => AnswerOf(b)'
              /\ phase'[b] = "answered" => /\ text'[b] = UpToNewline(Reply(b)')
                                           /\ <<b, Command(b)'>> \in handled'
              /\ link'[b] # None => phase'[b] \notin {"idle", "failed"}
              /\ phase'[b] = "idle" => up'[b] = << >> /\ down'[b] = << >>
  <2>1. UNCHANGED <<request, at, conn, link, handled>> /\ down'[b] = down[b]
    BY <1>u
  <2> QED BY <1>5, <1>8, <2>1, OthersKeep
<1>9. /\ Asking(c)' = Asking(c) /\ Answering(c)' = Answering(c) /\ Received(c)' = Received(c)
      /\ Command(c)' = Command(c) /\ Reply(c)' = Reply(c)
      /\ Taken(c) = << >> /\ Taken(c)' = << >>
      /\ Open(c) /\ phase'[c] \in {"reading", "sending"}
  BY <1>1, <1>u, <1>3, <1>5 DEF Asking, Answering, Received, Command, Reply, Taken, Open
<1>10. Asking(c)' => CommandOf(c)' /\ down'[c] = << >>
  <2> SUFFICES ASSUME Asking(c)
               PROVE  CommandOf(c)' /\ down'[c] = << >>
    BY <1>9
  <2>l. PICK line \in Text : line = request[c] /\ line = request'[c]
    BY <1>1, <1>u
  <2>1. Len(line) \in Nat /\ EndOf(line) \in 0..Len(line)
    BY PacketOfLine, FirstLine
  <2>2. PICK k \in 0..EndOf(line), m \in 0..Len(line) + 1 :
          /\ m \in k..Len(line) + 1
          /\ Received(c) = Piece(line, 0, k)
          /\ up[c] = Piece(line, k, m)
          /\ text[c] = Piece(line, m, Len(line) + 1)
    <3>1. \A i \in 0..EndOf(line) : \A l \in i..Len(line) + 1 :
            l \in 0..Len(line) + 1
      BY <2>1
    <3>2. CommandOf(c)
      BY DEF IInv, CommandInPieces
    <3> QED BY <1>1, <2>l, <3>1, <3>2 DEF CommandOf
  <2>3. /\ m + n \in m..Len(line) + 1
        /\ up[c] \o wrote = Piece(line, k, m + n)
        /\ left = Piece(line, m + n, Len(line) + 1)
        /\ n = Len(text[c]) <=> m + n = Len(line) + 1
    <3>1. n \in 1..Len(Piece(line, m, Len(line) + 1))
      BY <1>2, <2>2
    <3>2. k \in 0..Len(line) + 1 /\ m \in k..Len(line) + 1
      BY <2>1, <2>2
    <3>3. LET rest == Piece(line, m, Len(line) + 1)
          IN /\ m + n \in m..Len(line) + 1 /\ m < Len(line) + 1
             /\ Piece(line, k, m) \o SubSeq(rest, 1, n) = Piece(line, k, m + n)
             /\ SubSeq(rest, n + 1, Len(rest)) = Piece(line, m + n, Len(line) + 1)
             /\ n = Len(rest) <=> m + n = Len(line) + 1
      BY <3>1, <3>2, WritePiece, ZenonT(60)
    <3>4. text[c] = Piece(line, m, Len(line) + 1) /\ up[c] = Piece(line, k, m)
      BY <2>2
    <3>5. /\ wrote = SubSeq(Piece(line, m, Len(line) + 1), 1, n)
          /\ left = SubSeq(Piece(line, m, Len(line) + 1), n + 1,
                           Len(Piece(line, m, Len(line) + 1)))
      BY <1>3, <3>4, Zenon
    <3> QED BY <3>3, <3>4, <3>5, Zenon
  <2>4. PICK p \in m..Len(line) + 1 : p = m + n
    BY <2>3
  <2>5. p \in k..Len(line) + 1
    BY <2>1, <2>2
  <2>6. /\ Received(c)' = Piece(line, 0, k)
        /\ up'[c] = Piece(line, k, p)
        /\ phase'[c] = "sending" =>
             /\ p <= Len(line)
             /\ text'[c] = Piece(line, p, Len(line) + 1)
    <3>1. up'[c] = up[c] \o wrote /\ text'[c] = left
          /\ Received(c)' = Piece(line, 0, k)
      BY <1>u, <1>5, <1>9, <2>2
    <3>2. up'[c] = Piece(line, k, p) /\ text'[c] = Piece(line, p, Len(line) + 1)
      BY <2>3, <2>4, <3>1
    <3>3. phase'[c] = "sending" => p <= Len(line)
      BY <1>5, <2>1, <2>2, <2>3, <2>4
    <3> QED BY <3>1, <3>2, <3>3
  <2>7. p \in k..Len(request'[c]) + 1 /\ k \in 0..EndOf(request'[c])
    BY <2>l, <2>5
  <2>8. down[c] = << >>
    BY DEF IInv, Unanswered
  <2> QED BY <1>u, <2>l, <2>6, <2>7, <2>8 DEF CommandOf
<1>11. AnswerOf(c)'
  <2>1. AnswerOf(c)
    BY <1>9 DEF IInv, AnswerInPieces
  <2> QED BY <1>1, <1>u, <1>5, <1>9, <2>1 DEF AnswerOf
<1>12. Connected' /\ Unused' /\ CommandInPieces' /\ Unanswered' /\ AnswerInPieces' /\ OwnAnswer'
  <2>1. \A d \in Daemon : conn'[d] = None => text'[d] = << >>
    BY <1>u, <1>5 DEF IInv, Unused
  <2> QED BY <1>8, <1>9, <1>10, <1>11, <2>1
          DEF Connected, Unused, CommandInPieces, Unanswered, AnswerInPieces, OwnAnswer
<1>13. CommandReceived'
  <2>1. \A d \in Daemon : at[d] \in Serving => conn[d] \in Client
    BY Served
  <2> QED BY <1>u, <1>5, <1>9, <2>1 DEF IInv, CommandReceived, Serving, Command
<1>14. WholeCommands'
  BY <1>u DEF IInv, WholeCommands, Command
<1> QED BY <1>6, <1>7, <1>12, <1>13, <1>14 DEF IInv

LEMMA ReadKeeps ==
  ASSUME IInv, NEW c \in Client, Read(c)
  PROVE  IInv'
<1>1. phase[c] = "reading" /\ down[c] # << >> /\ link[c] \in Daemon \union {None}
  BY DEF IInv, Kept, Read
<1>2. ~Asking(c)
  BY <1>1 DEF IInv, Unanswered
<1>d. PICK answer \in Text : answer = Reply(c)
  BY TextOf
<1>3. /\ EndOf(answer) \in 0..Len(answer) /\ Len(answer) \in Nat
      /\ UpToNewline(answer) \in Text
  BY FirstLine, PacketOfLine
<1>4. PICK k \in 0..EndOf(answer), m \in 0..Len(answer) + 1 :
        /\ m \in k..Len(answer) + 1
        /\ text[c] = Piece(answer, 0, k)
        /\ down[c] = Piece(answer, k, m)
        /\ m > 0 => <<c, Command(c)>> \in handled
        /\ link[c] # None /\ ~Answering(c) => m = 0
        /\ Answering(c) => text[link[c]] = Piece(answer, m, Len(answer) + 1)
  <2>1. AnswerOf(c)
    BY <1>1 DEF IInv, AnswerInPieces, Open
  <2>2. \A i \in 0..EndOf(answer) : \A l \in i..Len(answer) + 1 : l \in 0..Len(answer) + 1
    BY <1>3
  <2> QED BY <1>1, <1>d, <2>1, <2>2 DEF AnswerOf, Taken
<1>6. PICK n \in (k + 1)..m :
        LET chunk == Chunk(down[c])
            received == text[c] \o UpToNewline(chunk)
        IN /\ Unread(down[c]) = Piece(answer, n, m)
           /\ SawNewline(chunk) <=> n > EndOf(answer)
           /\ received = IF SawNewline(chunk) THEN UpToNewline(answer) ELSE Piece(answer, 0, n)
  <2>1. Piece(answer, k, m) # << >>
    BY <1>1, <1>4
  <2>2. \E n \in (k + 1)..m :
          LET chunk == Chunk(Piece(answer, k, m))
              received == Piece(answer, 0, k) \o UpToNewline(chunk)
          IN /\ Unread(Piece(answer, k, m)) = Piece(answer, n, m)
             /\ SawNewline(chunk) <=> n > EndOf(answer)
             /\ received = IF SawNewline(chunk) THEN UpToNewline(answer) ELSE Piece(answer, 0, n)
    BY <1>4, <2>1, ReadPiece
  <2> QED BY <1>4, <2>2, Zenon
<1>7. /\ down' = [down EXCEPT ![c] = Piece(answer, n, m)]
      /\ text' = [text EXCEPT ![c] = IF n > EndOf(answer) THEN UpToNewline(answer)
                                     ELSE Piece(answer, 0, n)]
      /\ phase' = [phase EXCEPT ![c] = IF n > EndOf(answer) THEN "answered" ELSE "reading"]
      /\ UNCHANGED <<request, path, at, queue, conn, link, up, handled>>
  BY <1>1, <1>6 DEF Read
<1>8. /\ 0 \in 0..Len(answer) + 1 /\ n \in 0..Len(answer) + 1 /\ m \in n..Len(answer) + 1
      /\ m > 0 /\ (~(n > EndOf(answer)) => n \in 0..EndOf(answer))
  BY <1>3, <1>4
<1>9. Piece(answer, n, m) \in Text /\ Piece(answer, 0, n) \in Text 
  BY <1>8, PieceOfLine
<1>10. <<c, Command(c)>> \in handled
  BY <1>4, <1>8
<1>11. /\ down'[c] = Piece(answer, n, m)
       /\ text'[c] = IF n > EndOf(answer) THEN UpToNewline(answer) ELSE Piece(answer, 0, n)
       /\ phase'[c] = IF n > EndOf(answer) THEN "answered" ELSE "reading"
       /\ \A b \in Client \ {c} : /\ down'[b] = down[b] /\ text'[b] = text[b]
                                  /\ phase'[b] = phase[b]
       /\ \A d \in Daemon : text'[d] = text[d]
  BY <1>7, Names DEF IInv, Kept
<1>12. Kept'
  <2>1. down' \in [Client -> Text] /\ text' \in [Client \union Daemon -> Text]
    BY <1>3, <1>7, <1>9 DEF IInv, Kept
  <2> QED BY <1>7, <2>1 DEF IInv, Kept, Ended
<1>13. Linked'
  BY <1>7 DEF IInv, Linked, Waiting
<1>14. ASSUME NEW b \in Client, b # c
       PROVE  /\ Asking(b)' => CommandOf(b)' /\ down'[b] = << >> /\ phase'[b] # "answered"
              /\ Open(b)' => AnswerOf(b)'
              /\ phase'[b] = "answered" => /\ text'[b] = UpToNewline(Reply(b)')
                                           /\ <<b, Command(b)'>> \in handled'
              /\ link'[b] # None => phase'[b] \notin {"idle", "failed"}
              /\ phase'[b] = "idle" => up'[b] = << >> /\ down'[b] = << >>
  BY <1>7, <1>11, <1>14, OthersKeep
<1>15. /\ ~Asking(c)' /\ Answering(c)' = Answering(c)
       /\ Command(c)' = Command(c) /\ Reply(c)' = Reply(c)
  BY <1>2, <1>7 DEF Asking, Answering, Command, Reply
<1>16. Open(c)' => AnswerOf(c)'
  <2> SUFFICES ASSUME Open(c)'
               PROVE  AnswerOf(c)'
    OBVIOUS
  <2>1. /\ n \in 0..EndOf(answer) /\ m \in n..Len(answer) + 1
        /\ Taken(c)' = Piece(answer, 0, n)
    BY <1>8, <1>11 DEF Open, Taken
  <2>2. /\ Taken(c)' = Piece(answer, 0, n)
        /\ down'[c] = Piece(answer, n, m)
        /\ m > 0 => <<c, Command(c)'>> \in handled'
        /\ link'[c] # None /\ ~Answering(c)' => m = 0
        /\ Answering(c)' => text'[link'[c]] = Piece(answer, m, Len(answer) + 1)
    BY <1>1, <1>4, <1>7, <1>10, <1>11, <1>15, <2>1 DEF Answering
  <2>3. answer = Reply(c)'
    BY <1>d, <1>15
  <2> QED BY <2>1, <2>2, <2>3 DEF AnswerOf
<1>17. phase'[c] = "answered" => /\ text'[c] = UpToNewline(Reply(c)')
                                 /\ <<c, Command(c)'>> \in handled'
  BY <1>d, <1>7, <1>10, <1>11, <1>15
<1>18. Connected' /\ Unused' /\ CommandInPieces' /\ Unanswered' /\ AnswerInPieces' /\ OwnAnswer'
  <2>1. phase'[c] \in {"reading", "answered"}
    BY <1>11
  <2>2. \A d \in Daemon : conn'[d] = None => text'[d] = << >>
    BY <1>7, <1>11 DEF IInv, Unused
  <2> QED BY <1>14, <1>15, <1>16, <1>17, <2>1, <2>2
          DEF Connected, Unused, CommandInPieces, Unanswered, AnswerInPieces, OwnAnswer
<1>19. CommandReceived'
  <2>1. \A d \in Daemon : at[d] = "handle" => conn[d] # c
    BY <1>1 DEF IInv, CommandReceived, Command
  <2>2. \A d \in Daemon : at[d] \in Serving => conn[d] \in Client
    BY Served
  <2> QED BY <1>7, <1>11, <2>1, <2>2 DEF IInv, CommandReceived, Serving, Command
<1>20. WholeCommands'
  BY <1>7 DEF IInv, WholeCommands, Command
<1> QED BY <1>12, <1>13, <1>18, <1>19, <1>20 DEF IInv

LEMMA AppendedQueue ==
  ASSUME IInv, NEW d \in Daemon, NEW c \in Client, c \notin Waiting(d),
         Len(queue[d]) < Backlog
  PROVE  LET longer == Append(queue[d], c)
         IN /\ longer \in Seq(Client) /\ Len(longer) <= Backlog
            /\ {longer[i] : i \in DOMAIN longer} = Waiting(d) \union {c}
            /\ \A i, j \in DOMAIN longer : longer[i] = longer[j] => i = j
<1> DEFINE q == queue[d]
           longer == Append(queue[d], c)
<1>1. q \in Seq(Client) /\ Backlog \in Nat /\ \A i, j \in DOMAIN q : q[i] = q[j] => i = j
  BY SizeAssumption DEF IInv, Kept, Linked
<1>2. Len(q) \in Nat /\ DOMAIN q = 1..Len(q)
  BY <1>1, LenProperties
<1>3. /\ longer \in Seq(Client) /\ Len(longer) = Len(q) + 1
      /\ \A i \in 1..Len(q) : longer[i] = q[i]
      /\ longer[Len(q) + 1] = c
  BY <1>1, AppendProperties
<1>4. DOMAIN longer = 1..Len(q) + 1
  BY <1>3, LenProperties
<1>5. Waiting(d) = {q[i] : i \in 1..Len(q)} /\ c \notin {q[i] : i \in 1..Len(q)}
  BY <1>2 DEF Waiting
<1>6. Len(q) < Backlog
  OBVIOUS
<1> HIDE DEF q, longer
<1>7. {longer[i] : i \in DOMAIN longer} = {q[i] : i \in 1..Len(q)} \union {c}
  <2>1. \A i \in 1..Len(q) + 1 : i \in 1..Len(q) \/ i = Len(q) + 1
    BY <1>2
  <2>2. \A i \in 1..Len(q) : i \in 1..Len(q) + 1
    BY <1>2
  <2>3. Len(q) + 1 \in 1..Len(q) + 1
    BY <1>2
  <2> QED BY <1>3, <1>4, <2>1, <2>2, <2>3
<1>8. \A i, j \in DOMAIN longer : longer[i] = longer[j] => i = j
  <2>1. \A i \in 1..Len(q) : longer[i] # c
    BY <1>3, <1>5
  <2>2. \A i \in 1..Len(q) + 1 : i \in 1..Len(q) \/ i = Len(q) + 1
    BY <1>2
  <2> QED BY <1>1, <1>2, <1>3, <1>4, <2>1, <2>2
<1>9. Len(longer) <= Backlog
  BY <1>1, <1>2, <1>3, <1>6
<1> QED BY <1>3, <1>5, <1>7, <1>8, <1>9 DEF q, longer

LEMMA ConnectKeeps ==
  ASSUME IInv, NEW c \in Client, Connect(c)
  PROVE  IInv'
<1>1. PICK d \in Daemon :
        /\ at[d] \in Looping /\ Len(queue[d]) < Backlog
        /\ link' = [link EXCEPT ![c] = d]
        /\ queue' = [queue EXCEPT ![d] = Append(@, c)]
  BY DEF Connect, Listener
<1>2. /\ phase[c] = "idle"
      /\ text' = [text EXCEPT ![c] = Packet(request[c])]
      /\ phase' = [phase EXCEPT ![c] = "sending"]
      /\ UNCHANGED <<request, path, at, conn, up, down, handled>>
  BY DEF Connect
<1>3. link[c] = None /\ up[c] = << >> /\ down[c] = << >> /\ request[c] \in Text
      /\ Packet(request[c]) \in Text
  <2>1. request[c] \in Text
    BY TextOf
  <2> QED BY <1>2, <2>1, PacketOfLine DEF IInv, Connected, Unused
<1>4. \A e \in Daemon : c \notin Waiting(e) /\ conn[e] # c
  BY <1>3, Names DEF IInv, Linked
<1>5. PICK longer : longer = Append(queue[d], c)
  OBVIOUS
<1>6. /\ longer \in Seq(Client) /\ Len(longer) <= Backlog
      /\ {longer[i] : i \in DOMAIN longer} = Waiting(d) \union {c}
      /\ \A i, j \in DOMAIN longer : longer[i] = longer[j] => i = j
  BY <1>1, <1>4, <1>5, AppendedQueue
<1>7. /\ link'[c] = d /\ queue'[d] = longer
      /\ text'[c] = Packet(request[c]) /\ phase'[c] = "sending"
      /\ \A b \in Client \ {c} : /\ link'[b] = link[b] /\ text'[b] = text[b]
                                 /\ phase'[b] = phase[b]
      /\ \A e \in Daemon : text'[e] = text[e]
      /\ \A e \in Daemon \ {d} : queue'[e] = queue[e]
  BY <1>1, <1>2, <1>5, Names DEF IInv, Kept
<1>8. Kept'
  <2>1. link' \in [Client -> Daemon \union {None}]
    BY <1>1 DEF IInv, Kept
  <2>2. queue' \in [Daemon -> Seq(Client)]
    BY <1>1, <1>5, <1>6 DEF IInv, Kept
  <2>3. text' \in [Client \union Daemon -> Text]
    BY <1>2, <1>3 DEF IInv, Kept
  <2> QED BY <1>2, <2>1, <2>2, <2>3 DEF IInv, Kept
<1>9. Linked'
  <2>1. Waiting(d)' = Waiting(d) \union {c}
    <3>1. Waiting(d)' = {queue'[d][i] : i \in DOMAIN queue'[d]}
      BY DEF Waiting
    <3>2. queue'[d] = longer
      BY <1>7
    <3>3. Waiting(d)' = {longer[i] : i \in DOMAIN longer}
      BY <3>1, <3>2
    <3> QED BY <3>3, <1>6
  <2>2. ASSUME NEW e \in Daemon
        PROVE  Linked!(e)'
    <3>1. Linked!(e)
      BY DEF IInv, Linked
    <3>2. CASE e = d
      <4>1. \A b \in Client : link'[b] = d <=> b \in Waiting(d)' \/ b = conn[d]
        BY <1>7, <2>1, <3>1, <3>2
      <4> QED BY <1>2, <1>4, <1>6, <1>7, <2>1, <3>1, <3>2, <4>1
    <3>3. CASE e # d
      <4>1. Waiting(e)' = Waiting(e)
        BY <1>7, <3>3 DEF Waiting
      <4>2. \A b \in Client : link'[b] = e <=> link[b] = e
        BY <1>3, <1>7, <3>3, Names
      <4> QED BY <1>2, <1>7, <3>1, <3>3, <4>1, <4>2
    <3> QED BY <3>2, <3>3
  <2> QED BY <2>2 DEF Linked
<1>10. \A b \in Client : link[b] \in Daemon \union {None}
  BY DEF IInv, Kept
<1>11. ASSUME NEW b \in Client, b # c
       PROVE  /\ Asking(b)' = Asking(b) /\ Answering(b)' = Answering(b)
              /\ link[b] # None => Received(b)' = Received(b) /\ text'[link[b]] = text[link[b]]
  BY <1>2, <1>7, <1>10, <1>11 DEF Asking, Answering, Received
<1>12. CommandOf(c)'
  <2>1. Len(request[c]) \in Nat /\ EndOf(request[c]) \in 0..Len(request[c])
    BY <1>3, PacketOfLine, FirstLine
  <2>2. 0 \in 0..EndOf(request'[c]) /\ 0 \in 0..Len(request'[c]) + 1
    BY <1>2, <2>1
  <2>3. Piece(request[c], 0, 0) = << >>
        /\ Piece(request[c], 0, Len(request[c]) + 1) = Packet(request[c])
    BY <1>2, <1>3, <2>2, EmptyPiece, WholePiece
  <2>4. Received(c)' = << >>
    BY <1>2, <1>4, <1>7 DEF Received
  <2>5. /\ Received(c)' = Piece(request'[c], 0, 0)
        /\ up'[c] = Piece(request'[c], 0, 0)
        /\ phase'[c] = "sending" =>
             /\ 0 <= Len(request'[c])
             /\ text'[c] = Piece(request'[c], 0, Len(request'[c]) + 1)
    BY <1>2, <1>3, <1>7, <2>1, <2>3, <2>4
  <2> QED BY <2>2, <2>5 DEF CommandOf
<1>13. CommandInPieces' /\ Unanswered'
  <2> SUFFICES ASSUME NEW b \in Client, Asking(b)'
               PROVE  CommandOf(b)' /\ down'[b] = << >> /\ phase'[b] # "answered"
    BY DEF CommandInPieces, Unanswered
  <2>1. CASE b = c
    BY <1>2, <1>3, <1>7, <1>12, <2>1
  <2>2. CASE b # c
    <3>1. Asking(b) /\ link[b] # None /\ CommandOf(b) /\ down[b] = << >> /\ phase[b] # "answered"
      BY <1>11, <2>2 DEF IInv, CommandInPieces, Unanswered, Asking
    <3> QED BY <1>2, <1>7, <1>11, <2>2, <3>1 DEF CommandOf
  <2> QED BY <2>1, <2>2
<1>14. AnswerInPieces'
  <2> SUFFICES ASSUME NEW b \in Client, Open(b)'
               PROVE  AnswerOf(b)'
    BY DEF AnswerInPieces, Open
  <2>1. CASE b # c
    <3>1. AnswerOf(b)
      BY <1>7, <2>1 DEF IInv, AnswerInPieces, Open
    <3> QED BY <1>2, <1>7, <1>11, <2>1, <3>1 DEF AnswerOf, Answering, Taken, Reply, Command
  <2>2. CASE b = c
    <3>1. PICK answer \in Text : answer = Reply(c)'
      BY <1>2, TextOf DEF Reply, Command
    <3>2. /\ 0 \in 0..EndOf(answer) /\ 0 \in 0..Len(answer) + 1
          /\ Piece(answer, 0, 0) = << >>
      BY FirstLine, PacketOfLine, EmptyPiece
    <3>3. Taken(c)' = << >> /\ down'[c] = << >> /\ ~Answering(c)' /\ ~(0 > 0)
      BY <1>2, <1>3, <1>4, <1>7 DEF Taken, Answering
    <3> QED BY <2>2, <3>1, <3>2, <3>3 DEF AnswerOf
  <2> QED BY <2>1, <2>2
<1>15. Connected' /\ Unused'
  BY <1>2, <1>7 DEF IInv, Connected, Unused
<1>16. CommandReceived'
  <2>1. \A e \in Daemon : at[e] \in Serving => conn[e] \in Client
    BY Served
  <2> QED BY <1>2, <1>4, <1>7, <2>1 DEF IInv, CommandReceived, Serving, Command
<1>17. WholeCommands' /\ OwnAnswer'
  BY <1>2, <1>7 DEF IInv, WholeCommands, OwnAnswer, Command, Reply
<1> QED BY <1>8, <1>9, <1>13, <1>14, <1>15, <1>16, <1>17 DEF IInv

-----------------------------------------------------------------------------
(* The theorems.                                                           *)

LEMMA InitIInv == Init => IInv
<1> SUFFICES ASSUME Init
             PROVE  IInv
  OBVIOUS
<1>1. << >> \in Text /\ << >> \in Seq(Client) /\ Len(<< >>) = 0 /\ Backlog \in Nat
  BY SizeAssumption DEF Text
<1>2. Kept
  BY <1>1 DEF Init, Kept
<1>3. Linked
  <2>1. \A d \in Daemon : Waiting(d) = {} /\ DOMAIN queue[d] = {}
    BY DEF Init, Waiting
  <2> QED BY <1>1, <2>1, Names DEF Init, Linked
<1>4. Connected /\ Unused /\ WholeCommands /\ OwnAnswer /\ AnswerInPieces
  BY DEF Init, Connected, Unused, WholeCommands, OwnAnswer, AnswerInPieces, Open, Command, Reply
<1>5. CommandInPieces /\ Unanswered /\ CommandReceived
  BY DEF Init, CommandInPieces, Unanswered, CommandReceived, Asking, Command
<1> QED BY <1>2, <1>3, <1>4, <1>5 DEF IInv

LEMMA NextKeeps == IInv /\ [Next]_vars => IInv'
<1> SUFFICES ASSUME IInv, [Next]_vars
             PROVE  IInv'
  OBVIOUS
<1>1. ASSUME UNCHANGED vars
      PROVE  IInv'
  BY <1>1 DEF vars, IInv, Kept, Linked, Waiting, Connected, Unused, CommandInPieces, CommandOf,
              Asking, Received, Unanswered, CommandReceived, AnswerInPieces, AnswerOf,
              Answering, WholeCommands, OwnAnswer, Taken, Reply, Command, Open
<1>2. ASSUME NEW d \in Daemon, Launch(d) \/ Start(d) \/ Loop(d) \/ Kill(d)
      PROVE  IInv'
  BY <1>2, StartKeeps, KillKeeps, AcceptKeeps, CloseKeeps, ReceiveKeeps, HandleKeeps, SendKeeps
     DEF Loop
<1>3. ASSUME NEW c \in Client, Ask(c) \/ Quit(c)
      PROVE  IInv'
  BY <1>3, ConnectKeeps, LeaveKeeps, WriteKeeps, ReadKeeps DEF Ask
<1> QED BY <1>1, <1>2, <1>3 DEF Next

LEMMA IInvariant == Spec => []IInv
  BY InitIInv, NextKeeps, PTL DEF Spec

\* The connections: however daemons are started and killed and clients come and go,
\* both ends of Server and Connection agree who is connected to whom, a client waits
\* in or is served by one daemon at most, and no queue exceeds the backlog.
THEOREM BothEndsAgree == Spec => []TypeOK
<1>1. ASSUME IInv, NEW d \in Daemon
      PROVE  Cardinality(Waiting(d)) = Len(queue[d])
  <2> DEFINE n == Len(queue[d])
             f == [i \in 1..n |-> queue[d][i]]
  <2>1. n \in Nat /\ DOMAIN queue[d] = 1..n
        /\ \A i, j \in 1..n : queue[d][i] = queue[d][j] => i = j
    BY <1>1, LenProperties DEF IInv, Kept, Linked
  <2>2. Waiting(d) = {queue[d][i] : i \in 1..n}
    BY <2>1 DEF Waiting
  <2>3. /\ f \in [1..n -> Waiting(d)]
        /\ \A i, j \in 1..n : f[i] = f[j] => i = j
        /\ \A c \in Waiting(d) : \E i \in 1..n : f[i] = c
    BY <2>1, <2>2
  <2>4. f \in Bijection(1..n, Waiting(d))
    BY <2>3, Fun_IsBij
  <2>5. ExistsBijection(1..n, Waiting(d))
    BY <2>4, Fun_ExistsBij
  <2> QED BY <2>1, <2>5, FS_CountingElements
<1>2. ASSUME IInv, NEW d \in Daemon
      PROVE  {c \in Client : link[c] = d} = Waiting(d) \union ({conn[d]} \ {None})
  <2>1. Waiting(d) \subseteq Client /\ conn[d] \in Client \union {None}
    BY <1>2, LenProperties DEF IInv, Kept, Waiting
  <2>2. \A c \in Client : link[c] = d <=> c \in Waiting(d) \/ c = conn[d]
    BY <1>2 DEF IInv, Linked
  <2> QED BY <2>1, <2>2, Names
<1>3. IInv => TypeOK
  BY <1>1, <1>2 DEF IInv, Kept, Linked, TypeOK
<1> QED BY <1>3, IInvariant, PTL

\* Connection::receive: a command is executed whole or not at all, however its line is
\* cut into reads and writes and whenever the client leaves.
THEOREM CommandsWhole == Spec => []WholeCommands
<1>1. IInv => WholeCommands
  BY DEF IInv
<1> QED BY <1>1, IInvariant, PTL

\* Connection::send and receive: the line a client takes is the whole first line of the
\* answer to its own command, and that command was executed.  The answer may have more
\* lines (CURRENT): those never reach a client, not even a later one.
THEOREM AnswersOwn == Spec => []OwnAnswer
<1>1. IInv => OwnAnswer
  BY DEF IInv
<1> QED BY <1>1, IInvariant, PTL

\* The main loop: nothing a client does takes a daemon out of it.
THEOREM DaemonStaysUp == Spec => StaysUp
<1>1. ASSUME IInv, [Next]_vars, NEW d \in Daemon, at[d] \in Looping
      PROVE  at'[d] \in Looping \/ Kill(d)
  <2>1. CASE UNCHANGED vars
    BY <1>1, <2>1 DEF vars
  <2>2. ASSUME NEW e \in Daemon, Launch(e) \/ Start(e)
        PROVE  at'[d] \in Looping
    BY <1>1, <2>2 DEF IInv, Kept, Launch, Start, Unlink, Bind, BindFails, Listen, Looping
  <2>3. ASSUME NEW e \in Daemon, Loop(e)
        PROVE  at'[d] \in Looping
    BY <1>1, <2>3 DEF IInv, Kept, Loop, Accept, Receive, EndOfFile, NoCommand, Handle, Send, Sent,
                      CloseConnection, Looping
  <2>4. ASSUME NEW e \in Daemon, Kill(e)
        PROVE  at'[d] \in Looping \/ Kill(d)
    BY <1>1, <2>4 DEF IInv, Kept, Kill
  <2>5. ASSUME NEW c \in Client, Ask(c) \/ Quit(c)
        PROVE  at'[d] \in Looping
    BY <1>1, <2>5 DEF Ask, Connect, ConnectFails, Write, Read, Fail, Quit
  <2> QED BY <1>1, <2>1, <2>2, <2>3, <2>4, <2>5 DEF Next
<1>2. IInv /\ [Next]_vars
        => [\A d \in Daemon : at[d] \in Looping => at'[d] \in Looping \/ Kill(d)]_vars
  BY <1>1
<1> QED BY <1>2, IInvariant, PTL DEF Spec, StaysUp
=============================================================================
