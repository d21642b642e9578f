--------------------------------- MODULE Ipc ---------------------------------
(***************************************************************************)
(* The Unix socket of lib/ipc/ipc.hpp: the main loop of the daemon serves  *)
(* one connection at a time, a client sends one line and reads one line.   *)
(* Reads and writes move any part of a line, a client may go away and a    *)
(* daemon may be killed at any time, and more than one daemon may be       *)
(* started on the same socket path.                                        *)
(*                                                                         *)
(* A read or write that is interrupted is tried again: a stuttering step.  *)
(***************************************************************************)
EXTENDS Naturals, Sequences, FiniteSets

CONSTANTS
  Client,
  Daemon,
  None,
  Requests,  \* which commands the clients may want to send: [Client -> command]
  Answer(_), \* what the dispatcher returns for a command
  Word,      \* the pieces a command or an answer is made of, line breaks aside
  ChunkSize, \* how much one read returns at most
  Backlog    \* how many connections may wait to be accepted

Newline == "\n"
Text == Seq(Word \union {Newline})

-----------------------------------------------------------------------------
(* Lines.                                                                  *)

Packet(line) == Append(line, Newline)

\* One read of receive.
Chunk(stream) ==
  IF Len(stream) < ChunkSize THEN stream ELSE SubSeq(stream, 1, ChunkSize)

Unread(stream) == SubSeq(stream, Len(Chunk(stream)) + 1, Len(stream))

Newlines(chunk) == {i \in DOMAIN chunk : chunk[i] = Newline}

SawNewline(chunk) == Newlines(chunk) # {}

UpToNewline(chunk) ==
  IF SawNewline(chunk)
  THEN SubSeq(chunk, 1, (CHOOSE i \in Newlines(chunk) : \A j \in Newlines(chunk) : i <= j) - 1)
  ELSE chunk

ASSUME NoneAssumption == None \notin Client \union Daemon /\ Client \intersect Daemon = {}
ASSUME SizeAssumption == ChunkSize \in Nat \ {0} /\ Backlog \in Nat \ {0}
\* Nothing keeps line breaks out of an argument of occlude, or out of the answer to
\* CURRENT, which is what the getter prints less one line break at its end.
ASSUME TextAssumption ==
  /\ Requests \subseteq [Client -> Text]
  /\ \A r \in Requests : \A c \in Client : Answer(UpToNewline(r[c])) \in Text

VARIABLES
  request, \* the command each client sends
  path,      \* the daemon whose socket is at the socket path, or None
  at,      \* where each daemon is
  queue,   \* the connections that wait to be accepted
  conn,    \* the client a daemon serves, or None
  phase,   \* where each client is
  link,    \* the daemon that holds the other end of a client's connection, or None
  up,      \* what a client wrote and the daemon has not read
  down,    \* what the daemon wrote and the client has not read
  text,    \* of either: the line received so far, or what is left to send
  handled  \* the commands executed, with the client they came from

vars == <<request, path, at, queue, conn, phase, link, up, down, text, handled>>

Launching == {"unlink", "bind", "listen"}
Looping   == {"accept", "receive", "handle", "send"}
Ended     == {"answered", "failed", "gone"}

Open(c) == phase[c] \in {"sending", "reading"}

Init ==
  /\ request \in Requests
  /\ path = None
  /\ at = [d \in Daemon |-> "down"]
  /\ queue = [d \in Daemon |-> << >>]
  /\ conn = [d \in Daemon |-> None]
  /\ phase = [c \in Client |-> "idle"]
  /\ link = [c \in Client |-> None]
  /\ up = [c \in Client |-> << >>]
  /\ down = [c \in Client |-> << >>]
  /\ text = [p \in Client \union Daemon |-> << >>]
  /\ handled = {}

-----------------------------------------------------------------------------
(* Starting a daemon: Server::create.                                      *)

Launch(d) ==
  /\ at[d] = "down"
  /\ at' = [at EXCEPT ![d] = "unlink"]
  /\ UNCHANGED <<request, path, queue, conn, phase, link, up, down, text, handled>>

\* Whatever is at the path is removed, the socket of a running daemon too.
Unlink(d) ==
  /\ at[d] = "unlink"
  /\ path' = None
  /\ at' = [at EXCEPT ![d] = "bind"]
  /\ UNCHANGED <<request, queue, conn, phase, link, up, down, text, handled>>

Bind(d) ==
  /\ at[d] = "bind"
  /\ path = None
  /\ path' = d
  /\ at' = [at EXCEPT ![d] = "listen"]
  /\ UNCHANGED <<request, queue, conn, phase, link, up, down, text, handled>>

\* Another daemon was faster.  The Server is destroyed, which unlinks the path; the
\* daemon ends.
BindFails(d) ==
  /\ at[d] = "bind"
  /\ path # None
  /\ path' = None
  /\ at' = [at EXCEPT ![d] = "down"]
  /\ UNCHANGED <<request, queue, conn, phase, link, up, down, text, handled>>

Listen(d) ==
  /\ at[d] = "listen"
  /\ at' = [at EXCEPT ![d] = "accept"]
  /\ UNCHANGED <<request, path, queue, conn, phase, link, up, down, text, handled>>

-----------------------------------------------------------------------------
(* The main loop.                                                          *)

Accept(d) ==
  /\ at[d] = "accept"
  /\ queue[d] # << >>
  /\ conn' = [conn EXCEPT ![d] = Head(queue[d])]
  /\ queue' = [queue EXCEPT ![d] = Tail(@)]
  /\ at' = [at EXCEPT ![d] = "receive"]
  /\ UNCHANGED <<request, path, phase, link, up, down, text, handled>>

\* The Connection goes out of scope.
CloseConnection(d) ==
  /\ link' = [link EXCEPT ![conn[d]] = None]
  /\ conn' = [conn EXCEPT ![d] = None]
  /\ text' = [text EXCEPT ![d] = << >>]
  /\ at' = [at EXCEPT ![d] = "accept"]

\* One read that returns something: up to the newline it belongs to the command,
\* and what follows the newline is dropped.
Receive(d) ==
  LET c == conn[d]
      chunk == Chunk(up[c])
  IN /\ at[d] = "receive"
     /\ up[c] # << >>
     /\ up' = [up EXCEPT ![c] = Unread(@)]
     /\ text' = [text EXCEPT ![d] = @ \o UpToNewline(chunk)]
     /\ at' = [at EXCEPT ![d] = IF SawNewline(chunk) THEN "handle" ELSE @]
     /\ UNCHANGED <<request, path, queue, conn, phase, link, down, handled>>

\* Mutants of EndOfFile: read is tried again as after an interrupt; what came before
\* the client left is taken for the command.
EndOfFileRetries(d) ==
  /\ at[d] = "receive"
  /\ up[conn[d]] = << >> /\ ~Open(conn[d])
  /\ UNCHANGED vars

EndOfFileHandles(d) ==
  /\ at[d] = "receive"
  /\ up[conn[d]] = << >> /\ ~Open(conn[d])
  /\ at' = [at EXCEPT ![d] = "handle"]
  /\ UNCHANGED <<request, path, queue, conn, phase, link, up, down, text, handled>>

\* The client went away before its line was complete.
EndOfFile(d) ==
  /\ at[d] = "receive"
  /\ up[conn[d]] = << >> /\ ~Open(conn[d])
  /\ CloseConnection(d)
  /\ UNCHANGED <<request, path, queue, phase, up, down, handled>>

\* An empty line is no command and has no answer.
NoCommand(d) ==
  /\ at[d] = "handle"
  /\ text[d] = << >>
  /\ CloseConnection(d)
  /\ UNCHANGED <<request, path, queue, phase, up, down, handled>>

\* The handler returns or throws; both lead to an answer.
Handle(d) ==
  /\ at[d] = "handle"
  /\ text[d] # << >>
  /\ handled' = handled \union {<<conn[d], text[d]>>}
  /\ text' = [text EXCEPT ![d] = Packet(Answer(@))]
  /\ at' = [at EXCEPT ![d] = "send"]
  /\ UNCHANGED <<request, path, queue, conn, phase, link, up, down>>

\* One write of send: the part of the answer the socket takes.
Send(d) ==
  /\ at[d] = "send"
  /\ text[d] # << >> /\ Open(conn[d])
  /\ \E n \in 1..Len(text[d]) :
       /\ down' = [down EXCEPT ![conn[d]] = @ \o SubSeq(text[d], 1, n)]
       /\ text' = [text EXCEPT ![d] = SubSeq(@, n + 1, Len(@))]
  /\ UNCHANGED <<request, path, at, queue, conn, phase, link, up, handled>>

\* Mutants of Sent: the Connection is kept; SIGPIPE is not ignored.
SentKeepsConnection(d) ==
  /\ at[d] = "send"
  /\ text[d] = << >> \/ ~Open(conn[d])
  /\ at' = [at EXCEPT ![d] = "accept"]
  /\ UNCHANGED <<request, path, queue, conn, phase, link, up, down, text, handled>>

SentOrSignal(d) ==
  /\ at[d] = "send"
  /\ text[d] = << >> \/ ~Open(conn[d])
  /\ link' = [link EXCEPT ![conn[d]] = None]
  /\ conn' = [conn EXCEPT ![d] = None]
  /\ text' = [text EXCEPT ![d] = << >>]
  /\ at' = [at EXCEPT ![d] = IF text[d] = << >> THEN "accept" ELSE "down"]
  /\ UNCHANGED <<request, path, queue, phase, up, down, handled>>

\* The answer is sent, or the client is gone and the write fails: SIGPIPE is ignored
\* and so is the error.
Sent(d) ==
  /\ at[d] = "send"
  /\ text[d] = << >> \/ ~Open(conn[d])
  /\ CloseConnection(d)
  /\ UNCHANGED <<request, path, queue, phase, up, down, handled>>

\* The daemon is killed.  The file of its socket stays.
Kill(d) ==
  /\ at[d] # "down"
  /\ at' = [at EXCEPT ![d] = "down"]
  /\ link' = [c \in Client |-> IF link[c] = d THEN None ELSE link[c]]
  /\ queue' = [queue EXCEPT ![d] = << >>]
  /\ conn' = [conn EXCEPT ![d] = None]
  /\ text' = [text EXCEPT ![d] = << >>]
  /\ UNCHANGED <<request, path, phase, up, down, handled>>

-----------------------------------------------------------------------------
(* A client: occlude, or the TUI for each of its commands.                 *)

Listener == {d \in Daemon : path = d /\ at[d] \in Looping}

Connect(c) ==
  /\ phase[c] = "idle"
  /\ \E d \in Listener :
       /\ Len(queue[d]) < Backlog
       /\ link' = [link EXCEPT ![c] = d]
       /\ queue' = [queue EXCEPT ![d] = Append(@, c)]
  /\ text' = [text EXCEPT ![c] = Packet(request[c])]
  /\ phase' = [phase EXCEPT ![c] = "sending"]
  /\ UNCHANGED <<request, path, at, conn, up, down, handled>>

ConnectFails(c) ==
  /\ phase[c] = "idle"
  /\ Listener = {}
  /\ phase' = [phase EXCEPT ![c] = "failed"]
  /\ UNCHANGED <<request, path, at, queue, conn, link, up, down, text, handled>>

Write(c) ==
  /\ phase[c] = "sending"
  /\ link[c] # None
  /\ \E n \in 1..Len(text[c]) :
       /\ up' = [up EXCEPT ![c] = @ \o SubSeq(text[c], 1, n)]
       /\ text' = [text EXCEPT ![c] = SubSeq(@, n + 1, Len(@))]
       /\ phase' = [phase EXCEPT ![c] = IF n = Len(text[c]) THEN "reading" ELSE @]
  /\ UNCHANGED <<request, path, at, queue, conn, link, down, handled>>

\* Mutant of Read: what the first read returns is the answer.
ReadOnce(c) ==
  /\ phase[c] = "reading"
  /\ down[c] # << >>
  /\ down' = [down EXCEPT ![c] = Unread(@)]
  /\ text' = [text EXCEPT ![c] = @ \o UpToNewline(Chunk(down[c]))]
  /\ phase' = [phase EXCEPT ![c] = "answered"]
  /\ UNCHANGED <<request, path, at, queue, conn, link, up, handled>>

Read(c) ==
  /\ phase[c] = "reading"
  /\ down[c] # << >>
  /\ down' = [down EXCEPT ![c] = Unread(@)]
  /\ text' = [text EXCEPT ![c] = @ \o UpToNewline(Chunk(down[c]))]
  /\ phase' = [phase EXCEPT ![c] = IF SawNewline(Chunk(down[c])) THEN "answered" ELSE @]
  /\ UNCHANGED <<request, path, at, queue, conn, link, up, handled>>

\* The other end is closed: the write fails, or the line ends early.
Fail(c) ==
  /\ link[c] = None
  /\ phase[c] = "sending" \/ (phase[c] = "reading" /\ down[c] = << >>)
  /\ phase' = [phase EXCEPT ![c] = "failed"]
  /\ UNCHANGED <<request, path, at, queue, conn, link, up, down, text, handled>>

\* The user interrupts the client.
Quit(c) ==
  /\ Open(c)
  /\ phase' = [phase EXCEPT ![c] = "gone"]
  /\ UNCHANGED <<request, path, at, queue, conn, link, up, down, text, handled>>

-----------------------------------------------------------------------------
Start(d) == Unlink(d) \/ Bind(d) \/ BindFails(d) \/ Listen(d)

Loop(d) ==
  Accept(d) \/ Receive(d) \/ EndOfFile(d) \/ NoCommand(d) \/ Handle(d) \/ Send(d) \/ Sent(d)

Ask(c) == Connect(c) \/ ConnectFails(c) \/ Write(c) \/ Read(c) \/ Fail(c)

Next ==
  \/ \E d \in Daemon : Launch(d) \/ Start(d) \/ Loop(d) \/ Kill(d)
  \/ \E c \in Client : Ask(c) \/ Quit(c)

Spec == Init /\ [][Next]_vars

\* Daemons and clients run on, handlers return, and a client that is not interrupted
\* sends what it has to send.
FairSpec == /\ Spec
            /\ \A d \in Daemon : WF_vars(Loop(d))
            /\ \A c \in Client : WF_vars(Ask(c))

-----------------------------------------------------------------------------
(* Properties.                                                             *)

\* Both ends agree who is connected to whom: a client is linked to a daemon while it
\* waits in its queue or is being served by it, and nowhere else.
Waiting(d) == {queue[d][i] : i \in DOMAIN queue[d]}

TypeOK ==
  /\ request \in Requests
  /\ path \in Daemon \union {None}
  /\ at \in [Daemon -> {"down"} \union Launching \union Looping]
  /\ conn \in [Daemon -> Client \union {None}]
  /\ phase \in [Client -> {"idle", "sending", "reading"} \union Ended]
  /\ \A d \in Daemon :
       /\ at[d] \in {"receive", "handle", "send"} <=> conn[d] # None
       /\ Len(queue[d]) <= Backlog
       /\ {c \in Client : link[c] = d} = Waiting(d) \union ({conn[d]} \ {None})
       /\ conn[d] \notin Waiting(d) /\ Cardinality(Waiting(d)) = Len(queue[d])

\* Of a request that has line breaks in it the daemon reads the first line, and of
\* an answer that has, the client.
Command(c) == UpToNewline(request[c])
Reply(c) == Answer(Command(c))

\* A line is executed whole or not at all: however a command is cut into pieces, and
\* even if its client leaves in the middle of it, no daemon executes a part of it.
WholeCommands == \A h \in handled : h[2] = Command(h[1])

\* The line a client takes is the whole first line of the answer to its own command,
\* which was executed: never one meant for another client, nor what an earlier one
\* left unread.
OwnAnswer ==
  \A c \in Client :
    phase[c] = "answered" =>
      text[c] = UpToNewline(Reply(c)) /\ <<c, Command(c)>> \in handled

\* No client, whatever it does, ends the daemon: only a kill takes it out of its loop.
StaysUp ==
  [][\A d \in Daemon : at[d] \in Looping => at'[d] \in Looping \/ Kill(d)]_vars

\* One connection at a time is enough: as long as no client holds its line back, every
\* client that got a connection gets an answer or is told that there is none.
Concluded == \A c \in Client : Open(c) ~> phase[c] \in Ended
=============================================================================
