--------------------------- MODULE ServerSession ---------------------------
(***************************************************************************)
(* The conversation of a worker with its clients, one after the other, and *)
(* what becomes of the answers: the read loop of WorkerThread (server.cpp  *)
(* 58-125) with its buffer, the stream of bytes from the client, the two   *)
(* writes and SIGPIPE, composed with the queue and the logger of           *)
(* ServerLogger.                                                           *)
(*                                                                         *)
(* A client sends byte by byte, so a read may find a message in part or    *)
(* several at once.  read takes what has come, up to the buffer's size.    *)
(***************************************************************************)
EXTENDS ServerLogger

CONSTANTS
    MAX_MSG_LENGTH,     \* the size of buff
    CAN_LINEBREAK,      \* -linebreak=true
    Characters,         \* the bytes clients send
    Removable,          \* removable_chars: \n, \t, \r and the blank
    NUL,                \* the null byte
    Garbage,            \* what uninitialised memory holds, if not NUL
    Clients, Bytes      \* bounds: clients of a worker, bytes of each client

ASSUME LengthAssumption == MAX_MSG_LENGTH \in Nat \ {0}
ASSUME LinebreakAssumption == CAN_LINEBREAK \in BOOLEAN
ASSUME RemovableAssumption == NUL \notin Removable /\ Garbage \notin Characters
ASSUME SessionBoundsAssumption ==
    Clients \in Nat /\ Bytes \in Nat /\ Clients * Bytes <= Messages

VARIABLES
    phase,          \* where in the loop a worker at "read" is
    connection,     \* its end of the client's connection
    stream,         \* bytes the client has sent and nobody has read
    served, sent,   \* clients it has taken, bytes the last of them has sent
    buff,           \* its buffer
    message,        \* the length bytes of the last read
    left_over,      \* a message was skipped and its bytes are still in buff
    left_early,     \* the client closed with a message not answered
    killed          \* SIGPIPE has ended the server

session_vars == <<phase, connection, stream, served, sent, buff, message,
                  left_over, left_early, killed>>
all_vars == <<vars, session_vars>>

Memory == Characters \union {NUL, Garbage}
Zeros == [i \in 1..MAX_MSG_LENGTH |-> NUL]

SessionInit ==
    /\ Init
    /\ phase = [w \in Workers |-> "accept"]
    /\ connection = [w \in Workers |-> "none"]
    /\ stream = [w \in Workers |-> <<>>]
    /\ served = [w \in Workers |-> 0]
    /\ sent = [w \in Workers |-> 0]
    /\ buff \in [Workers -> [1..MAX_MSG_LENGTH -> {NUL, Garbage}]]
    /\ message = [w \in Workers |-> <<>>]
    /\ left_over = [w \in Workers |-> FALSE]
    /\ left_early = [w \in Workers |-> FALSE]
    /\ killed = FALSE

Enter(w, place) == phase' = [phase EXCEPT ![w] = place]

-----------------------------------------------------------------------------
(* the client of worker w *)

(* It comes to the front of worker_queue and the worker takes it.          *)
Connect(w) ==
    /\ phase[w] = "accept" /\ served[w] < Clients
    /\ served' = [served EXCEPT ![w] = @ + 1]
    /\ sent' = [sent EXCEPT ![w] = 0]
    /\ connection' = [connection EXCEPT ![w] = "open"]
    /\ left_early' = [left_early EXCEPT ![w] = FALSE]
    /\ Enter(w, "read")
    /\ UNCHANGED <<vars, stream, buff, message, left_over, killed>>

Send(w, c) ==
    /\ connection[w] = "open" /\ sent[w] < Bytes
    /\ sent' = [sent EXCEPT ![w] = @ + 1]
    /\ stream' = [stream EXCEPT ![w] = Append(@, c)]
    /\ UNCHANGED <<vars, phase, connection, served, buff, message, left_over,
                   left_early, killed>>

(* It closes: with a FIN, or, when it has left an answer unread, a RST.    *)
Close(w) ==
    /\ connection[w] = "open"
    /\ \E how \in {"closed", "reset"} :
          connection' = [connection EXCEPT ![w] = how]
    /\ left_early' = [left_early EXCEPT ![w] =
                        stream[w] # <<>> \/ phase[w] = "answer"]
    /\ UNCHANGED <<vars, phase, stream, served, sent, buff, message,
                   left_over, killed>>

-----------------------------------------------------------------------------
(* worker w *)

(* The last of the length bytes is overwritten with NUL if it is           *)
(* removable, that one only.                                               *)
Strip(b, length) == [b EXCEPT ![length] = IF @ \in Removable THEN NUL ELSE @]

Overlay(b, m) ==
    [i \in 1..MAX_MSG_LENGTH |-> IF i <= Len(m) THEN m[i] ELSE b[i]]

(* The C strings that buff may be: without a NUL it goes on behind buff.   *)
Words(b) ==
    LET ends == {i \in 1..MAX_MSG_LENGTH : b[i] = NUL}
    IN  IF ends # {} THEN {SubSeq(b, 1, Min(ends) - 1)}
        ELSE {b, Append(b, Garbage)}

Read(w) ==
    /\ pc[w] = "read" /\ phase[w] = "read" /\ stream[w] # <<>>
    /\ LET length == Min({Len(stream[w]), MAX_MSG_LENGTH})
           m == SubSeq(stream[w], 1, length)
       IN  /\ message' = [message EXCEPT ![w] = m]
           /\ stream' = [stream EXCEPT
                           ![w] = SubSeq(@, length + 1, Len(@))]
           /\ buff' = [buff EXCEPT ![w] = Strip(Overlay(@, m), length)]
    /\ UNCHANGED <<vars, connection, served, sent, left_early, killed>>

ReceiveWord(w) ==
    /\ Read(w)
    /\ buff'[w][1] # NUL
    /\ Enter(w, "answer")
    /\ UNCHANGED left_over

(* strlen(buff) is 0: continue, without bzero.                             *)
SkipMessage(w) ==
    /\ Read(w)
    /\ buff'[w][1] = NUL
    /\ left_over' = [left_over EXCEPT ![w] = @ \/ Len(message'[w]) > 1]
    /\ UNCHANGED phase

(* A loop that goes on after read has returned 0, to its continue.         *)
EndOfStreamIgnored(w) ==
    /\ pc[w] = "read" /\ phase[w] = "read"
    /\ stream[w] = <<>> /\ connection[w] \notin {"none", "open"}
    /\ UNCHANGED all_vars

(* read returns 0 or fails; the descriptor is not closed.                  *)
EndOfStream(w) ==
    /\ pc[w] = "read" /\ phase[w] = "read"
    /\ stream[w] = <<>> /\ connection[w] \notin {"none", "open"}
    /\ connection' = [connection EXCEPT ![w] = "none"]
    /\ Enter(w, "accept")
    /\ UNCHANGED <<vars, stream, served, sent, buff, message, left_over,
                   left_early, killed>>

(***************************************************************************)
(* write.  The peer of a closed connection answers it with a RST, which    *)
(* breaks the connection sooner or later.  The first write after a RST     *)
(* that came by itself only fails; one to a broken connection is SIGPIPE,  *)
(* and nobody has changed what that does.                                  *)
(***************************************************************************)
Write(w) ==
    \/ /\ connection[w] = "open"
       /\ UNCHANGED <<connection, killed>>
    \/ /\ connection[w] = "closed"
       /\ \E next \in {"closed", "broken"} :
             connection' = [connection EXCEPT ![w] = next]
       /\ UNCHANGED killed
    \/ /\ connection[w] = "reset"
       /\ connection' = [connection EXCEPT ![w] = "broken"]
       /\ UNCHANGED killed
    \/ /\ connection[w] = "broken"
       /\ killed' = TRUE
       /\ UNCHANGED connection

AfterWrite(w) ==
    IF killed' THEN UNCHANGED <<phase, vars>>
    ELSE Enter(w, "read") /\ Answer(w)

WriteAnswer(w) ==
    /\ phase[w] = "answer"
    /\ Write(w)
    /\ IF CAN_LINEBREAK /\ ~killed'
       THEN Enter(w, "linebreak") /\ UNCHANGED vars
       ELSE AfterWrite(w)
    /\ UNCHANGED <<stream, served, sent, buff, message, left_over, left_early>>

(* The two line breaks are written one by one.                             *)
WriteLinebreaksApart(w) ==
    /\ phase[w] = "linebreak"
    /\ Write(w)
    /\ \/ AfterWrite(w)
       \/ UNCHANGED <<phase, vars>>
    /\ UNCHANGED <<stream, served, sent, buff, message, left_over, left_early>>

WriteLinebreak(w) ==
    /\ phase[w] = "linebreak"
    /\ Write(w)
    /\ AfterWrite(w)
    /\ UNCHANGED <<stream, served, sent, buff, message, left_over, left_early>>

(* The buffer is left as it is.                                            *)
SignalAndKeepBuffer(w) ==
    /\ SignalLogger(w)
    /\ left_over' = [left_over EXCEPT ![w] = FALSE]
    /\ message' = [message EXCEPT ![w] = <<>>]
    /\ UNCHANGED <<phase, connection, stream, served, sent, buff, left_early,
                   killed>>

(* pthread_cond_signal, then bzero.                                        *)
SignalAndClear(w) ==
    /\ SignalLogger(w)
    /\ buff' = [buff EXCEPT ![w] = Zeros]
    /\ left_over' = [left_over EXCEPT ![w] = FALSE]
    /\ message' = [message EXCEPT ![w] = <<>>]
    /\ UNCHANGED <<phase, connection, stream, served, sent, left_early, killed>>

-----------------------------------------------------------------------------
ClientStep(w) ==
    \/ Connect(w) \/ Close(w)
    \/ \E c \in Characters : Send(w, c)

SessionStep(w) ==
    \/ ReceiveWord(w) \/ SkipMessage(w) \/ EndOfStream(w)
    \/ WriteAnswer(w) \/ WriteLinebreak(w) \/ SignalAndClear(w)
    \/ /\ LoadFinish(w) \/ MoveMap(w) \/ ConstructWord(w)
          \/ ConstructResult(w) \/ LoadIncrement(w) \/ StoreIncrement(w)
       /\ UNCHANGED session_vars

SessionNext ==
    /\ ~killed
    /\ \/ LoggerStep /\ UNCHANGED session_vars
       \/ \E w \in Workers : ClientStep(w) \/ SessionStep(w)

SessionSpec == SessionInit /\ [][SessionNext]_all_vars

(* Threads are scheduled and write does not block; a client may keep its   *)
(* worker waiting for ever.                                                *)
FairSession ==
    /\ SessionSpec
    /\ WF_all_vars(~killed /\ LoggerStep /\ UNCHANGED session_vars)
    /\ \A w \in Workers : WF_all_vars(~killed /\ SessionStep(w))

-----------------------------------------------------------------------------
(* Buffers, streams and connections hold what server.cpp 59-124 can put    *)
(* there, beside the types of ServerLogger.                                *)
SessionTypeOK ==
    /\ TypeOK
    /\ phase \in [Workers -> {"accept", "read", "answer", "linebreak"}]
    /\ connection \in [Workers -> {"none", "open", "closed", "reset", "broken"}]
    /\ stream \in [Workers -> Seq(Characters)]
    /\ served \in [Workers -> 0..Clients] /\ sent \in [Workers -> 0..Bytes]
    /\ buff \in [Workers -> [1..MAX_MSG_LENGTH -> Memory]]
    /\ message \in [Workers -> Seq(Characters)]
    /\ left_over \in [Workers -> BOOLEAN] /\ left_early \in [Workers -> BOOLEAN]
    /\ killed \in BOOLEAN
    /\ \A w \in Workers : phase[w] \in {"answer", "linebreak"} => pc[w] = "read"

(* What the client meant: its bytes, less one removable one, up to a NUL.  *)
UpToNul(s) ==
    LET nuls == {i \in 1..Len(s) : s[i] = NUL}
    IN  IF nuls = {} THEN s ELSE SubSeq(s, 1, Min(nuls) - 1)

Text(m) == UpToNul(IF Last(m) \in Removable THEN Front(m) ELSE m)

(***************************************************************************)
(* "so we don't contain remnants of previous messages" (server.cpp 120):   *)
(* the word looked up is the message just read and nothing else, once the  *)
(* worker has answered anybody, for a message shorter than the buffer and  *)
(* unless one that began with a NUL has just been skipped.                 *)
(***************************************************************************)
WordIsTheMessage ==
    \A w \in Workers :
       (/\ phase[w] = "answer" /\ answered[w] > 0
        /\ Len(message[w]) < MAX_MSG_LENGTH /\ ~left_over[w])
       => Words(buff[w]) = {Text(message[w])}

(***************************************************************************)
(* "This entire process is maintained until the server is closed" (writeup *)
(* 37), unless a client leaves before all its messages are answered: one   *)
(* that waits for its answer cannot end the server, with or without line   *)
(* breaks (server.cpp 106-110).                                            *)
(***************************************************************************)
OnlyLeavingEarlyKills == killed => \E w \in Workers : left_early[w]

(* A worker comes back to the queue when its client has gone, after all    *)
(* the bytes the client has sent (server.cpp 79, 124).                     *)
WorkerIsFreed ==
    \A w \in Workers :
       (connection[w] \in {"closed", "reset"})
          ~> (killed \/ (connection[w] = "none" /\ stream[w] = <<>>))

(* A signal that finds the logger waiting makes it log all that is queued, *)
(* earlier entries whose signal was missed included, if the server lives   *)
(* and the deque is whole (server.cpp 117-119, 176-183).                   *)
SignalDrains ==
    \A w \in Workers :
       (logger_pc = "waiting" /\ pc[w] = "signal")
          ~> (killed \/ raced \/ start = finish)
=============================================================================
