---------------------------- MODULE RpcConnection ----------------------------
(***************************************************************************)
(* One connection of the server.                                           *)
(*                                                                         *)
(*   src/src/kernel/protocol/tcp.rs       process_socket                   *)
(*   src/src/kernel/protocol/rpcwire.rs   read_fragment, write_fragment,   *)
(*                                        SocketMessageHandler             *)
(*                                                                         *)
(* Three kinds of tasks work on it.  The task of the socket moves what the *)
(* client sends into a pipe of bounded size, and replies to the client; it *)
(* does one of the two at a time.  The reader takes fragments out of the   *)
(* pipe and puts records together, and starts a task for each record.      *)
(* That task handles the call and queues the reply.                        *)
(*                                                                         *)
(* The wire carries tokens: the header of a fragment, or one unit of data  *)
(* with its place in the record, both marked with the number of the call.  *)
(* A record is Size units long, and comes in one fragment or in two.       *)
(***************************************************************************)
EXTENDS RpcDispatch, Functions

CONSTANTS
  Calls,      \* the calls that a client makes
  MaxCalls,   \* bound: the calls of one connection
  Size,       \* the units of data of a record
  Cuts,       \* the places where a record is cut in two, None for a record in one piece
  ChunkCap,   \* the tokens that one read of the socket takes, 128000 bytes in the code
  PipeCap,    \* the tokens that the pipe holds, 256000 bytes in the code
  OutCap,     \* the replies that the sockets hold on their way to the client
  None

ASSUME ConnectionAssumption ==
  /\ Calls \subseteq Call
  /\ MaxCalls \in Nat /\ Size \in Nat \ {0}
  /\ Cuts \subseteq (0..Size) \cup {None} /\ None \notin Nat
  /\ {ChunkCap, PipeCap, OutCap} \subseteq Nat \ {0}

VARIABLES
  sent,      \* the calls of the client, in their order
  wire,      \* what the client has sent and the server has not read
  hungUp,    \* the client sends nothing more, and may be gone
  taken,     \* the records of replies that the client has
  main,      \* the task of the socket
  chunk,     \* what it has read and is writing into the pipe
  reply,     \* the reply that it is writing to the socket, or None
  out,       \* the replies on their way to the client
  pipe,      \* socket_receive_channel
  reader,    \* the task that loops over read()
  left,      \* how much of the fragment is missing
  last,      \* whether it is the last one of its record
  fragment,  \* cur_fragment
  tasks,     \* the tasks of the records, in the order in which they were started
  replies    \* reply_send_channel: the number of the task

client    == <<sent, wire, hungUp, taken>>
socket    == <<main, chunk, reply, out>>
assembly  == <<reader, left, last, fragment>>
connected == <<client, socket>>
vars      == <<client, socket, pipe, assembly, tasks, replies>>

Ids    == 1..MaxCalls
Heads  == [call : Ids, length : 0..Size, last : BOOLEAN]
Bytes  == [call : Ids, place : 1..Size]
Tokens == Heads \cup Bytes

Payload(i) == [p \in 1..Size |-> [call |-> i, place |-> p]]

Header(i, n, l) == <<[call |-> i, length |-> n, last |-> l]>>

\* A record on the wire.
Encode(i, cut) ==
  IF cut = None THEN Header(i, Size, TRUE) \o Payload(i)
  ELSE Header(i, cut, FALSE) \o SubSeq(Payload(i), 1, cut)
         \o Header(i, Size - cut, TRUE) \o SubSeq(Payload(i), cut + 1, Size)

Task == [record : Seq(Bytes), end : {"running", "reply", "error", "panic"},
         messages : Seq(Statuses), asked : Seq(Statuses)]

Init ==
  /\ sent = <<>> /\ wire = <<>> /\ hungUp = FALSE /\ taken = <<>>
  /\ main = "select" /\ chunk = <<>> /\ reply = None /\ out = <<>>
  /\ pipe = <<>>
  /\ reader = "header" /\ left = 0 /\ last = FALSE /\ fragment = <<>>
  /\ tasks = <<>> /\ replies = <<>>

-----------------------------------------------------------------------------
(***************************************************************************)
(* The client.                                                             *)
(***************************************************************************)
Send(c, cut) ==
  /\ ~hungUp
  /\ Len(sent) < MaxCalls
  /\ sent' = Append(sent, c)
  /\ wire' = wire \o Encode(Len(sent) + 1, cut)
  /\ UNCHANGED <<hungUp, taken, socket, pipe, assembly, tasks, replies>>

HangUp ==
  /\ ~hungUp
  /\ hungUp' = TRUE
  /\ UNCHANGED <<sent, wire, taken, socket, pipe, assembly, tasks, replies>>

Take ==
  /\ out # <<>>
  /\ taken' = Append(taken, Head(out))
  /\ out' = Tail(out)
  /\ UNCHANGED <<sent, wire, hungUp, main, chunk, reply, pipe, assembly, tasks, replies>>

-----------------------------------------------------------------------------
(***************************************************************************)
(* The task of the socket: select! between the socket and the replies.     *)
(***************************************************************************)
ReadSocket(n) ==
  /\ main = "select"
  /\ n \in 1..Len(wire) /\ n <= ChunkCap
  /\ chunk' = SubSeq(wire, 1, n)
  /\ wire' = SubSeq(wire, n + 1, Len(wire))
  /\ main' = "copy"
  /\ UNCHANGED <<sent, hungUp, taken, reply, out, pipe, assembly, tasks, replies>>

\* write_all waits for room in the pipe, and nothing else happens until it is done.
Least(m, n) == IF m < n THEN m ELSE n

Copy ==
  LET n == Least(Len(chunk), PipeCap - Len(pipe))
  IN  /\ main = "copy"
      /\ n > 0
      /\ pipe' = pipe \o SubSeq(chunk, 1, n)
      /\ chunk' = SubSeq(chunk, n + 1, Len(chunk))
      /\ main' = IF n = Len(chunk) THEN "select" ELSE "copy"
      /\ UNCHANGED <<client, reply, out, assembly, tasks, replies>>

\* process_socket returns: the socket and both ends of the channels are dropped, and
\* with them the replies that are queued.
Close ==
  /\ main' = "closed"
  /\ wire' = <<>>
  /\ replies' = <<>>

\* The socket is at its end, or broken.
EndOfInput ==
  /\ main = "select"
  /\ hungUp
  /\ Close
  /\ UNCHANGED <<sent, hungUp, taken, chunk, reply, out, pipe, assembly, tasks>>

\* Mutant of TakeReply: the reply stays in the queue until it has been written.
TakeReplyPeeking ==
  /\ main = "select" /\ replies # <<>>
  /\ IF tasks[Head(replies)].end = "error" THEN Close /\ UNCHANGED reply
     ELSE /\ main' = "write" /\ reply' = Head(replies)
          /\ UNCHANGED <<wire, replies>>
  /\ UNCHANGED <<sent, hungUp, taken, chunk, out, pipe, assembly, tasks>>

\* An error in the place of a reply ends the connection.
TakeReply ==
  /\ main = "select" /\ replies # <<>>
  /\ IF tasks[Head(replies)].end = "error" THEN Close /\ UNCHANGED reply
     ELSE /\ main' = "write" /\ reply' = Head(replies)
          /\ replies' = Tail(replies)
          /\ UNCHANGED wire
  /\ UNCHANGED <<sent, hungUp, taken, chunk, out, pipe, assembly, tasks>>

\* Mutant of WriteReply: a socket without room drops the reply.
WriteReplyDropping ==
  /\ main = "write"
  /\ out' = IF Len(out) < OutCap THEN Append(out, reply) ELSE out
  /\ reply' = None
  /\ main' = "select"
  /\ UNCHANGED <<client, chunk, pipe, assembly, tasks, replies>>

\* write_fragment waits for room in the socket.
WriteReply ==
  /\ main = "write"
  /\ Len(out) < OutCap
  /\ out' = Append(out, reply)
  /\ reply' = None
  /\ main' = "select"
  /\ UNCHANGED <<client, chunk, pipe, assembly, tasks, replies>>

\* The error is only logged.
WriteFails ==
  /\ main = "write"
  /\ hungUp
  /\ reply' = None
  /\ main' = "select"
  /\ UNCHANGED <<client, chunk, out, pipe, assembly, tasks, replies>>

-----------------------------------------------------------------------------
(***************************************************************************)
(* The reader: read_fragment, and what read does with a fragment.          *)
(***************************************************************************)

\* The four bytes of the header are one token.
ReadHeader ==
  /\ reader = "header"
  /\ pipe # <<>>
  /\ left' = Head(pipe).length
  /\ last' = Head(pipe).last
  /\ pipe' = Tail(pipe)
  /\ reader' = "body"
  /\ UNCHANGED <<connected, fragment, tasks, replies>>

\* One read takes what is in the pipe, up to the end of the fragment.
ReadBody ==
  LET n == Least(Len(pipe), left)
  IN  /\ reader = "body"
      /\ left > 0 /\ pipe # <<>>
      /\ fragment' = fragment \o SubSeq(pipe, 1, n)
      /\ pipe' = SubSeq(pipe, n + 1, Len(pipe))
      /\ left' = left - n
      /\ UNCHANGED <<connected, reader, last, tasks, replies>>

\* Mutant of Spawn: cur_fragment is copied and not taken.
SpawnCopying ==
  /\ tasks' = Append(tasks, [record |-> fragment, end |-> "running",
                             messages |-> <<>>, asked |-> <<>>])
  /\ UNCHANGED fragment

Spawn ==
  /\ tasks' = Append(tasks, [record |-> fragment, end |-> "running",
                             messages |-> <<>>, asked |-> <<>>])
  /\ fragment' = <<>>

FragmentDone ==
  /\ reader = "body" /\ left = 0
  /\ reader' = "header"
  /\ IF last THEN Spawn ELSE UNCHANGED <<fragment, tasks>>
  /\ UNCHANGED <<connected, pipe, left, last, replies>>

\* Mutant of ReaderEnds: the reader stops with the task of the socket.
ReaderEndsAtOnce ==
  /\ reader = "header" \/ (reader = "body" /\ left > 0)
  /\ main = "closed"
  /\ reader' = "ended"
  /\ UNCHANGED <<connected, pipe, left, last, fragment, tasks, replies>>

\* The pipe is at its end when the other half is dropped and nothing is left in it.
ReaderEnds ==
  /\ reader = "header" \/ (reader = "body" /\ left > 0)
  /\ main = "closed" /\ pipe = <<>>
  /\ reader' = "ended"
  /\ UNCHANGED <<connected, pipe, left, last, fragment, tasks, replies>>

-----------------------------------------------------------------------------
(***************************************************************************)
(* The task of a record.                                                   *)
(***************************************************************************)
Outcomes == [c \in Calls |-> {HandleRpc(c, fs) : fs \in FsResults}]

\* A record that is not one that the client sent does not decode.
OutcomesOf(r) ==
  IF \E i \in DOMAIN sent : r = Payload(i)
  THEN Outcomes[sent[CHOOSE i \in DOMAIN sent : r = Payload(i)]]
  ELSE {ErrorAfter(<<>>)}

\* Mutant of Queue: an error is logged and not sent.
QueueReplies(i, o) ==
  replies' = IF o.end # "reply" \/ main = "closed" THEN replies ELSE Append(replies, i)

\* The reply or the error goes into the queue.  A task that panics is gone without a
\* word; nobody receives when the connection is closed.
Queue(i, o) ==
  replies' = IF o.end = "panic" \/ main = "closed" THEN replies ELSE Append(replies, i)

Handle(i, o) ==
  /\ tasks[i].end = "running"
  /\ tasks' = [tasks EXCEPT ![i] = [record |-> tasks[i].record, end |-> o.end,
                                     messages |-> o.messages, asked |-> o.asked]]
  /\ Queue(i, o)
  /\ UNCHANGED <<connected, pipe, assembly>>

HandleSome == \E i \in DOMAIN tasks : \E o \in OutcomesOf(tasks[i].record) : Handle(i, o)

Next ==
  \/ \E c \in Calls, cut \in Cuts : Send(c, cut)
  \/ HangUp
  \/ Take
  \/ \E n \in 1..ChunkCap : ReadSocket(n)
  \/ Copy
  \/ EndOfInput
  \/ TakeReply
  \/ WriteReply
  \/ WriteFails
  \/ ReadHeader
  \/ ReadBody
  \/ FragmentDone
  \/ ReaderEnds
  \/ HandleSome

Spec == Init /\ [][Next]_vars

(***************************************************************************)
(* The tasks are scheduled by the runtime, and the file system answers; a  *)
(* client that does not hang up takes its replies.  The task of the socket *)
(* is fair as a whole: which of two ready branches select! takes is        *)
(* random.  Nobody has to call or to hang up.                              *)
(***************************************************************************)
SocketStep ==
  \/ \E n \in 1..ChunkCap : ReadSocket(n)
  \/ Copy \/ EndOfInput \/ TakeReply \/ WriteReply

ReaderStep == ReadHeader \/ ReadBody \/ FragmentDone \/ ReaderEnds

FairSpec ==
  /\ Spec
  /\ WF_vars(SocketStep)
  /\ WF_vars(ReaderStep)
  /\ WF_vars(HandleSome)
  /\ WF_vars(Take)

-----------------------------------------------------------------------------
(***************************************************************************)
(* Properties.                                                             *)
(***************************************************************************)

\* Every variable has the values it should have.
TypeOK ==
  /\ sent \in Seq(Calls) /\ Len(sent) <= MaxCalls
  /\ wire \in Seq(Tokens) /\ hungUp \in BOOLEAN
  /\ main \in {"select", "copy", "write", "closed"}
  /\ chunk \in Seq(Tokens) /\ pipe \in Seq(Tokens) /\ Len(pipe) <= PipeCap
  /\ reply \in Nat \cup {None}
  /\ taken \in Seq(Nat) /\ out \in Seq(Nat) /\ replies \in Seq(Nat)
  /\ reader \in {"header", "body", "ended"}
  /\ left \in 0..Size /\ last \in BOOLEAN /\ fragment \in Seq(Bytes)
  /\ tasks \in Seq(Task)

\* However the pieces arrive, the records that the tasks handle are those that the
\* client sent, in their order, and none is cut, joined to the next one or handed over
\* twice.  SocketMessageHandler::read, rpcwire.rs.
RecordsAreWhole ==
  /\ Len(tasks) <= Len(sent)
  /\ \A i \in DOMAIN tasks : tasks[i].record = Payload(i)

\* A task has at most one reply between the queue and the client, and only when it has
\* ended with a reply or an error.  process_socket, tcp.rs.
Finished == {i \in DOMAIN tasks : tasks[i].end \in {"reply", "error"}}

AnsweredOnce ==
  /\ IsInjective(replies) /\ IsInjective(out) /\ IsInjective(taken)
  /\ Range(replies) \cap Range(out) = {}
  /\ Range(replies) \cap Range(taken) = {}
  /\ Range(out) \cap Range(taken) = {}
  /\ reply \notin Range(replies) \cup Range(out) \cup Range(taken)
  /\ Range(replies) \cup Range(out) \cup Range(taken) \subseteq Finished
  /\ reply # None => reply \in Finished

\* While the connection is up, no reply is dropped between the task and the client.
\* process_socket, tcp.rs.
NoReplyIsLost ==
  main # "closed" /\ ~hungUp
    => Finished \subseteq Range(replies) \cup {reply} \cup Range(out) \cup Range(taken)

\* What a task has written is the one answer to its call, and is true to what the file
\* system answered: a handler asks for at most one change, never for one that it then
\* leaves unanswered, a record carries one message, and that of a call that changes
\* files is a success exactly when the change was asked for and answered with Ok.
\* SETATTR may write a failure in front of its answer, to a ctime that does not match.
\* The handlers of nfs.
Fitting(c, t) ==
  LET n == Len(t.messages)
  IN  /\ Len(t.asked) <= 1
      /\ t.asked # <<>> => t.end = "reply" /\ c.prog = "nfs" /\ c.proc \in Writes
      /\ t.end = "reply"
           => n = 1 \/ (n = 2 /\ c.proc = "setattr" /\ t.messages[1] = "fail")
      /\ t.end = "reply" /\ c.prog = "nfs" /\ c.proc \in Writes
           => (t.messages[n] = "ok" <=> t.asked = <<"ok">>)

AnswersFit == \A i \in DOMAIN tasks : Fitting(sent[i], tasks[i])

\* A call ends with a reply at the client, unless its handler panics or the connection
\* ends; what fills the pipe and the socket does not stop both sides for good.
EveryCallIsAnswered ==
  \A i \in Ids :
    (i \in DOMAIN sent)
      ~> (\/ i \in Range(taken) \/ hungUp \/ main = "closed"
          \/ i \in DOMAIN tasks /\ tasks[i].end = "panic")

\* A record whose last fragment is in the pipe is handled, also when the connection
\* has been closed in the meantime.  SocketMessageHandler::read, rpcwire.rs.
Accepted(i) ==
  \E k \in DOMAIN pipe :
    /\ pipe[k] \in Heads /\ pipe[k].call = i /\ pipe[k].last
    /\ k + pipe[k].length <= Len(pipe)

AcceptedAreRun ==
  \A i \in Ids :
    Accepted(i) ~> (i \in DOMAIN tasks /\ tasks[i].end # "running")

(***************************************************************************)
(* What the code does not keep.                                            *)
(***************************************************************************)

\* One RPC message fits into one record (rpcwire.rs:81): SETATTR with a ctime that does
\* not match writes two.
OneMessagePerRecord ==
  \A i \in DOMAIN tasks : tasks[i].end = "reply" => Len(tasks[i].messages) = 1

\* What a handler has written goes to the client: MNT writes a refusal and ends with an
\* error, which closes the connection in its place (mount_handlers.rs:107).
WrittenIsSent ==
  \A i \in DOMAIN tasks : tasks[i].end = "error" => tasks[i].messages = <<>>
=============================================================================
