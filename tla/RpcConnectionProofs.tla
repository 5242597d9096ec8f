------------------------ MODULE RpcConnectionProofs ------------------------
(***************************************************************************)
(* Theorems about RpcConnection, for every number of calls, every size of  *)
(* the records, of the pipe and of the sockets, and calls of every kind: a *)
(* reply goes out at most once, and none is lost while the connection is   *)
(* up; the records that the tasks handle are those that were sent; and     *)
(* what a task has written is the one answer to its call and true to what  *)
(* the file system answered, which rests on a lemma about the handlers of  *)
(* RpcDispatch.                                                            *)
(***************************************************************************)
EXTENDS RpcConnection, SequenceTheorems, TLAPS

-----------------------------------------------------------------------------
(***************************************************************************)
(* Queues of numbers.                                                      *)
(***************************************************************************)
LEMMA AppendQueue ==
  ASSUME NEW q \in Seq(Nat), NEW x \in Nat
  PROVE  /\ Append(q, x) \in Seq(Nat)
         /\ Range(Append(q, x)) = Range(q) \cup {x}
         /\ IsInjective(q) /\ x \notin Range(q) => IsInjective(Append(q, x))
  <1> DEFINE r == Append(q, x)
  <1>1. /\ r \in Seq(Nat) /\ DOMAIN r = 1..Len(q) + 1
        /\ \A k \in 1..Len(q) : r[k] = q[k]
        /\ r[Len(q) + 1] = x
        /\ DOMAIN q = 1..Len(q) /\ Len(q) \in Nat
    OBVIOUS
  <1> HIDE DEF r
  <1>2. Range(r) = Range(q) \cup {x}
    BY <1>1 DEF Range
  <1>3. ASSUME IsInjective(q), x \notin Range(q)
        PROVE  IsInjective(r)
    <2>1. SUFFICES ASSUME NEW a \in 1..Len(q) + 1, NEW b \in 1..Len(q) + 1, r[a] = r[b]
                   PROVE  a = b
      BY <1>1 DEF IsInjective
    <2>2. CASE a <= Len(q) /\ b <= Len(q)
      BY SMTT(30), <1>1, <1>3, <2>1, <2>2 DEF IsInjective
    <2>3. CASE a <= Len(q) /\ b = Len(q) + 1
      BY <1>1, <1>3, <2>1, <2>3 DEF Range
    <2>4. CASE a = Len(q) + 1 /\ b <= Len(q)
      BY SMTT(30), <1>1, <1>3, <2>1, <2>4 DEF Range
    <2>. QED
      BY SMTT(30), <1>1, <2>2, <2>3, <2>4
  <1>. QED
    BY <1>1, <1>2, <1>3 DEF r

LEMMA TailQueue ==
  ASSUME NEW q \in Seq(Nat), q # <<>>
  PROVE  /\ Head(q) \in Range(q) /\ Head(q) \in Nat
         /\ Tail(q) \in Seq(Nat)
         /\ IsInjective(q) => /\ IsInjective(Tail(q))
                              /\ Range(Tail(q)) = Range(q) \ {Head(q)}
  <1> DEFINE r == Tail(q)
  <1>1. /\ Len(q) \in Nat \ {0} /\ DOMAIN q = 1..Len(q)
        /\ r \in Seq(Nat) /\ DOMAIN r = 1..Len(q) - 1
        /\ \A k \in 1..Len(q) - 1 : r[k] = q[k + 1]
        /\ Head(q) = q[1] /\ Head(q) \in Nat
    OBVIOUS
  <1> HIDE DEF r
  <1>2. Head(q) \in Range(q)
    <2>1. 1 \in DOMAIN q
      BY <1>1
    <2>. QED
      BY <1>1, <2>1, Zenon DEF Range
  <1>3. ASSUME IsInjective(q)
        PROVE  IsInjective(r)
    <2>1. SUFFICES ASSUME NEW a \in 1..Len(q) - 1, NEW b \in 1..Len(q) - 1, r[a] = r[b]
                   PROVE  a = b
      BY <1>1, Zenon DEF IsInjective
    <2>2. /\ a + 1 \in DOMAIN q /\ b + 1 \in DOMAIN q /\ a \in Int /\ b \in Int
          /\ q[a + 1] = q[b + 1]
      BY <1>1, <2>1
    <2>3. a + 1 = b + 1
      BY <1>3, <2>2, Zenon DEF IsInjective
    <2>. QED
      BY <2>2, <2>3
  <1>4. ASSUME IsInjective(q)
        PROVE  Range(r) = Range(q) \ {q[1]}
    <2>1. ASSUME NEW k \in 1..Len(q) - 1
          PROVE  r[k] \in Range(q) /\ r[k] # q[1]
      <3>1. k + 1 \in 1..Len(q) /\ 1 \in 1..Len(q) /\ k + 1 # 1
        BY <1>1
      <3>2. r[k] = q[k + 1] /\ k + 1 \in DOMAIN q /\ 1 \in DOMAIN q
        BY <1>1, <3>1
      <3>3. q[k + 1] # q[1]
        BY <1>4, <3>1, <3>2, Zenon DEF IsInjective
      <3>. QED
        BY <3>2, <3>3, Zenon DEF Range
    <2>2. ASSUME NEW k \in 1..Len(q), q[k] # q[1]
          PROVE  q[k] \in Range(r)
      <3>1. k - 1 \in 1..Len(q) - 1 /\ r[k - 1] = q[k]
        BY <1>1, <2>2
      <3>. QED
        BY <1>1, <3>1 DEF Range
    <2>. QED
      BY SMTT(30), <1>1, <2>1, <2>2 DEF Range
  <1>. QED
    BY <1>1, <1>2, <1>3, <1>4 DEF r

-----------------------------------------------------------------------------
(***************************************************************************)
(* The sequence of the tasks, of which only the ends matter here.          *)
(***************************************************************************)
LEMMA AppendTask ==
  ASSUME NEW s, s \in Seq(Range(s)), NEW x
  PROVE  /\ Append(s, x) \in Seq(Range(Append(s, x)))
         /\ Len(Append(s, x)) = Len(s) + 1 /\ Len(s) \in Nat
         /\ DOMAIN Append(s, x) = DOMAIN s \cup {Len(s) + 1}
         /\ DOMAIN s \subseteq Nat /\ Len(s) + 1 \notin DOMAIN s
         /\ \A i \in DOMAIN s : Append(s, x)[i] = s[i]
         /\ Append(s, x)[Len(s) + 1] = x
  <1> DEFINE T == Range(s) \cup {x}
             r == Append(s, x)
  <1>1. s \in Seq(T) /\ x \in T
    OBVIOUS
  <1> HIDE DEF T
  <1>2. /\ r \in Seq(T) /\ DOMAIN r = 1..Len(s) + 1
        /\ \A k \in 1..Len(s) : r[k] = s[k]
        /\ r[Len(s) + 1] = x
        /\ DOMAIN s = 1..Len(s) /\ Len(s) \in Nat /\ Len(r) = Len(s) + 1
    BY <1>1
  <1> HIDE DEF r
  <1>3. r \in Seq(Range(r))
    <2>1. \A k \in 1..Len(r) : r[k] \in Range(r)
      BY <1>2 DEF Range
    <2>. QED
      BY <1>2, <2>1
  <1>. QED
    BY <1>2, <1>3 DEF r

LEMMA SetTask ==
  ASSUME NEW s, s \in Seq(Range(s)), NEW i \in DOMAIN s, NEW x
  PROVE  /\ [s EXCEPT ![i] = x] \in Seq(Range([s EXCEPT ![i] = x]))
         /\ Len([s EXCEPT ![i] = x]) = Len(s)
         /\ DOMAIN [s EXCEPT ![i] = x] = DOMAIN s
         /\ DOMAIN s \subseteq Nat
         /\ [s EXCEPT ![i] = x][i] = x
         /\ \A j \in DOMAIN s : j # i => [s EXCEPT ![i] = x][j] = s[j]
  <1> DEFINE T == Range(s) \cup {x}
             r == [s EXCEPT ![i] = x]
  <1>1. s \in Seq(T) /\ x \in T
    OBVIOUS
  <1> HIDE DEF T
  <1>2. /\ r \in Seq(T) /\ DOMAIN r = 1..Len(s) /\ Len(r) = Len(s)
        /\ r[i] = x /\ \A j \in DOMAIN s : j # i => r[j] = s[j]
        /\ DOMAIN s = 1..Len(s) /\ Len(s) \in Nat
    BY <1>1
  <1> HIDE DEF r
  <1>3. r \in Seq(Range(r))
    <2>1. \A k \in 1..Len(r) : r[k] \in Range(r)
      BY <1>2 DEF Range
    <2>. QED
      BY <1>2, <2>1
  <1>. QED
    BY <1>2, <1>3 DEF r

-----------------------------------------------------------------------------
(***************************************************************************)
(* How a handler ends.                                                     *)
(***************************************************************************)
Ends == {"reply", "error", "panic"}

LEMMA HandlersEnd ==
  ASSUME NEW c, NEW fs
  PROVE  HandleRpc(c, fs).end \in Ends
  <1>1. /\ \A x : Reply(x).end \in Ends /\ ErrorAfter(x).end \in Ends
        /\ \A x : Answer(x).end \in Ends /\ Ask(x, fs).end \in Ends
        /\ Panic.end \in Ends
    BY DEF Ends, Reply, ErrorAfter, Answer, Ask, Panic
  <1>2. ASSUME NEW o, o.end \in Ends
        PROVE  Decoded(c, o).end \in Ends
    BY <1>1, <1>2 DEF Decoded
  <1>3. SetAttr(c, fs).end \in Ends
    <2> DEFINE set  == Ask(TRUE, fs)
               both == [set EXCEPT !.messages = <<"fail">> \o set.messages]
    <2>1. both.end \in Ends
      BY DEF Ends, Ask
    <2>. QED
      BY <1>1, <1>2, <2>1 DEF SetAttr
  <1>4. HandleNfs(c, fs).end \in Ends
    <2>1. /\ GetAttr(c, fs).end \in Ends /\ Lookup(c, fs).end \in Ends
          /\ ReadLink(c, fs).end \in Ends /\ Access(c).end \in Ends
          /\ FsInfo(c).end \in Ends /\ PathConf(c).end \in Ends /\ FsStat(c).end \in Ends
      BY <1>1, <1>2 DEF GetAttr, Lookup, ReadLink, Access, FsInfo, PathConf, FsStat
    <2>2. Read(c, fs).end \in Ends /\ ReadDirPlus(c, fs).end \in Ends
      BY <1>1, <1>2 DEF Read, ReadDirPlus
    <2>3. Write(c, fs).end \in Ends /\ Create(c, fs).end \in Ends
      BY <1>1, <1>2 DEF Write, Create
    <2>4. /\ MkDir(c, fs).end \in Ends /\ SymLink(c, fs).end \in Ends
          /\ Remove(c, fs).end \in Ends /\ Rename(c, fs).end \in Ends
      BY <1>1, <1>2 DEF MkDir, SymLink, Remove, Rename
    <2>. QED
      BY <1>1, <1>3, <2>1, <2>2, <2>3, <2>4 DEF HandleNfs
  <1>5. HandleMount(c, fs).end \in Ends /\ HandlePortmap(c).end \in Ends
    <2>1. Mnt(c, fs).end \in Ends
      BY <1>1, <1>2 DEF Mnt
    <2>. QED
      BY <1>1, <1>2, <2>1 DEF HandleMount, HandlePortmap
  <1>. QED
    BY <1>1, <1>4, <1>5 DEF HandleRpc

LEMMA OutcomeEnds ==
  ASSUME sent \in Seq(Calls), NEW r, NEW o \in OutcomesOf(r)
  PROVE  o.end \in Ends
  <1>1. CASE \E i \in DOMAIN sent : r = Payload(i)
    <2> DEFINE j == CHOOSE i \in DOMAIN sent : r = Payload(i)
    <2>1. j \in DOMAIN sent
      BY <1>1
    <2>2. sent[j] \in Calls
      BY <2>1
    <2>3. o \in {HandleRpc(sent[j], fs) : fs \in FsResults}
      BY <1>1, <2>2 DEF OutcomesOf, Outcomes
    <2>. QED
      BY <2>3, HandlersEnd
  <1>2. CASE ~ \E i \in DOMAIN sent : r = Payload(i)
    BY <1>2 DEF OutcomesOf, ErrorAfter, Ends
  <1>. QED
    BY <1>1, <1>2

-----------------------------------------------------------------------------
(***************************************************************************)
(* The inductive invariant: the task of the socket has a reply in its hand *)
(* while it writes, and at no other time.                                  *)
(***************************************************************************)
QueuesOK ==
  /\ sent \in Seq(Calls)
  /\ replies \in Seq(Nat) /\ out \in Seq(Nat) /\ taken \in Seq(Nat)
  /\ tasks \in Seq(Range(tasks))
  /\ main = "write" <=> reply # None

RepliesOK == QueuesOK /\ AnsweredOnce /\ NoReplyIsLost

LEMMA RepliesInit == Init => RepliesOK
  BY DEF Init, RepliesOK, QueuesOK, AnsweredOnce, NoReplyIsLost, Finished, IsInjective, Range

\* What a step that leaves the replies and the tasks alone has to show.
LEMMA RepliesKept ==
  ASSUME RepliesOK, UNCHANGED <<tasks, replies, reply, out, taken>>,
         sent' \in Seq(Calls), main' = "write" <=> main = "write",
         main' # "closed" => main # "closed", ~hungUp' => ~hungUp
  PROVE  RepliesOK'
  BY DEF RepliesOK, QueuesOK, AnsweredOnce, NoReplyIsLost, Finished

LEMMA SocketKeeps ==
  ASSUME RepliesOK,
         (\E n \in 1..ChunkCap : ReadSocket(n)) \/ Copy
  PROVE  RepliesOK'
  <1>1. CASE \E n \in 1..ChunkCap : ReadSocket(n)
    <2>1. /\ UNCHANGED <<tasks, replies, reply, out, taken, sent, hungUp>>
          /\ main = "select" /\ main' = "copy"
      BY <1>1 DEF ReadSocket
    <2>. QED
      BY <2>1, RepliesKept DEF RepliesOK, QueuesOK
  <1>2. CASE Copy
    <2>1. /\ UNCHANGED <<tasks, replies, reply, out, taken, sent, hungUp>>
          /\ main = "copy" /\ main' \in {"select", "copy"}
      BY <1>2 DEF Copy, client
    <2>. QED
      BY <2>1, RepliesKept DEF RepliesOK, QueuesOK
  <1>. QED
    BY <1>1, <1>2

\* The connection ends: the queue is dropped.
LEMMA CloseKeeps ==
  ASSUME RepliesOK, Close, main # "write",
         UNCHANGED <<sent, hungUp, taken, reply, out, tasks>>
  PROVE  RepliesOK'
  <1>1. replies' = <<>> /\ main' = "closed"
    BY DEF Close
  <1>2. Range(<<>>) = {} /\ IsInjective(<<>>) /\ <<>> \in Seq(Nat)
    BY DEF Range, IsInjective
  <1>3. QueuesOK'
    BY <1>1, <1>2 DEF RepliesOK, QueuesOK
  <1>4. AnsweredOnce'
    BY <1>1, <1>2 DEF RepliesOK, AnsweredOnce, Finished
  <1>. QED
    BY <1>1, <1>3, <1>4 DEF RepliesOK, NoReplyIsLost

LEMMA EndOfInputKeeps == RepliesOK /\ EndOfInput => RepliesOK'
  BY CloseKeeps DEF EndOfInput

LEMMA TakeReplyKeeps == RepliesOK /\ TakeReply => RepliesOK'
  <1>. SUFFICES ASSUME RepliesOK, TakeReply
                PROVE  RepliesOK'
    OBVIOUS
  <1> DEFINE i == Head(replies)
  <1>0. /\ main = "select" /\ replies # <<>>
        /\ UNCHANGED <<sent, hungUp, taken, out, tasks>>
    BY DEF TakeReply
  <1>1. CASE tasks[i].end = "error"
    BY <1>0, <1>1, CloseKeeps DEF TakeReply
  <1>2. CASE tasks[i].end # "error"
    <2>1. main' = "write" /\ reply' = i /\ replies' = Tail(replies)
      BY <1>2 DEF TakeReply
    <2>2. replies \in Seq(Nat) /\ IsInjective(replies)
      BY DEF RepliesOK, QueuesOK, AnsweredOnce
    <2>3. /\ i \in Range(replies) /\ i \in Nat
          /\ replies' \in Seq(Nat) /\ IsInjective(replies')
          /\ Range(replies') = Range(replies) \ {i}
      BY <1>0, <2>1, <2>2, TailQueue
    <2> HIDE DEF i
    <2>4. i # None
      BY <2>3, ConnectionAssumption
    <2>5. QueuesOK'
      BY <1>0, <2>1, <2>3, <2>4 DEF RepliesOK, QueuesOK
    <2>6. Finished' = Finished
      BY <1>0 DEF Finished
    <2>7. AnsweredOnce'
      BY <1>0, <2>1, <2>3, <2>6 DEF RepliesOK, AnsweredOnce
    <2>8. NoReplyIsLost'
      <3>1. reply = None
        BY <1>0 DEF RepliesOK, QueuesOK
      <3>2. None \notin Finished
        BY ConnectionAssumption DEF RepliesOK, QueuesOK, Finished
      <3>. QED
        BY <1>0, <2>1, <2>3, <2>6, <3>1, <3>2 DEF RepliesOK, NoReplyIsLost
    <2>. QED
      BY <2>5, <2>7, <2>8 DEF RepliesOK
  <1>. QED
    BY <1>1, <1>2

LEMMA WriteReplyKeeps == RepliesOK /\ WriteReply => RepliesOK'
  <1>. SUFFICES ASSUME RepliesOK, WriteReply
                PROVE  RepliesOK'
    OBVIOUS
  <1>1. /\ main = "write" /\ main' = "select" /\ reply' = None
        /\ out' = Append(out, reply)
        /\ UNCHANGED <<sent, hungUp, taken, tasks, replies>>
    BY DEF WriteReply, client
  <1>2. reply # None /\ reply \in Finished
    BY <1>1 DEF RepliesOK, QueuesOK, AnsweredOnce
  <1>3. reply \in Nat
    BY <1>2 DEF RepliesOK, QueuesOK, Finished
  <1>4. out \in Seq(Nat) /\ IsInjective(out) /\ reply \notin Range(out)
    BY DEF RepliesOK, QueuesOK, AnsweredOnce
  <1>5. out' \in Seq(Nat) /\ IsInjective(out') /\ Range(out') = Range(out) \cup {reply}
    BY <1>1, <1>3, <1>4, AppendQueue
  <1>6. Finished' = Finished /\ None \notin Finished
    BY <1>1, ConnectionAssumption DEF RepliesOK, QueuesOK, Finished
  <1>7. QueuesOK'
    BY <1>1, <1>5 DEF RepliesOK, QueuesOK
  <1>8. AnsweredOnce'
    BY <1>1, <1>2, <1>5, <1>6 DEF RepliesOK, AnsweredOnce
  <1>9. NoReplyIsLost'
    BY <1>1, <1>5, <1>6 DEF RepliesOK, NoReplyIsLost
  <1>. QED
    BY <1>7, <1>8, <1>9 DEF RepliesOK

LEMMA WriteFailsKeeps == RepliesOK /\ WriteFails => RepliesOK'
  <1>. SUFFICES ASSUME RepliesOK, WriteFails
                PROVE  RepliesOK'
    OBVIOUS
  <1>1. /\ main' = "select" /\ reply' = None /\ hungUp /\ hungUp'
        /\ UNCHANGED <<sent, taken, out, tasks, replies>>
    BY DEF WriteFails, client
  <1>2. None \notin Finished /\ Finished' = Finished
    BY <1>1, ConnectionAssumption DEF RepliesOK, QueuesOK, Finished
  <1>3. QueuesOK'
    BY <1>1 DEF RepliesOK, QueuesOK
  <1>4. AnsweredOnce'
    BY <1>1, <1>2 DEF RepliesOK, AnsweredOnce
  <1>. QED
    BY <1>1, <1>3, <1>4 DEF RepliesOK, NoReplyIsLost

LEMMA TakeKeeps == RepliesOK /\ Take => RepliesOK'
  <1>. SUFFICES ASSUME RepliesOK, Take
                PROVE  RepliesOK'
    OBVIOUS
  <1> DEFINE i == Head(out)
  <1>1. /\ out # <<>> /\ taken' = Append(taken, i) /\ out' = Tail(out)
        /\ UNCHANGED <<sent, hungUp, main, reply, tasks, replies>>
    BY DEF Take
  <1>2. /\ out \in Seq(Nat) /\ IsInjective(out) /\ taken \in Seq(Nat) /\ IsInjective(taken)
        /\ Range(out) \cap Range(taken) = {}
    BY DEF RepliesOK, QueuesOK, AnsweredOnce
  <1>3. /\ i \in Range(out) /\ i \in Nat
        /\ out' \in Seq(Nat) /\ IsInjective(out') /\ Range(out') = Range(out) \ {i}
    BY <1>1, <1>2, TailQueue
  <1> HIDE DEF i
  <1>4. i \notin Range(taken)
    BY <1>2, <1>3
  <1>5. /\ taken' \in Seq(Nat) /\ IsInjective(taken')
        /\ Range(taken') = Range(taken) \cup {i}
    BY <1>1, <1>2, <1>3, <1>4, AppendQueue
  <1>6. Finished' = Finished
    BY <1>1 DEF Finished
  <1>7. QueuesOK'
    BY <1>1, <1>3, <1>5 DEF RepliesOK, QueuesOK
  <1>8. AnsweredOnce'
    BY <1>1, <1>3, <1>5, <1>6 DEF RepliesOK, AnsweredOnce
  <1>9. NoReplyIsLost'
    BY <1>1, <1>3, <1>5, <1>6 DEF RepliesOK, NoReplyIsLost
  <1>. QED
    BY <1>7, <1>8, <1>9 DEF RepliesOK

\* A task that has been started has not ended.
LEMMA FragmentDoneKeeps == RepliesOK /\ FragmentDone => RepliesOK'
  <1>. SUFFICES ASSUME RepliesOK, FragmentDone
                PROVE  RepliesOK'
    OBVIOUS
  <1>1. UNCHANGED <<replies, reply, out, taken, sent, hungUp, main>>
    BY DEF FragmentDone, connected, client, socket
  <1>2. CASE ~last
    <2>1. tasks' = tasks
      BY <1>2 DEF FragmentDone
    <2>. QED
      BY <1>1, <2>1, RepliesKept DEF RepliesOK, QueuesOK
  <1>3. CASE last
    <2> DEFINE t == [record |-> fragment, end |-> "running", messages |-> <<>>, asked |-> <<>>]
    <2>1. tasks' = Append(tasks, t) /\ t.end = "running"
      BY <1>3 DEF FragmentDone, Spawn
    <2> HIDE DEF t
    <2>2. tasks \in Seq(Range(tasks))
      BY DEF RepliesOK, QueuesOK
    <2>3. /\ tasks' \in Seq(Range(tasks'))
          /\ DOMAIN tasks' = DOMAIN tasks \cup {Len(tasks) + 1}
          /\ \A i \in DOMAIN tasks : tasks'[i] = tasks[i]
          /\ tasks'[Len(tasks) + 1] = t
      <3>1. /\ Append(tasks, t) \in Seq(Range(Append(tasks, t)))
            /\ DOMAIN Append(tasks, t) = DOMAIN tasks \cup {Len(tasks) + 1}
            /\ \A i \in DOMAIN tasks : Append(tasks, t)[i] = tasks[i]
            /\ Append(tasks, t)[Len(tasks) + 1] = t
        BY <2>2, AppendTask, Zenon
      <3>. QED
        BY <2>1, <3>1
    <2>4. Finished' = Finished
      <3>1. Finished' = {i \in DOMAIN tasks' : tasks'[i].end \in {"reply", "error"}}
        BY DEF Finished
      <3>. QED
        BY <2>1, <2>3, <3>1 DEF Finished
    <2>5. QueuesOK'
      BY <1>1, <2>3 DEF RepliesOK, QueuesOK
    <2>. QED
      BY <1>1, <2>4, <2>5 DEF RepliesOK, AnsweredOnce, NoReplyIsLost
  <1>. QED
    BY <1>2, <1>3

LEMMA HandleKeeps == RepliesOK /\ HandleSome => RepliesOK'
  <1>. SUFFICES ASSUME RepliesOK,
                       NEW i \in DOMAIN tasks, NEW o \in OutcomesOf(tasks[i].record),
                       Handle(i, o)
                PROVE  RepliesOK'
    BY DEF HandleSome
  <1> DEFINE t == [record |-> tasks[i].record, end |-> o.end,
                   messages |-> o.messages, asked |-> o.asked]
  <1>1. /\ tasks[i].end = "running" /\ tasks' = [tasks EXCEPT ![i] = t] /\ Queue(i, o)
        /\ UNCHANGED <<sent, hungUp, taken, main, reply, out>>
    BY DEF Handle, connected, client, socket
  <1>2. o.end \in Ends /\ t.end = o.end
    BY OutcomeEnds DEF RepliesOK, QueuesOK
  <1> HIDE DEF t
  <1>3. tasks \in Seq(Range(tasks))
    BY DEF RepliesOK, QueuesOK
  <1>4. /\ tasks' \in Seq(Range(tasks')) /\ DOMAIN tasks' = DOMAIN tasks
        /\ DOMAIN tasks \subseteq Nat
        /\ tasks'[i] = t /\ \A j \in DOMAIN tasks : j # i => tasks'[j] = tasks[j]
    BY <1>1, <1>3, SetTask, Zenon
  <1>5. i \notin Finished /\ i \in Nat
    BY <1>1, <1>4 DEF Finished
  <1>6. Finished' = Finished \cup (IF o.end = "panic" THEN {} ELSE {i})
    <2>1. Finished' = {j \in DOMAIN tasks' : tasks'[j].end \in {"reply", "error"}}
      BY DEF Finished
    <2>. QED
      BY <1>1, <1>2, <1>4, <1>5, <2>1 DEF Finished, Ends
  <1>7. CASE o.end = "panic" \/ main = "closed"
    <2>1. replies' = replies
      BY <1>1, <1>7 DEF Queue
    <2>2. QueuesOK'
      BY <1>1, <1>4, <2>1 DEF RepliesOK, QueuesOK
    <2>3. AnsweredOnce'
      BY <1>1, <1>6, <2>1 DEF RepliesOK, AnsweredOnce
    <2>4. NoReplyIsLost'
      BY <1>1, <1>6, <1>7, <2>1 DEF RepliesOK, NoReplyIsLost
    <2>. QED
      BY <2>2, <2>3, <2>4 DEF RepliesOK
  <1>8. CASE o.end # "panic" /\ main # "closed"
    <2>1. replies' = Append(replies, i)
      BY <1>1, <1>8 DEF Queue
    <2>2. /\ replies \in Seq(Nat) /\ IsInjective(replies)
          /\ i \notin Range(replies) \cup Range(out) \cup Range(taken)
      BY <1>5 DEF RepliesOK, QueuesOK, AnsweredOnce
    <2>3. /\ replies' \in Seq(Nat) /\ IsInjective(replies')
          /\ Range(replies') = Range(replies) \cup {i}
      BY <1>5, <2>1, <2>2, AppendQueue
    <2>4. i # reply
      <3>1. i # None
        BY <1>5, ConnectionAssumption
      <3>. QED
        BY <1>5, <3>1 DEF RepliesOK, AnsweredOnce
    <2>5. QueuesOK'
      BY <1>1, <1>4, <2>3 DEF RepliesOK, QueuesOK
    <2>6. AnsweredOnce'
      BY <1>1, <1>6, <1>8, <2>2, <2>3, <2>4 DEF RepliesOK, AnsweredOnce
    <2>7. NoReplyIsLost'
      BY <1>1, <1>6, <1>8, <2>3 DEF RepliesOK, NoReplyIsLost
    <2>. QED
      BY <2>5, <2>6, <2>7 DEF RepliesOK
  <1>. QED
    BY <1>7, <1>8

LEMMA RepliesStep == RepliesOK /\ [Next]_vars => RepliesOK'
  <1>. SUFFICES ASSUME RepliesOK, [Next]_vars
                PROVE  RepliesOK'
    OBVIOUS
  <1>1. CASE \E c \in Calls, cut \in Cuts : Send(c, cut)
    <2>1. PICK c \in Calls, cut \in Cuts : Send(c, cut)
      BY <1>1
    <2>2. /\ sent' = Append(sent, c)
          /\ UNCHANGED <<tasks, replies, reply, out, taken, main, hungUp>>
      BY <2>1 DEF Send, socket
    <2>3. sent' \in Seq(Calls)
      BY <2>2 DEF RepliesOK, QueuesOK
    <2>. QED
      BY <2>2, <2>3, RepliesKept
  <1>2. CASE HangUp
    <2>1. UNCHANGED <<tasks, replies, reply, out, taken, sent, main>> /\ hungUp'
      BY <1>2 DEF HangUp, socket
    <2>. QED
      BY <2>1, RepliesKept DEF RepliesOK, QueuesOK
  <1>3. CASE (\E n \in 1..ChunkCap : ReadSocket(n)) \/ Copy
    BY <1>3, SocketKeeps
  <1>4. CASE Take \/ EndOfInput \/ TakeReply \/ WriteReply \/ WriteFails
    BY <1>4, TakeKeeps, EndOfInputKeeps, TakeReplyKeeps, WriteReplyKeeps, WriteFailsKeeps
  <1>5. CASE ReadHeader \/ ReadBody \/ ReaderEnds
    <2>1. UNCHANGED <<tasks, replies, reply, out, taken, sent, main, hungUp>>
      BY <1>5 DEF ReadHeader, ReadBody, ReaderEnds, connected, client, socket
    <2>. QED
      BY <2>1, RepliesKept DEF RepliesOK, QueuesOK
  <1>6. CASE FragmentDone \/ HandleSome
    BY <1>6, FragmentDoneKeeps, HandleKeeps
  <1>7. CASE UNCHANGED vars
    <2>1. UNCHANGED <<tasks, replies, reply, out, taken, sent, main, hungUp>>
      BY <1>7 DEF vars, client, socket
    <2>. QED
      BY <2>1, RepliesKept DEF RepliesOK, QueuesOK
  <1>. QED
    BY <1>1, <1>2, <1>3, <1>4, <1>5, <1>6, <1>7 DEF Next

-----------------------------------------------------------------------------
\* Between the queue and the client there is at most one reply of a task, and only of a
\* task that has ended with one.
THEOREM AnsweredOnceAlways == Spec => []AnsweredOnce
  <1>1. RepliesOK => AnsweredOnce
    BY DEF RepliesOK
  <1>. QED
    BY <1>1, RepliesInit, RepliesStep, PTL DEF Spec

\* While the connection is up, the reply of a task that has ended is in the queue, with
\* the task of the socket, on its way, or at the client.
THEOREM NoReplyIsLostAlways == Spec => []NoReplyIsLost
  <1>1. RepliesOK => NoReplyIsLost
    BY DEF RepliesOK
  <1>. QED
    BY <1>1, RepliesInit, RepliesStep, PTL DEF Spec

-----------------------------------------------------------------------------
(***************************************************************************)
(* What the handlers answer.                                               *)
(***************************************************************************)
\* The outcomes of a handler that asks for no change, and of one that may.
Reading(o)  == o.asked = <<>> /\ (o.end = "reply" => Len(o.messages) = 1)
Refusing(o) ==
  /\ o.asked = <<>>
  /\ o.end = "reply" => o.messages \in {<<"fail">>, <<"refused">>}
Asking(o, s)   == o.end = "reply" /\ o.messages = <<s>> /\ o.asked = <<s>>
Changing(o, s) == Refusing(o) \/ Asking(o, s)
Doubled(o, s)  == o.end = "reply" /\ o.messages = <<"fail">> \o <<s>> /\ o.asked = <<s>>

LEMMA Readings ==
  ASSUME NEW c
  PROVE  /\ \A x : Reading(Reply(x)) /\ Reading(Answer(x)) /\ Reading(ErrorAfter(x))
         /\ Reading(Panic)
         /\ \A o : Reading(o) => Reading(Decoded(c, o))
  BY DEF Reading, Reply, Answer, ErrorAfter, Panic, Decoded

LEMMA Changings ==
  ASSUME NEW c, NEW fs
  PROVE  /\ Refusing(Reply("fail")) /\ Refusing(Reply("refused"))
         /\ \A x : Refusing(ErrorAfter(x)) /\ Changing(Ask(x, fs), Status(fs.op))
         /\ \A o : Changing(o, Status(fs.op)) => Changing(Decoded(c, o), Status(fs.op))
  BY DEF Changing, Refusing, Asking, Reply, Ask, ErrorAfter, Decoded

LEMMA ReadingFits ==
  ASSUME NEW c, NEW o, Reading(o), ~(c.prog = "nfs" /\ c.proc \in Writes)
  PROVE  Fitting(c, o)
  BY DEF Reading, Fitting

LEMMA ChangingFits ==
  ASSUME NEW c, NEW o, NEW s \in {"ok", "fail"}, c.prog = "nfs", c.proc \in Writes,
         Changing(o, s) \/ (c.proc = "setattr" /\ Doubled(o, s))
  PROVE  Fitting(c, o)
  <1>1. CASE Refusing(o)
    <2>1. CASE o.end # "reply"
      BY <1>1, <2>1 DEF Refusing, Fitting
    <2>2. CASE o.messages = <<"fail">>
      BY <1>1, <2>2 DEF Refusing, Fitting
    <2>3. CASE o.messages = <<"refused">>
      BY <1>1, <2>3 DEF Refusing, Fitting
    <2>. QED  BY <1>1, <2>1, <2>2, <2>3 DEF Refusing
  <1>2. CASE Asking(o, s)
    <2>1. CASE s = "ok"
      BY <1>2, <2>1 DEF Asking, Fitting
    <2>2. CASE s = "fail"
      BY <1>2, <2>2 DEF Asking, Fitting
    <2>. QED  BY <2>1, <2>2
  <1>3. CASE c.proc = "setattr" /\ Doubled(o, s)
    <2>. DEFINE S == {"ok", "fail"}
    <2>1. <<"fail">> \in Seq(S) /\ <<s>> \in Seq(S)
      OBVIOUS
    <2>2. /\ Len(<<"fail">> \o <<s>>) = 2
          /\ (<<"fail">> \o <<s>>)[1] = "fail" /\ (<<"fail">> \o <<s>>)[2] = s
      BY <2>1, ConcatProperties
    <2>3. /\ o.end = "reply" /\ o.asked = <<s>>
          /\ Len(o.messages) = 2 /\ o.messages[1] = "fail" /\ o.messages[2] = s
      BY <1>3, <2>2 DEF Doubled
    <2>4. Len(o.asked) <= 1 /\ (s = "ok" <=> o.asked = <<"ok">>)
      BY <2>3
    <2>. QED  BY <1>3, <2>3, <2>4 DEF Fitting
  <1>. QED  BY <1>1, <1>2, <1>3 DEF Changing

\* SETATTR is the one handler that goes on after it has written a message.
LEMMA SetAttrDoubles ==
  ASSUME NEW c, NEW fs
  PROVE  Changing(SetAttr(c, fs), Status(fs.op)) \/ Doubled(SetAttr(c, fs), Status(fs.op))
  <1>. DEFINE set  == Ask(TRUE, fs)
              both == [set EXCEPT !.messages = <<"fail">> \o set.messages]
  <1>1. Doubled(both, Status(fs.op))
    BY DEF Doubled, Ask
  <1>2. SetAttr(c, fs)
          = Decoded(c, IF ~FhToId(c) \/ ~fs.attr THEN Reply("fail")
                       ELSE IF c.how = "guarded" /\ ~fs.ctime THEN both ELSE set)
    BY DEF SetAttr
  <1>. HIDE DEF both
  <1>. QED  BY <1>1, <1>2, Changings DEF Changing, Decoded

\* What a handler has written fits, whatever the call is and whatever the file system
\* answers.
LEMMA HandlersFit ==
  ASSUME NEW c, NEW fs \in FsResults
  PROVE  Fitting(c, HandleRpc(c, fs))
  <1>1. CASE c.prog = "nfs" /\ c.proc \in Writes
    <2>1. Changing(Write(c, fs), Status(fs.op)) /\ Changing(Create(c, fs), Status(fs.op))
      BY Changings DEF Write, Create, Changing
    <2>2. /\ Changing(MkDir(c, fs), Status(fs.op)) /\ Changing(SymLink(c, fs), Status(fs.op))
          /\ Changing(Remove(c, fs), Status(fs.op)) /\ Changing(Rename(c, fs), Status(fs.op))
      BY Changings DEF MkDir, SymLink, Remove, Rename
    <2>3. \/ Changing(HandleNfs(c, fs), Status(fs.op))
          \/ c.proc = "setattr" /\ HandleNfs(c, fs) = SetAttr(c, fs)
      BY <1>1, <2>1, <2>2, Changings DEF HandleNfs, Writes, Changing
    <2>4. \/ Changing(HandleRpc(c, fs), Status(fs.op))
          \/ c.proc = "setattr" /\ Doubled(HandleRpc(c, fs), Status(fs.op))
      BY <1>1, <2>3, Changings, SetAttrDoubles DEF HandleRpc, Changing
    <2>5. Status(fs.op) \in {"ok", "fail"}
      BY DEF Status
    <2>. QED  BY <1>1, <2>4, <2>5, ChangingFits
  <1>2. CASE c.prog = "nfs" /\ c.proc \notin Writes
    <2>1. /\ Reading(GetAttr(c, fs)) /\ Reading(Lookup(c, fs)) /\ Reading(ReadLink(c, fs))
          /\ Reading(Access(c)) /\ Reading(FsInfo(c)) /\ Reading(PathConf(c))
          /\ Reading(FsStat(c))
      BY Readings DEF GetAttr, Lookup, ReadLink, Access, FsInfo, PathConf, FsStat
    <2>2. Reading(Read(c, fs)) /\ Reading(ReadDirPlus(c, fs))
      BY Readings DEF Read, ReadDirPlus
    <2>3. Reading(HandleNfs(c, fs))
      BY <1>2, <2>1, <2>2, Readings DEF HandleNfs, Writes
    <2>4. Reading(HandleRpc(c, fs))
      BY <1>2, <2>3, Readings DEF HandleRpc
    <2>. QED  BY <1>2, <2>4, ReadingFits
  <1>3. CASE c.prog # "nfs"
    <2>1. Reading(Mnt(c, fs))
      BY Readings DEF Mnt
    <2>2. Reading(HandleMount(c, fs)) /\ Reading(HandlePortmap(c))
      BY <2>1, Readings DEF HandleMount, HandlePortmap
    <2>3. Reading(HandleRpc(c, fs))
      BY <1>3, <2>2, Readings DEF HandleRpc
    <2>. QED  BY <1>3, <2>3, ReadingFits
  <1>. QED  BY <1>1, <1>2, <1>3

-----------------------------------------------------------------------------
(***************************************************************************)
(* What the reader has not taken yet is one stream: it is in the pipe, in  *)
(* the hands of the task of the socket, and on the wire while somebody     *)
(* reads that.                                                             *)
(***************************************************************************)
Open   == main # "closed"
Unread == pipe \o chunk \o (IF Open THEN wire ELSE <<>>)

\* Is t a header that record i can go on with, when its first units have been sent.
HeadAt(t, i, units) ==
  /\ t \in Heads /\ t.call = i
  /\ IF t.last THEN t.length = Size - units ELSE units = 0

\* The units of a record that come before its fragment with header h.
Before(h) == IF h.last THEN Size - h.length ELSE 0

\* In s comes, after place k, the rest of a fragment: n units of record i, before
\* which there are some others; and then the next header, if s goes on that far.
Fits(s, k, i, units, n, l) ==
  /\ units + n <= Size /\ (l => units + n = Size)
  /\ \A j \in 1..n : k + j \in DOMAIN s => s[k + j] = [call |-> i, place |-> units + j]
  /\ k + n + 1 \in DOMAIN s =>
       IF l THEN HeadAt(s[k + n + 1], i + 1, 0) ELSE HeadAt(s[k + n + 1], i, units + n)

\* That fragment is there as a whole, and is the last one only when m records are.
Complete(s, m, k, i, n, l) ==
  /\ k + n <= Len(s)
  /\ k + n = Len(s) => l /\ i = m

\* s is cut out of a stream of m records, at the end of which it ends if it is whole.
StreamOK(s, m, whole) ==
  \A k \in DOMAIN s : s[k] \in Heads =>
    /\ s[k].call \in 1..m
    /\ Fits(s, k, s[k].call, Before(s[k]), s[k].length, s[k].last)
    /\ whole => Complete(s, m, k, s[k].call, s[k].length, s[k].last)

\* The record that the reader puts together.
Current == Len(tasks) + 1

BodyOK ==
  /\ Current <= Len(sent)
  /\ Fits(Unread, 0, Current, Len(fragment), left, last)
  /\ Open => Complete(Unread, Len(sent), 0, Current, left, last)

HeaderOK ==
  /\ Unread # <<>> => HeadAt(Unread[1], Current, Len(fragment))
  /\ Open /\ Unread = <<>> => fragment = <<>> /\ Current = Len(sent) + 1

WireOK ==
  /\ sent \in Seq(Calls) /\ Len(sent) <= MaxCalls
  /\ wire \in Seq(Tokens) /\ chunk \in Seq(Tokens) /\ pipe \in Seq(Tokens)
  /\ main # "copy" => chunk = <<>>
  /\ left \in Nat /\ last \in BOOLEAN /\ fragment \in Seq(Bytes)
  /\ tasks \in Seq(Range(tasks))

RecordsOK ==
  /\ WireOK
  /\ StreamOK(Unread, Len(sent), Open)
  /\ Len(fragment) <= Size
  /\ \A p \in DOMAIN fragment : fragment[p] = [call |-> Current, place |-> p]
  /\ reader = "body" => BodyOK
  /\ reader = "header" => HeaderOK
  /\ RecordsAreWhole

\* A header and a unit of data are told apart.
LEMMA TokenTypes ==
  /\ \A h \in Heads : /\ h.call \in Nat /\ h.length \in 0..Size /\ h.last \in BOOLEAN
                      /\ h.length \in Nat /\ Before(h) \in Nat
  /\ \A h \in Heads : h \notin Bytes
  <1>1. Size \in Nat
    BY ConnectionAssumption
  <1>2. \A h \in Heads : h.call \in Nat /\ h.length \in 0..Size /\ h.last \in BOOLEAN
    BY ConnectionAssumption DEF Heads, Ids
  <1>3. \A h \in Heads : h.length \in Nat /\ Before(h) \in Nat
    BY <1>1, <1>2 DEF Before
  <1>4. ASSUME NEW h \in Heads, h \in Bytes
        PROVE  FALSE
    <2>1. DOMAIN h = {"call", "length", "last"}
      BY DEF Heads
    <2>2. DOMAIN h = {"call", "place"}
      BY <1>4 DEF Bytes
    <2>. QED  BY <2>1, <2>2
  <1>. QED  BY <1>2, <1>3, <1>4

\* t is what is left of s behind the first d tokens.
Rest(s, d, t) == Len(s) = Len(t) + d /\ \A x \in 1..Len(t) : t[x] = s[x + d]

\* What has come out of the stream is gone from all of its places alike.
LEMMA FitsBehind ==
  ASSUME NEW s \in Seq(Tokens), NEW t \in Seq(Tokens), NEW d \in Nat, Rest(s, d, t)
  PROVE  \A k, u, n \in Nat : \A i, m : \A l \in BOOLEAN :
           /\ Fits(s, k + d, i, u, n, l) => Fits(t, k, i, u, n, l)
           /\ Complete(s, m, k + d, i, n, l) => Complete(t, m, k, i, n, l)
  <1>. SUFFICES ASSUME NEW k \in Nat, NEW i, NEW u \in Nat, NEW n \in Nat, NEW l \in BOOLEAN, NEW m
                PROVE  /\ Fits(s, k + d, i, u, n, l) => Fits(t, k, i, u, n, l)
                       /\ Complete(s, m, k + d, i, n, l) => Complete(t, m, k, i, n, l)
    BY SMTT(30)
  <1>1. /\ Len(s) \in Nat /\ Len(t) \in Nat
        /\ DOMAIN s = 1..Len(s) /\ DOMAIN t = 1..Len(t)
        /\ Len(s) = Len(t) + d /\ \A x \in 1..Len(t) : t[x] = s[x + d]
    BY DEF Rest
  <1>2. ASSUME Fits(s, k + d, i, u, n, l)
        PROVE  Fits(t, k, i, u, n, l)
    <2>1. u + n <= Size /\ (l => u + n = Size)
      BY <1>2 DEF Fits
    <2>2. ASSUME NEW j \in 1..n, k + j \in DOMAIN t
          PROVE  t[k + j] = [call |-> i, place |-> u + j]
      <3>1. k + j \in 1..Len(t)
        BY <1>1, <2>2
      <3>2. t[k + j] = s[k + j + d]
        BY <1>1, <3>1
      <3>3. k + j + d = (k + d) + j /\ (k + d) + j \in DOMAIN s
        BY <1>1, <2>2, <3>1
      <3>. QED  BY <1>2, <3>2, <3>3 DEF Fits
    <2>3. ASSUME k + n + 1 \in DOMAIN t
          PROVE  IF l THEN HeadAt(t[k + n + 1], i + 1, 0) ELSE HeadAt(t[k + n + 1], i, u + n)
      <3>1. k + n + 1 \in 1..Len(t)
        BY <1>1, <2>3
      <3>2. t[k + n + 1] = s[k + n + 1 + d]
        BY <1>1, <3>1
      <3>3. k + n + 1 + d = (k + d) + n + 1 /\ (k + d) + n + 1 \in DOMAIN s
        BY <1>1, <2>3, <3>1
      <3>. QED  BY <1>2, <3>2, <3>3 DEF Fits
    <2>. QED  BY <2>1, <2>2, <2>3 DEF Fits
  <1>3. ASSUME Complete(s, m, k + d, i, n, l)
        PROVE  Complete(t, m, k, i, n, l)
    <2>1. (k + d) + n <= Len(s) /\ ((k + d) + n = Len(s) => l /\ i = m)
      BY <1>3 DEF Complete
    <2>2. \A a, b \in Nat : /\ (k + d) + n <= b /\ b = a + d => k + n <= a
                           /\ k + n = a /\ b = a + d => (k + d) + n = b
      OBVIOUS
    <2>3. k + n <= Len(t) /\ (k + n = Len(t) => (k + d) + n = Len(s))
      <3>1. Len(s) \in Nat /\ Len(t) \in Nat /\ Len(s) = Len(t) + d
        BY <1>1
      <3>. QED  BY <2>1, <2>2, <3>1
    <2>. QED  BY <2>1, <2>3 DEF Complete
  <1>. QED  BY <1>2, <1>3

LEMMA StreamBehind ==
  ASSUME NEW s \in Seq(Tokens), NEW t \in Seq(Tokens), NEW d \in Nat, Rest(s, d, t),
         NEW m, NEW whole, StreamOK(s, m, whole)
  PROVE  StreamOK(t, m, whole)
  <1>. SUFFICES ASSUME NEW k \in DOMAIN t, t[k] \in Heads
                PROVE  /\ t[k].call \in 1..m
                       /\ Fits(t, k, t[k].call, Before(t[k]), t[k].length, t[k].last)
                       /\ whole => Complete(t, m, k, t[k].call, t[k].length, t[k].last)
    BY DEF StreamOK
  <1>1. k \in Nat /\ k \in 1..Len(t) /\ k + d \in DOMAIN s
    BY DEF Rest
  <1>2. s[k + d] = t[k]
    BY <1>1 DEF Rest
  <1>3. t[k].length \in Nat /\ Before(t[k]) \in Nat /\ t[k].last \in BOOLEAN
    BY TokenTypes
  <1>4. /\ t[k].call \in 1..m
        /\ Fits(s, k + d, t[k].call, Before(t[k]), t[k].length, t[k].last)
        /\ whole => Complete(s, m, k + d, t[k].call, t[k].length, t[k].last)
    BY <1>1, <1>2, Zenon DEF StreamOK
  <1>5. \A x, u, n \in Nat : \A i, p : \A l \in BOOLEAN :
          /\ Fits(s, x + d, i, u, n, l) => Fits(t, x, i, u, n, l)
          /\ Complete(s, p, x + d, i, n, l) => Complete(t, p, x, i, n, l)
    BY FitsBehind, Zenon
  <1>. QED  BY <1>1, <1>3, <1>4, <1>5, Zenon

\* A stream may end anywhere, when it need not be whole.
LEMMA StreamCut ==
  ASSUME NEW s \in Seq(Tokens), NEW t \in Seq(Tokens),
         Len(t) <= Len(s), \A x \in 1..Len(t) : t[x] = s[x],
         NEW m, NEW whole, StreamOK(s, m, whole)
  PROVE  /\ StreamOK(t, m, FALSE)
         /\ \A i, l : \A u, n \in Nat : Fits(s, 0, i, u, n, l) => Fits(t, 0, i, u, n, l)
  <1>1. ASSUME NEW k \in Nat, NEW i, NEW u \in Nat, NEW n \in Nat, NEW l, Fits(s, k, i, u, n, l)
        PROVE  Fits(t, k, i, u, n, l)
    <2>1. \A x \in DOMAIN t : x \in DOMAIN s /\ t[x] = s[x]
      OBVIOUS
    <2>. QED  BY <1>1, <2>1, Zenon DEF Fits
  <1>2. ASSUME NEW k \in DOMAIN t, t[k] \in Heads
        PROVE  /\ t[k].call \in 1..m
               /\ Fits(t, k, t[k].call, Before(t[k]), t[k].length, t[k].last)
    <2>1. k \in Nat /\ k \in DOMAIN s /\ t[k] = s[k]
      OBVIOUS
    <2>2. t[k].length \in Nat /\ Before(t[k]) \in Nat
      BY <1>2, TokenTypes
    <2>3. /\ t[k].call \in 1..m
          /\ Fits(s, k, t[k].call, Before(t[k]), t[k].length, t[k].last)
      BY <1>2, <2>1, Zenon DEF StreamOK
    <2>. QED  BY <1>1, <2>1, <2>2, <2>3
  <1>. QED  BY <1>1, <1>2 DEF StreamOK

\* A fragment is still there when a record e comes behind it.
LEMMA FitsBefore ==
  ASSUME NEW s \in Seq(Tokens), NEW e \in Seq(Tokens), e # <<>>,
         NEW m \in Nat, HeadAt(e[1], m + 1, 0)
  PROVE  \A k, u, n \in Nat : \A i : \A l \in BOOLEAN :
           Fits(s, k, i, u, n, l) /\ Complete(s, m, k, i, n, l)
             => Fits(s \o e, k, i, u, n, l) /\ Complete(s \o e, m + 1, k, i, n, l)
  <1>. SUFFICES ASSUME NEW k \in Nat, NEW i, NEW u \in Nat, NEW n \in Nat, NEW l \in BOOLEAN,
                       Fits(s, k, i, u, n, l), Complete(s, m, k, i, n, l)
                PROVE  Fits(s \o e, k, i, u, n, l) /\ Complete(s \o e, m + 1, k, i, n, l)
    OBVIOUS
  <1>. DEFINE r == s \o e
  <1>1. /\ Len(s) \in Nat /\ Len(e) \in Nat \ {0} /\ Len(r) = Len(s) + Len(e)
        /\ DOMAIN r = 1..Len(s) + Len(e) /\ DOMAIN s = 1..Len(s)
        /\ \A x \in 1..Len(s) : r[x] = s[x]
        /\ r[Len(s) + 1] = e[1]
    OBVIOUS
  <1>. HIDE DEF r
  <1>2. u + n <= Size /\ (l => u + n = Size)
    BY DEF Fits
  <1>3. k + n <= Len(s)
    BY DEF Complete
  <1>4. k + n = Len(s) => l /\ i = m
    BY DEF Complete
  <1>5. ASSUME NEW j \in 1..n
        PROVE  r[k + j] = [call |-> i, place |-> u + j]
    <2>1. Len(s) \in Nat /\ j \in Nat /\ 1 <= j /\ j <= n
      BY <1>1
    <2>2. k + j \in 1..Len(s)
      BY <1>3, <2>1
    <2>. QED  BY <1>1, <2>2 DEF Fits
  <1>6. IF l THEN HeadAt(r[k + n + 1], i + 1, 0) ELSE HeadAt(r[k + n + 1], i, u + n)
    <2>1. CASE k + n = Len(s)
      <3>1. l /\ i = m /\ r[k + n + 1] = e[1]
        BY <1>1, <1>4, <2>1
      <3>. QED  BY <3>1
    <2>2. CASE k + n # Len(s)
      <3>1. \A a \in Nat : k + n <= a /\ k + n # a => k + n + 1 \in 1..a
        OBVIOUS
      <3>2. k + n + 1 \in 1..Len(s)
        BY <1>1, <1>3, <2>2, <3>1
      <3>. QED  BY <1>1, <3>2, Zenon DEF Fits
    <2>. QED  BY <2>1, <2>2
  <1>7. Fits(r, k, i, u, n, l)
    BY <1>2, <1>5, <1>6 DEF Fits
  <1>8. Complete(r, m + 1, k, i, n, l)
    <2>1. k + n <= Len(r) /\ k + n # Len(r)
      BY <1>1, <1>3
    <2>. QED  BY <2>1 DEF Complete
  <1>. QED  BY <1>7, <1>8 DEF r

LEMMA StreamBefore ==
  ASSUME NEW s \in Seq(Tokens), NEW e \in Seq(Tokens), e # <<>>,
         NEW m \in Nat, HeadAt(e[1], m + 1, 0),
         StreamOK(s, m, TRUE), StreamOK(e, m + 1, TRUE)
  PROVE  StreamOK(s \o e, m + 1, TRUE)
  <1>. DEFINE r == s \o e
  <1>1. /\ Len(s) \in Nat /\ Len(e) \in Nat \ {0} /\ Len(r) = Len(s) + Len(e)
        /\ r \in Seq(Tokens)
        /\ DOMAIN r = 1..Len(s) + Len(e) /\ DOMAIN s = 1..Len(s) /\ DOMAIN e = 1..Len(e)
        /\ \A x \in 1..Len(s) : r[x] = s[x]
        /\ \A x \in 1..Len(e) : r[x + Len(s)] = e[x]
    OBVIOUS
  <1>. SUFFICES ASSUME NEW k \in DOMAIN r, r[k] \in Heads
                PROVE  /\ r[k].call \in 1..m + 1
                       /\ Fits(r, k, r[k].call, Before(r[k]), r[k].length, r[k].last)
                       /\ Complete(r, m + 1, k, r[k].call, r[k].length, r[k].last)
    BY DEF StreamOK, r
  <1>. DEFINE h == r[k]
  <1>2. h.length \in Nat /\ Before(h) \in Nat /\ h.last \in BOOLEAN
    BY TokenTypes
  <1>3. CASE k <= Len(s)
    <2>1. k \in DOMAIN s /\ k \in Nat /\ s[k] = h
      BY <1>1, <1>3
    <2>2. /\ h.call \in 1..m
          /\ Fits(s, k, h.call, Before(h), h.length, h.last)
          /\ Complete(s, m, k, h.call, h.length, h.last)
      BY <2>1, Zenon DEF StreamOK
    <2>3. \A x, u, n \in Nat : \A i : \A l \in BOOLEAN :
            Fits(s, x, i, u, n, l) /\ Complete(s, m, x, i, n, l)
              => Fits(r, x, i, u, n, l) /\ Complete(r, m + 1, x, i, n, l)
      BY FitsBefore, Zenon
    <2>4. \A x \in 1..m : x \in 1..m + 1
      OBVIOUS
    <2>. HIDE DEF r
    <2>. QED  BY <1>2, <2>1, <2>2, <2>3, <2>4, Zenon
  <1>4. CASE k > Len(s)
    <2>. DEFINE x == k - Len(s)
    <2>1. x \in 1..Len(e) /\ x \in Nat /\ k = x + Len(s) /\ e[x] = h
      BY <1>1, <1>4
    <2>2. /\ h.call \in 1..m + 1
          /\ Fits(e, x, h.call, Before(h), h.length, h.last)
          /\ Complete(e, m + 1, x, h.call, h.length, h.last)
      BY <1>1, <2>1, Zenon DEF StreamOK
    <2>3. Fits(r, k, h.call, Before(h), h.length, h.last)
      <3>. HIDE DEF r, h, x
      <3>1. \A y \in Nat : x + y \in DOMAIN e <=> k + y \in DOMAIN r
        BY <1>1, <2>1
      <3>2. \A y \in Nat : x + y \in DOMAIN e => r[k + y] = e[x + y]
        <4>. SUFFICES ASSUME NEW y \in Nat, x + y \in DOMAIN e
                      PROVE  r[k + y] = e[x + y]
          OBVIOUS
        <4>1. x + y \in 1..Len(e) /\ k + y = (x + y) + Len(s)
          BY <1>1, <2>1
        <4>. QED  BY <1>1, <4>1
      <3>3. \A j \in 1..h.length : k + j \in DOMAIN r
                 => r[k + j] = [call |-> h.call, place |-> Before(h) + j]
        BY <1>2, <2>2, <3>1, <3>2 DEF Fits
      <3>4. k + h.length + 1 \in DOMAIN r =>
              IF h.last THEN HeadAt(r[k + h.length + 1], h.call + 1, 0)
              ELSE HeadAt(r[k + h.length + 1], h.call, Before(h) + h.length)
        <4>. DEFINE n == h.length
        <4>0. n \in Nat /\ x \in Nat /\ k \in Nat
          BY <1>1, <1>2, <2>1
        <4>1. n + 1 \in Nat /\ k + n + 1 = k + (n + 1) /\ x + n + 1 = x + (n + 1)
          <5>. HIDE DEF n
          <5>. QED  BY <4>0
        <4>2. k + h.length + 1 \in DOMAIN r =>
                /\ x + h.length + 1 \in DOMAIN e
                /\ r[k + h.length + 1] = e[x + h.length + 1]
          BY <3>1, <3>2, <4>1
        <4>. QED  BY <2>2, <4>2, Zenon DEF Fits
      <3>. QED  BY <2>2, <3>3, <3>4 DEF Fits
    <2>4. Complete(r, m + 1, k, h.call, h.length, h.last)
      <3>. HIDE DEF r, h, x
      <3>1. Len(r) = Len(s) + Len(e) /\ Len(s) \in Nat /\ Len(e) \in Nat
        BY <1>1
      <3>2. k + h.length = (x + h.length) + Len(s)
        BY <1>2, <2>1, <3>1
      <3>3. x + h.length <= Len(e) /\ (x + h.length = Len(e) => h.last /\ h.call = m + 1)
        BY <2>2 DEF Complete
      <3>4. k + h.length <= Len(r) /\ (k + h.length = Len(r) => x + h.length = Len(e))
        <4>1. \A a, b, c \in Nat : /\ a <= b => a + c <= b + c
                                 /\ a + c = b + c => a = b
          OBVIOUS
        <4>2. x + h.length \in Nat
          BY <1>2, <2>1
        <4>3. Len(r) = Len(e) + Len(s)
          BY <3>1
        <4>. QED  BY <3>1, <3>2, <3>3, <4>1, <4>2, <4>3
      <3>. QED  BY <3>3, <3>4 DEF Complete
    <2>. QED  BY <2>2, <2>3, <2>4
  <1>. QED  BY <1>1, <1>3, <1>4

\* A record on the wire is a stream of its own, in one piece and in two.
LEMMA EncodeOK ==
  ASSUME NEW i \in Ids, NEW cut \in Cuts
  PROVE  /\ Encode(i, cut) \in Seq(Tokens) /\ Encode(i, cut) # <<>>
         /\ HeadAt(Encode(i, cut)[1], i, 0)
         /\ StreamOK(Encode(i, cut), i, TRUE)
  <1>. DEFINE B(p) == [call |-> i, place |-> p]
  <1>1. /\ Size \in Nat \ {0} /\ None \notin Nat /\ i \in Nat
        /\ \A p \in 1..Size : B(p) \in Tokens /\ B(p) \in Bytes
        /\ cut \in 0..Size \/ cut = None
    BY ConnectionAssumption DEF Ids, Tokens, Bytes
  <1>2. Payload(i) \in Seq(Tokens) /\ Len(Payload(i)) = Size /\ \A p \in 1..Size : Payload(i)[p] = B(p)
    BY <1>1 DEF Payload
  <1>3. CASE cut = None
    <2>. DEFINE h == [call |-> i, length |-> Size, last |-> TRUE]
                e == <<h>> \o Payload(i)
    <2>1. Encode(i, cut) = e
      BY <1>3 DEF Encode, Header
    <2>2. h \in Heads /\ h \in Tokens /\ Before(h) = 0
      BY <1>1 DEF Heads, Tokens, Before
    <2>3. /\ e \in Seq(Tokens) /\ Len(e) = Size + 1 /\ DOMAIN e = 1..Size + 1 /\ e[1] = h
          /\ \A p \in 1..Size : e[p + 1] = B(p)
      BY <1>1, <1>2, <2>2
    <2>. HIDE DEF e
    <2>4. \A k \in DOMAIN e : e[k] \in Heads => k = 1
      <3>1. SUFFICES ASSUME NEW k \in 2..Size + 1
                     PROVE  e[k] \notin Heads
        BY <1>1, <2>3
      <3>2. k - 1 \in 1..Size /\ k = (k - 1) + 1
        BY <1>1
      <3>3. e[k] = B(k - 1)
        BY <2>3, <3>2
      <3>. QED  BY <1>1, <3>2, <3>3, TokenTypes
    <2>5. Fits(e, 1, i, 0, Size, TRUE)
      <3>1. 0 + Size = Size /\ 1 + Size + 1 \notin DOMAIN e
        BY <1>1, <2>3
      <3>2. ASSUME NEW j \in 1..Size
            PROVE  e[1 + j] = [call |-> i, place |-> 0 + j]
        <4>1. 1 + j = j + 1 /\ 0 + j = j
          BY <1>1
        <4>. QED  BY <2>3, <4>1
      <3>3. Size <= Size
        BY <1>1
      <3>. QED  BY <3>1, <3>2, <3>3, Zenon DEF Fits
    <2>6. Complete(e, i, 1, i, Size, TRUE)
      BY <1>1, <2>3 DEF Complete
    <2>7. StreamOK(e, i, TRUE)
      <3>. SUFFICES ASSUME NEW k \in DOMAIN e, e[k] \in Heads
                    PROVE  /\ e[k].call \in 1..i
                           /\ Fits(e, k, e[k].call, Before(e[k]), e[k].length, e[k].last)
                           /\ Complete(e, i, k, e[k].call, e[k].length, e[k].last)
        BY DEF StreamOK
      <3>1. k = 1 /\ e[k] = h
        BY <2>3, <2>4
      <3>2. h.call = i /\ h.length = Size /\ h.last = TRUE /\ i \in 1..i
        BY <1>1 DEF Ids
      <3>. HIDE DEF h
      <3>. QED  BY <2>2, <2>5, <2>6, <3>1, <3>2
    <2>8. HeadAt(e[1], i, 0)
      BY <1>1, <2>2, <2>3 DEF HeadAt
    <2>9. e # <<>>
      BY <1>1, <2>3
    <2>. QED  BY <2>1, <2>3, <2>7, <2>8, <2>9
  <1>4. CASE cut \in 0..Size
    <2>. DEFINE h == [call |-> i, length |-> cut, last |-> FALSE]
                g == [call |-> i, length |-> Size - cut, last |-> TRUE]
                a == SubSeq(Payload(i), 1, cut)
                b == SubSeq(Payload(i), cut + 1, Size)
                e == <<h>> \o a \o <<g>> \o b
    <2>1. Encode(i, cut) = e
      <3>1. cut # None
        BY <1>1, <1>4
      <3>. QED  BY <3>1 DEF Encode, Header
    <2>2. /\ h \in Heads /\ h \in Tokens /\ Before(h) = 0
          /\ g \in Heads /\ g \in Tokens /\ Before(g) = cut
      BY <1>1, <1>4 DEF Heads, Tokens, Before
    <2>3. /\ a \in Seq(Tokens) /\ Len(a) = cut /\ \A p \in 1..cut : a[p] = B(p)
          /\ b \in Seq(Tokens) /\ Len(b) = Size - cut
          /\ \A p \in 1..Size - cut : b[p] = B(cut + p)
      BY SMTT(30), <1>1, <1>2, <1>4
    <2>4. /\ e \in Seq(Tokens) /\ Len(e) = Size + 2 /\ DOMAIN e = 1..Size + 2
          /\ e[1] = h /\ \A p \in 1..cut : e[p + 1] = B(p)
          /\ e[cut + 2] = g /\ \A p \in 1..Size - cut : e[cut + 2 + p] = B(cut + p)
      <3>. HIDE DEF h, g, a, b, B
      <3>. DEFINE c == <<h>> \o a
                  d == c \o <<g>>
      <3>1. c \in Seq(Tokens) /\ Len(c) = cut + 1 /\ c[1] = h /\ \A p \in 1..cut : c[p + 1] = B(p)
        BY <1>1, <1>4, <2>2, <2>3
      <3>. HIDE DEF c
      <3>2. /\ d \in Seq(Tokens) /\ Len(d) = cut + 2 /\ d[cut + 2] = g
            /\ \A x \in 1..cut + 1 : d[x] = c[x]
        BY <1>1, <1>4, <2>2, <3>1
      <3>. HIDE DEF d
      <3>3. /\ e = d \o b
        BY DEF c, d
      <3>. HIDE DEF e
      <3>4. /\ e \in Seq(Tokens) /\ Len(e) = Size + 2 /\ DOMAIN e = 1..Size + 2
            /\ \A x \in 1..cut + 2 : e[x] = d[x]
            /\ \A p \in 1..Size - cut : e[cut + 2 + p] = b[p]
        BY SMTT(30), <1>1, <1>4, <2>3, <3>2, <3>3
      <3>5. e[1] = h /\ e[cut + 2] = g
        BY <1>1, <1>4, <3>1, <3>2, <3>4
      <3>6. \A p \in 1..cut : e[p + 1] = B(p)
        <4>1. \A p \in 1..cut : p + 1 \in 1..cut + 1 /\ p + 1 \in 1..cut + 2
          BY <1>1, <1>4
        <4>. QED  BY <3>1, <3>2, <3>4, <4>1
      <3>. QED  BY <2>3, <3>4, <3>5, <3>6
    <2>. HIDE DEF e
    <2>5. \A k \in DOMAIN e : e[k] \in Heads => k = 1 \/ k = cut + 2
      <3>1. SUFFICES ASSUME NEW k \in 1..Size + 2, k # 1, k # cut + 2
                     PROVE  e[k] \notin Heads
        BY <2>4
      <3>2. CASE k < cut + 2
        <4>1. k - 1 \in 1..cut /\ k = (k - 1) + 1 /\ k - 1 \in 1..Size
          BY <1>1, <1>4, <3>1, <3>2
        <4>2. e[k] = B(k - 1)
          BY <2>4, <4>1
        <4>. QED  BY <1>1, <4>1, <4>2, TokenTypes
      <3>3. CASE k > cut + 2
        <4>. DEFINE p == k - (cut + 2)
        <4>1. p \in 1..Size - cut /\ k = cut + 2 + p /\ cut + p \in 1..Size
          BY <1>1, <1>4, <3>1, <3>3
        <4>. HIDE DEF p
        <4>2. e[k] = B(cut + p)
          BY <2>4, <4>1
        <4>. QED  BY <1>1, <4>1, <4>2, TokenTypes
      <3>. QED  BY <1>1, <1>4, <3>1, <3>2, <3>3
    <2>6. HeadAt(h, i, 0) /\ HeadAt(g, i, 0 + cut)
      BY <1>1, <1>4, <2>2 DEF HeadAt
    <2>7. Fits(e, 1, i, 0, cut, FALSE)
      <3>1. 0 + cut <= Size /\ 1 + cut + 1 = cut + 2
        BY <1>1, <1>4
      <3>2. ASSUME NEW j \in 1..cut
            PROVE  e[1 + j] = [call |-> i, place |-> 0 + j]
        <4>1. 1 + j = j + 1 /\ 0 + j = j
          BY <1>1, <1>4
        <4>. QED  BY <2>4, <4>1
      <3>3. HeadAt(e[1 + cut + 1], i, 0 + cut)
        BY <2>4, <2>6, <3>1
      <3>. QED  BY <3>1, <3>2, <3>3, Zenon DEF Fits
    <2>8. Fits(e, cut + 2, i, cut, Size - cut, TRUE)
      <3>1. cut + (Size - cut) = Size /\ Size <= Size /\ cut + 2 + (Size - cut) + 1 \notin DOMAIN e
        BY <1>1, <1>4, <2>4
      <3>. QED  BY <2>4, <3>1 DEF Fits
    <2>9. Complete(e, i, 1, i, cut, FALSE) /\ Complete(e, i, cut + 2, i, Size - cut, TRUE)
      BY <1>1, <1>4, <2>4 DEF Complete
    <2>10. StreamOK(e, i, TRUE)
      <3>. SUFFICES ASSUME NEW k \in DOMAIN e, e[k] \in Heads
                    PROVE  /\ e[k].call \in 1..i
                           /\ Fits(e, k, e[k].call, Before(e[k]), e[k].length, e[k].last)
                           /\ Complete(e, i, k, e[k].call, e[k].length, e[k].last)
        BY DEF StreamOK
      <3>1. (k = 1 /\ e[k] = h) \/ (k = cut + 2 /\ e[k] = g)
        BY <2>4, <2>5
      <3>2. /\ h.call = i /\ h.length = cut /\ h.last = FALSE
            /\ g.call = i /\ g.length = Size - cut /\ g.last = TRUE
            /\ i \in 1..i
        BY <1>1 DEF Ids
      <3>. HIDE DEF h, g
      <3>. QED  BY <2>2, <2>7, <2>8, <2>9, <3>1, <3>2
    <2>11. e # <<>> /\ HeadAt(e[1], i, 0)
      BY <1>1, <2>4, <2>6
    <2>. QED  BY <2>1, <2>4, <2>10, <2>11
  <1>. QED  BY <1>1, <1>3, <1>4

\* The streams behind and before one another.
UnreadIs ==
  /\ Unread \in Seq(Tokens)
  /\ chunk \o (IF Open THEN wire ELSE <<>>) \in Seq(Tokens)
  /\ Unread = pipe \o (chunk \o (IF Open THEN wire ELSE <<>>))

LEMMA UnreadTypes == WireOK => UnreadIs
  <1>. SUFFICES ASSUME WireOK
                PROVE  UnreadIs
    OBVIOUS
  <1>. DEFINE w == IF Open THEN wire ELSE <<>>
  <1>1. w \in Seq(Tokens) /\ pipe \in Seq(Tokens) /\ chunk \in Seq(Tokens)
    BY DEF WireOK
  <1>. HIDE DEF w
  <1>2. (pipe \o chunk) \o w = pipe \o (chunk \o w)
    <2>1. \A a, b, c \in Seq(Tokens) : (a \o b) \o c = a \o (b \o c)
      BY ConcatAssociative
    <2>. QED  BY <1>1, <2>1, Zenon
  <1>3. Unread = (pipe \o chunk) \o w
    BY DEF Unread, w
  <1>4. Unread \in Seq(Tokens) /\ chunk \o w \in Seq(Tokens)
    BY <1>1, <1>3
  <1>. QED  BY <1>2, <1>3, <1>4 DEF UnreadIs, w

LEMMA RestOfFront ==
  ASSUME NEW p \in Seq(Tokens), NEW q \in Seq(Tokens), NEW d \in 0..Len(p)
  PROVE  /\ SubSeq(p, d + 1, Len(p)) \in Seq(Tokens)
         /\ Rest(p \o q, d, SubSeq(p, d + 1, Len(p)) \o q)
  <1>. DEFINE t == SubSeq(p, d + 1, Len(p))
              r == p \o q
              z == t \o q
  <1>1. /\ Len(p) \in Nat /\ Len(q) \in Nat
        /\ t \in Seq(Tokens) /\ Len(t) = Len(p) - d /\ \A x \in 1..Len(p) - d : t[x] = p[x + d]
    OBVIOUS
  <1>2. /\ Len(r) = Len(p) + Len(q) /\ \A x \in 1..Len(p) : r[x] = p[x]
        /\ \A x \in 1..Len(q) : r[x + Len(p)] = q[x]
    BY <1>1
  <1>. HIDE DEF t, r
  <1>3. /\ Len(z) = Len(p) - d + Len(q) /\ \A x \in 1..Len(p) - d : z[x] = t[x]
        /\ \A x \in 1..Len(q) : z[x + (Len(p) - d)] = q[x]
    <2>1. /\ Len(z) = Len(t) + Len(q) /\ \A x \in 1..Len(t) : z[x] = t[x]
          /\ \A x \in 1..Len(q) : z[x + Len(t)] = q[x]
      <3>1. t \in Seq(Tokens)
        BY <1>1
      <3>. QED  BY <3>1
    <2>. HIDE DEF z
    <2>. QED  BY <1>1, <2>1
  <1>. HIDE DEF z
  <1>4. ASSUME NEW x \in 1..Len(z)
        PROVE  z[x] = r[x + d]
    <2>1. CASE x <= Len(p) - d
      <3>1. x \in 1..Len(p) - d /\ x + d \in 1..Len(p)
        BY <1>1, <2>1
      <3>. QED  BY <1>1, <1>2, <1>3, <3>1
    <2>2. CASE x > Len(p) - d
      <3>. DEFINE y == x - (Len(p) - d)
      <3>1. y \in 1..Len(q) /\ x = y + (Len(p) - d) /\ x + d = y + Len(p)
        BY <1>1, <1>3, <2>2
      <3>. HIDE DEF y
      <3>. QED  BY <1>2, <1>3, <3>1
    <2>. QED  BY <1>1, <2>1, <2>2
  <1>5. Len(r) = Len(z) + d
    BY <1>1, <1>2, <1>3
  <1>. QED  BY <1>1, <1>4, <1>5 DEF Rest, t, r, z

\* The reader takes d units of the fragment that it reads.
LEMMA FitsAdvance ==
  ASSUME NEW s \in Seq(Tokens), NEW t \in Seq(Tokens), NEW d \in Nat, Rest(s, d, t),
         NEW n \in Nat, d <= n
  PROVE  \A u \in Nat : \A i, m : \A l \in BOOLEAN :
           /\ Fits(s, 0, i, u, n, l) => Fits(t, 0, i, u + d, n - d, l)
           /\ Complete(s, m, 0, i, n, l) => Complete(t, m, 0, i, n - d, l)
  <1>. SUFFICES ASSUME NEW u \in Nat, NEW i, NEW l \in BOOLEAN, NEW m
                PROVE  /\ Fits(s, 0, i, u, n, l) => Fits(t, 0, i, u + d, n - d, l)
                       /\ Complete(s, m, 0, i, n, l) => Complete(t, m, 0, i, n - d, l)
    OBVIOUS
  <1>1. /\ Len(s) \in Nat /\ Len(t) \in Nat
        /\ DOMAIN s = 1..Len(s) /\ DOMAIN t = 1..Len(t)
        /\ Len(s) = Len(t) + d /\ \A x \in 1..Len(t) : t[x] = s[x + d]
        /\ Size \in Nat
    BY ConnectionAssumption DEF Rest
  <1>2. ASSUME Fits(s, 0, i, u, n, l)
        PROVE  Fits(t, 0, i, u + d, n - d, l)
    <2>0. (u + d) + (n - d) = u + n /\ n - d \in Nat
      OBVIOUS
    <2>1. (u + d) + (n - d) <= Size /\ (l => (u + d) + (n - d) = Size)
      BY <1>2, <2>0 DEF Fits
    <2>2. ASSUME NEW j \in 1..n - d, 0 + j \in DOMAIN t
          PROVE  t[0 + j] = [call |-> i, place |-> (u + d) + j]
      <3>1. j \in 1..Len(t) /\ 0 + j = j
        BY <1>1, <2>2
      <3>2. t[0 + j] = s[0 + (j + d)] /\ 0 + (j + d) \in DOMAIN s
        BY <1>1, <3>1
      <3>3. j + d \in 1..n /\ u + (j + d) = (u + d) + j
        BY <2>0
      <3>. QED  BY <1>2, <3>2, <3>3 DEF Fits
    <2>3. ASSUME 0 + (n - d) + 1 \in DOMAIN t
          PROVE  IF l THEN HeadAt(t[0 + (n - d) + 1], i + 1, 0)
                 ELSE HeadAt(t[0 + (n - d) + 1], i, (u + d) + (n - d))
      <3>1. 0 + (n - d) + 1 \in 1..Len(t) /\ 0 + (n - d) + 1 + d = 0 + n + 1
        BY SMTT(30), <1>1, <2>0, <2>3
      <3>2. t[0 + (n - d) + 1] = s[0 + n + 1]
        BY <1>1, <3>1
      <3>3. 0 + n + 1 \in DOMAIN s
        BY <1>1, <3>1
      <3>. QED  BY <1>2, <2>0, <3>2, <3>3 DEF Fits
    <2>. QED  BY <2>1, <2>2, <2>3 DEF Fits
  <1>3. ASSUME Complete(s, m, 0, i, n, l)
        PROVE  Complete(t, m, 0, i, n - d, l)
    <2>1. 0 + n <= Len(s) /\ (0 + n = Len(s) => l /\ i = m)
      BY <1>3 DEF Complete
    <2>2. 0 + (n - d) <= Len(t) /\ (0 + (n - d) = Len(t) => 0 + n = Len(s))
      <3>1. Len(s) \in Nat /\ Len(t) \in Nat /\ Len(s) = Len(t) + d
        BY <1>1
      <3>. QED  BY <2>1, <3>1
    <2>. QED  BY <2>1, <2>2 DEF Complete
  <1>. QED  BY <1>2, <1>3

LEMMA UnreadNext == WireOK' => UnreadIs'
  BY UnreadTypes, PTL

-----------------------------------------------------------------------------
\* What a step that leaves the stream and the reader alone has to show.
LEMMA RecordsKept ==
  ASSUME RecordsOK, WireOK', Unread' = Unread, Open' => Open,
         UNCHANGED <<sent, reader, left, last, fragment>>,
         Len(tasks') = Len(tasks), DOMAIN tasks' = DOMAIN tasks,
         \A i \in DOMAIN tasks : tasks'[i].record = tasks[i].record
  PROVE  RecordsOK'
  <1>1. Current' = Current
    BY DEF Current
  <1>2. StreamOK(Unread, Len(sent), Open)'
    <2>1. StreamOK(Unread, Len(sent), Open)
      BY DEF RecordsOK
    <2>. QED  BY <2>1 DEF StreamOK
  <1>3. BodyOK => BodyOK'
    BY <1>1 DEF BodyOK
  <1>4. HeaderOK => HeaderOK'
    BY <1>1 DEF HeaderOK
  <1>5. RecordsAreWhole'
    BY DEF RecordsOK, RecordsAreWhole
  <1>. QED  BY <1>1, <1>2, <1>3, <1>4, <1>5 DEF RecordsOK

\* The task of the socket moves the stream on, and none of it changes.
LEMMA ReadSocketRecords ==
  ASSUME RecordsOK, NEW n \in 1..ChunkCap, ReadSocket(n)
  PROVE  RecordsOK'
  <1>1. /\ main = "select" /\ main' = "copy" /\ n \in 1..Len(wire)
        /\ chunk' = SubSeq(wire, 1, n) /\ wire' = SubSeq(wire, n + 1, Len(wire))
        /\ UNCHANGED <<sent, pipe, assembly, tasks>>
    BY DEF ReadSocket
  <1>2. chunk = <<>> /\ wire \in Seq(Tokens) /\ pipe \in Seq(Tokens)
    BY <1>1 DEF RecordsOK, WireOK
  <1>3. chunk' \in Seq(Tokens) /\ wire' \in Seq(Tokens)
    BY <1>1, <1>2
  <1>4. chunk' \o wire' = wire
    BY <1>1, <1>2
  <1>5. WireOK'
    BY <1>1, <1>3 DEF RecordsOK, WireOK, assembly
  <1>6. Unread' = Unread
    <2>0. \A x, y, z \in Seq(Tokens) : (x \o y) \o z = x \o (y \o z)
      BY SMTT(30), ConcatAssociative
    <2>1. Unread' = pipe \o (chunk' \o wire')
      <3>1. Unread' = (pipe \o chunk') \o wire'
        BY <1>1 DEF Unread, Open
      <3>. QED  BY <1>2, <1>3, <2>0, <3>1
    <2>2. Unread = pipe \o (<<>> \o wire)
      BY <1>1, <1>2, UnreadTypes DEF Open, RecordsOK, UnreadIs
    <2>3. <<>> \o wire = wire
      BY <1>2, ConcatEmptySeq
    <2>. QED  BY <1>4, <2>1, <2>2, <2>3
  <1>. QED  BY <1>1, <1>5, <1>6, RecordsKept DEF Open, assembly

LEMMA CutSequence ==
  ASSUME NEW s \in Seq(Tokens), NEW n \in 0..Len(s)
  PROVE  /\ SubSeq(s, 1, n) \in Seq(Tokens) /\ Len(SubSeq(s, 1, n)) = n
         /\ SubSeq(s, n + 1, Len(s)) \in Seq(Tokens)
         /\ SubSeq(s, 1, n) \o SubSeq(s, n + 1, Len(s)) = s
         /\ n = Len(s) => SubSeq(s, n + 1, Len(s)) = <<>>
  <1>. DEFINE a == SubSeq(s, 1, n)
              b == SubSeq(s, n + 1, Len(s))
  <1>1. /\ Len(s) \in Nat
        /\ a \in Seq(Tokens) /\ Len(a) = n /\ \A x \in 1..n : a[x] = s[x]
        /\ b \in Seq(Tokens) /\ Len(b) = Len(s) - n
        /\ \A x \in 1..Len(s) - n : b[x] = s[x + n]
    OBVIOUS
  <1>2. n = Len(s) => b = <<>>
    OBVIOUS
  <1>3. a \o b = s
    <2>. HIDE DEF a, b
    <2>1. a \o b \in Seq(Tokens) /\ Len(a \o b) = Len(s)
      BY <1>1
    <2>2. ASSUME NEW x \in 1..Len(s)
          PROVE  (a \o b)[x] = s[x]
      <3>1. CASE x <= n
        BY <1>1, <3>1
      <3>2. CASE x > n
        <4>1. (a \o b)[x] = b[x - n] /\ x - n \in 1..Len(s) - n /\ (x - n) + n = x
          BY <1>1, <3>2
        <4>. QED  BY <1>1, <4>1
      <3>. QED  BY <1>1, <3>1, <3>2
    <2>3. \A r \in Seq(Tokens) : Len(r) = Len(s) /\ (\A x \in 1..Len(s) : r[x] = s[x]) => r = s
      OBVIOUS
    <2>. QED  BY <2>1, <2>2, <2>3, Zenon
  <1>. QED  BY <1>1, <1>2, <1>3

LEMMA LeastIs ==
  ASSUME NEW a \in Nat, NEW b \in Int
  PROVE  Least(a, b) \in Int /\ Least(a, b) <= a /\ Least(a, b) <= b
  BY DEF Least

LEMMA CopyRecords ==
  ASSUME RecordsOK, Copy
  PROVE  RecordsOK'
  <1>. DEFINE n == Least(Len(chunk), PipeCap - Len(pipe))
  <1>0. /\ chunk \in Seq(Tokens) /\ pipe \in Seq(Tokens) /\ wire \in Seq(Tokens)
        /\ PipeCap \in Nat
    BY ConnectionAssumption DEF RecordsOK, WireOK
  <1>1. n \in 1..Len(chunk)
    BY <1>0, LeastIs DEF Copy
  <1>2. /\ main = "copy" /\ main' = (IF n = Len(chunk) THEN "select" ELSE "copy")
        /\ pipe' = pipe \o SubSeq(chunk, 1, n) /\ chunk' = SubSeq(chunk, n + 1, Len(chunk))
        /\ UNCHANGED <<sent, wire, assembly, tasks>>
    BY DEF Copy, client
  <1>. HIDE DEF n
  <1>. DEFINE a == SubSeq(chunk, 1, n)
  <1>3. /\ a \in Seq(Tokens) /\ chunk' \in Seq(Tokens) /\ a \o chunk' = chunk
        /\ n = Len(chunk) => chunk' = <<>>
    <2>1. n \in 0..Len(chunk)
      BY <1>0, <1>1
    <2>2. /\ a \in Seq(Tokens) /\ SubSeq(chunk, n + 1, Len(chunk)) \in Seq(Tokens)
          /\ a \o SubSeq(chunk, n + 1, Len(chunk)) = chunk
          /\ n = Len(chunk) => SubSeq(chunk, n + 1, Len(chunk)) = <<>>
      BY <1>0, <2>1, CutSequence, Zenon
    <2>. QED  BY <1>2, <2>2
  <1>4. pipe' = pipe \o a /\ pipe' \in Seq(Tokens)
    BY <1>0, <1>2, <1>3
  <1>. HIDE DEF a
  <1>5. WireOK'
    BY <1>2, <1>3, <1>4 DEF RecordsOK, WireOK, assembly
  <1>6. Unread' = Unread
    <2>0. \A x, y, z \in Seq(Tokens) : (x \o y) \o z = x \o (y \o z)
      BY ConcatAssociative
    <2>1. Unread' = (pipe' \o chunk') \o wire
      BY <1>2 DEF Unread, Open
    <2>2. Unread = (pipe \o chunk) \o wire
      BY <1>2 DEF Unread, Open
    <2>3. pipe' \o chunk' = pipe \o (a \o chunk')
      <3>1. (pipe \o a) \o chunk' = pipe \o (a \o chunk')
        BY <1>0, <1>3, <2>0, Zenon
      <3>. QED  BY <1>4, <3>1
    <2>. QED  BY <1>3, <2>1, <2>2, <2>3
  <1>. QED  BY <1>2, <1>5, <1>6, RecordsKept DEF Open, assembly

\* The end of the connection cuts the stream off.
LEMMA CloseRecords ==
  ASSUME RecordsOK, main = "select", Close, UNCHANGED <<sent, chunk, pipe, assembly, tasks>>
  PROVE  RecordsOK'
  <1>0. /\ pipe \in Seq(Tokens) /\ wire \in Seq(Tokens) /\ chunk = <<>>
        /\ main' = "closed" /\ wire' = <<>>
    BY DEF RecordsOK, WireOK, Close
  <1>1. WireOK'
    BY <1>0 DEF RecordsOK, WireOK, assembly
  <1>2. ~Open' /\ Open
    BY <1>0 DEF Open
  <1>3. Unread' = pipe
    BY <1>0, <1>2 DEF Unread
  <1>4. Unread = pipe \o wire /\ Unread \in Seq(Tokens)
    BY <1>0, <1>2 DEF Unread
  <1>5. /\ Len(pipe) <= Len(Unread) /\ \A x \in 1..Len(pipe) : pipe[x] = Unread[x]
        /\ pipe # <<>> => Unread # <<>> /\ pipe[1] = Unread[1]
    BY <1>0, <1>4
  <1>6. /\ StreamOK(pipe, Len(sent), FALSE)
        /\ \A i, l : \A u, n \in Nat : Fits(Unread, 0, i, u, n, l) => Fits(pipe, 0, i, u, n, l)
    <2>1. StreamOK(Unread, Len(sent), Open)
      BY DEF RecordsOK
    <2>2. Unread \in Seq(Tokens) /\ pipe \in Seq(Tokens)
      BY <1>0, <1>4
    <2>. HIDE DEF Unread
    <2>. QED  BY <1>5, <2>1, <2>2, StreamCut
  <1>7. StreamOK(Unread, Len(sent), Open)'
    BY <1>2, <1>3, <1>6 DEF StreamOK
  <1>8. Current' = Current /\ UNCHANGED <<sent, reader, left, last, fragment, tasks>>
    BY DEF Current, assembly
  <1>9. BodyOK => BodyOK'
    <2>1. Len(fragment) \in Nat /\ left \in Nat
      BY DEF RecordsOK, WireOK
    <2>. QED  BY <1>2, <1>3, <1>6, <1>8, <2>1 DEF BodyOK
  <1>10. HeaderOK => HeaderOK'
    BY <1>2, <1>3, <1>5, <1>8 DEF HeaderOK
  <1>. QED  BY <1>1, <1>7, <1>8, <1>9, <1>10 DEF RecordsOK, RecordsAreWhole

\* A header that fits is the one of the record that the reader puts together.
LEMMA ReadHeaderRecords ==
  ASSUME RecordsOK, ReadHeader
  PROVE  RecordsOK'
  <1>. DEFINE h == Head(pipe)
              q == chunk \o (IF Open THEN wire ELSE <<>>)
  <1>1. /\ reader = "header" /\ reader' = "body" /\ pipe # <<>>
        /\ left' = h.length /\ last' = h.last /\ pipe' = Tail(pipe)
        /\ UNCHANGED <<sent, main, chunk, wire, fragment, tasks>>
    BY DEF ReadHeader, connected, client, socket
  <1>2. /\ pipe \in Seq(Tokens) /\ pipe' \in Seq(Tokens) /\ Len(pipe) \in Nat \ {0}
        /\ pipe' = SubSeq(pipe, 1 + 1, Len(pipe)) /\ h = pipe[1]
    BY <1>1 DEF RecordsOK, WireOK
  <1>3. q \in Seq(Tokens) /\ Unread = pipe \o q /\ Unread \in Seq(Tokens)
    BY UnreadTypes DEF RecordsOK, UnreadIs
  <1>. HIDE DEF q
  <1>4. Unread[1] = h /\ 1 \in DOMAIN Unread /\ Unread # <<>>
    BY <1>2, <1>3
  <1>5. HeadAt(h, Current, Len(fragment))
    BY <1>1, <1>4 DEF RecordsOK, HeaderOK
  <1>. HIDE DEF h
  <1>6. /\ h \in Heads /\ h.call = Current /\ h.length \in Nat /\ h.last \in BOOLEAN
        /\ Before(h) = Len(fragment) /\ Len(fragment) \in Nat /\ Size \in Nat
    <2>1. Len(fragment) \in Nat /\ Size \in Nat /\ Len(fragment) <= Size
      BY ConnectionAssumption DEF RecordsOK, WireOK
    <2>2. h \in Heads /\ h.call = Current
      BY <1>5 DEF HeadAt
    <2>3. h.length \in Nat /\ h.last \in BOOLEAN
      BY <2>2, TokenTypes
    <2>4. IF h.last THEN h.length = Size - Len(fragment) ELSE Len(fragment) = 0
      BY <1>5 DEF HeadAt
    <2>. QED  BY <2>1, <2>2, <2>3, <2>4 DEF Before
  <1>7. WireOK'
    BY <1>1, <1>2, <1>6 DEF RecordsOK, WireOK
  <1>8. Unread' \in Seq(Tokens) /\ Unread' = pipe' \o q
    <2>1. q' = q
      BY <1>1 DEF q, Open
    <2>2. Unread' \in Seq(Tokens) /\ Unread' = pipe' \o q'
      BY <1>7, UnreadNext DEF UnreadIs, q
    <2>. QED  BY <2>1, <2>2
  <1>9. Rest(Unread, 1, Unread')
    <2>1. Rest(pipe \o q, 1, SubSeq(pipe, 1 + 1, Len(pipe)) \o q)
      <3>1. 1 \in 0..Len(pipe)
        BY <1>2
      <3>. QED  BY <1>2, <1>3, <3>1, RestOfFront, Zenon
    <2>. QED  BY <1>2, <1>3, <1>8, <2>1
  <1>10. /\ StreamOK(Unread, Len(sent), Open)
         /\ Current \in 1..Len(sent)
         /\ Fits(Unread, 0 + 1, Current, Len(fragment), h.length, h.last)
         /\ Open => Complete(Unread, Len(sent), 0 + 1, Current, h.length, h.last)
    <2>1. StreamOK(Unread, Len(sent), Open)
      BY DEF RecordsOK
    <2>2. /\ h.call \in 1..Len(sent)
          /\ Fits(Unread, 1, h.call, Before(h), h.length, h.last)
          /\ Open => Complete(Unread, Len(sent), 1, h.call, h.length, h.last)
      BY <1>4, <1>6, <2>1, Zenon DEF StreamOK
    <2>3. 0 + 1 = 1
      OBVIOUS
    <2>. QED  BY <1>6, <2>1, <2>2, <2>3
  <1>11. /\ Fits(Unread', 0, Current, Len(fragment), h.length, h.last)
         /\ Open => Complete(Unread', Len(sent), 0, Current, h.length, h.last)
    <2>1. \A k, u, n \in Nat : \A i, m : \A l \in BOOLEAN :
            /\ Fits(Unread, k + 1, i, u, n, l) => Fits(Unread', k, i, u, n, l)
            /\ Complete(Unread, m, k + 1, i, n, l) => Complete(Unread', m, k, i, n, l)
      <3>. 1 \in Nat
        OBVIOUS
      <3>. QED  BY <1>3, <1>8, <1>9, FitsBehind, Zenon
    <2>2. 0 \in Nat
      OBVIOUS
    <2>. QED  BY <1>6, <1>10, <2>1, <2>2, Zenon
  <1>12. StreamOK(Unread', Len(sent), Open)
    <2>. 1 \in Nat
      OBVIOUS
    <2>. QED  BY <1>3, <1>8, <1>9, <1>10, StreamBehind, Zenon
  <1>13. Open' = Open /\ Current' = Current
    BY <1>1 DEF Open, Current
  <1>14. BodyOK'
    <2>1. Current <= Len(sent)
      BY <1>10
    <2>. QED  BY <1>1, <1>11, <1>13, <2>1 DEF BodyOK
  <1>15. StreamOK(Unread, Len(sent), Open)'
    BY <1>1, <1>12, <1>13
  <1>. QED  BY <1>1, <1>7, <1>13, <1>14, <1>15 DEF RecordsOK, RecordsAreWhole

LEMMA ReadBodyRecords ==
  ASSUME RecordsOK, ReadBody
  PROVE  RecordsOK'
  <1>. DEFINE n == Least(Len(pipe), left)
              q == chunk \o (IF Open THEN wire ELSE <<>>)
              a == SubSeq(pipe, 1, n)
  <1>1. /\ reader = "body" /\ reader' = "body" /\ pipe # <<>> /\ left > 0
        /\ fragment' = fragment \o a /\ pipe' = SubSeq(pipe, n + 1, Len(pipe))
        /\ left' = left - n
        /\ UNCHANGED <<sent, main, chunk, wire, last, tasks>>
    BY DEF ReadBody, connected, client, socket
  <1>2. /\ pipe \in Seq(Tokens) /\ left \in Nat /\ fragment \in Seq(Bytes) /\ last \in BOOLEAN
        /\ Size \in Nat /\ MaxCalls \in Nat /\ Len(sent) \in Nat /\ Len(sent) <= MaxCalls
        /\ Len(tasks) \in Nat /\ Len(fragment) \in Nat
    BY ConnectionAssumption DEF RecordsOK, WireOK
  <1>3. n \in 0..Len(pipe) /\ n \in Nat /\ n <= left
    BY <1>1, <1>2 DEF Least
  <1>. HIDE DEF n
  <1>4. /\ a \in Seq(Tokens) /\ Len(a) = n /\ \A x \in 1..n : a[x] = pipe[x]
        /\ pipe' \in Seq(Tokens)
    BY <1>1, <1>2, <1>3
  <1>. HIDE DEF a
  <1>5. q \in Seq(Tokens) /\ Unread = pipe \o q /\ Unread \in Seq(Tokens)
    BY UnreadTypes DEF RecordsOK, UnreadIs
  <1>. HIDE DEF q
  <1>6. BodyOK
    BY <1>1 DEF RecordsOK
  <1>7. /\ Current \in 1..Len(sent)
        /\ Fits(Unread, 0, Current, Len(fragment), left, last)
        /\ Open => Complete(Unread, Len(sent), 0, Current, left, last)
    <2>1. Current \in Nat /\ Current >= 1
      BY <1>2 DEF Current
    <2>. QED  BY <1>2, <1>6, <2>1 DEF BodyOK
  <1>8. ASSUME NEW x \in 1..n
        PROVE  a[x] = [call |-> Current, place |-> Len(fragment) + x]
    <2>1. x \in 1..left /\ 0 + x = x /\ x \in DOMAIN Unread /\ Unread[x] = pipe[x]
      BY <1>2, <1>3, <1>5
    <2>2. Unread[0 + x] = [call |-> Current, place |-> Len(fragment) + x]
      BY <1>7, <2>1 DEF Fits
    <2>. QED  BY <1>4, <2>1, <2>2
  <1>9. Len(fragment) + left <= Size
    BY <1>7 DEF Fits
  <1>10. /\ fragment' \in Seq(Bytes) /\ Len(fragment') = Len(fragment) + n
         /\ \A p \in DOMAIN fragment' : fragment'[p] = [call |-> Current, place |-> p]
    <2>1. a \in Seq(Bytes)
      <3>1. \A x \in 1..n : a[x] \in Bytes
        <4>. SUFFICES ASSUME NEW x \in 1..n
                      PROVE  a[x] \in Bytes
          OBVIOUS
        <4>1. Len(fragment) + x \in 1..Size /\ Current \in Ids
          BY <1>2, <1>3, <1>7, <1>9 DEF Ids
        <4>2. a[x] = [call |-> Current, place |-> Len(fragment) + x]
          BY <1>8
        <4>. QED  BY <4>1, <4>2 DEF Bytes
      <3>. QED  BY <1>4, <3>1
    <2>2. /\ fragment' \in Seq(Bytes) /\ Len(fragment') = Len(fragment) + n
          /\ DOMAIN fragment' = 1..Len(fragment) + n
          /\ \A p \in 1..Len(fragment) : fragment'[p] = fragment[p]
          /\ \A x \in 1..n : fragment'[Len(fragment) + x] = a[x]
      <3>. DEFINE r == fragment \o a
      <3>1. /\ r \in Seq(Bytes) /\ Len(r) = Len(fragment) + Len(a)
            /\ \A p \in 1..Len(fragment) : r[p] = fragment[p]
            /\ \A x \in 1..Len(a) : r[Len(fragment) + x] = a[x]
        BY <1>2, <2>1
      <3>. HIDE DEF r
      <3>2. fragment' = r
        BY <1>1 DEF r
      <3>. QED  BY <1>2, <1>3, <1>4, <3>1, <3>2
    <2>3. \A p \in 1..Len(fragment) : fragment[p] = [call |-> Current, place |-> p]
      <3>1. DOMAIN fragment = 1..Len(fragment)
        BY <1>2
      <3>. QED  BY <3>1 DEF RecordsOK
    <2>4. ASSUME NEW p \in 1..Len(fragment) + n
          PROVE  fragment'[p] = [call |-> Current, place |-> p]
      <3>1. CASE p <= Len(fragment)
        <4>1. p \in 1..Len(fragment)
          BY <1>2, <3>1
        <4>. QED  BY <2>2, <2>3, <4>1
      <3>2. CASE p > Len(fragment)
        <4>. DEFINE x == p - Len(fragment)
        <4>1. x \in 1..n /\ p = Len(fragment) + x
          BY <1>2, <1>3, <3>2
        <4>. HIDE DEF x
        <4>. QED  BY <1>8, <2>2, <4>1
      <3>. QED  BY <1>2, <1>3, <3>1, <3>2
    <2>. QED  BY <2>2, <2>4
  <1>11. WireOK'
    <2>1. left' \in Nat
      BY <1>1, <1>2, <1>3
    <2>. QED  BY <1>1, <1>4, <1>10, <2>1 DEF RecordsOK, WireOK
  <1>12. Unread' \in Seq(Tokens) /\ Unread' = pipe' \o q
    <2>1. q' = q
      BY <1>1 DEF q, Open
    <2>. QED  BY <1>11, <2>1, UnreadNext DEF UnreadIs, q
  <1>13. Rest(Unread, n, Unread')
    <2>1. Rest(pipe \o q, n, SubSeq(pipe, n + 1, Len(pipe)) \o q)
      BY <1>2, <1>3, <1>5, RestOfFront, Zenon
    <2>. QED  BY <1>1, <1>5, <1>12, <2>1
  <1>14. Open' = Open /\ Current' = Current
    BY <1>1 DEF Open, Current
  <1>15. StreamOK(Unread, Len(sent), Open)'
    <2>1. StreamOK(Unread, Len(sent), Open)
      BY DEF RecordsOK
    <2>2. StreamOK(Unread', Len(sent), Open)
      BY <1>3, <1>5, <1>12, <1>13, <2>1, StreamBehind, Zenon
    <2>. QED  BY <1>1, <1>14, <2>2
  <1>16. /\ Fits(Unread', 0, Current, Len(fragment) + n, left - n, last)
         /\ Open => Complete(Unread', Len(sent), 0, Current, left - n, last)
    <2>1. \A u \in Nat : \A i, m : \A l \in BOOLEAN :
            /\ Fits(Unread, 0, i, u, left, l) => Fits(Unread', 0, i, u + n, left - n, l)
            /\ Complete(Unread, m, 0, i, left, l) => Complete(Unread', m, 0, i, left - n, l)
      <3>1. /\ Unread \in Seq(Tokens) /\ Unread' \in Seq(Tokens) /\ n \in Nat
            /\ Rest(Unread, n, Unread') /\ left \in Nat /\ n <= left
        BY <1>2, <1>3, <1>5, <1>12, <1>13
      <3>. QED  BY <3>1, FitsAdvance, Zenon
    <2>. QED  BY <1>2, <1>7, <2>1, Zenon
  <1>17. BodyOK'
    <2>1. Current <= Len(sent)
      BY <1>7
    <2>. QED  BY <1>1, <1>10, <1>14, <1>16, <2>1 DEF BodyOK
  <1>18. Len(fragment') <= Size
    BY <1>2, <1>3, <1>9, <1>10
  <1>. QED  BY <1>1, <1>10, <1>11, <1>14, <1>15, <1>17, <1>18 DEF RecordsOK, RecordsAreWhole

\* A record comes behind the stream, or goes nowhere when nobody reads the socket.
LEMMA SendRecords ==
  ASSUME RecordsOK, NEW c \in Calls, NEW cut \in Cuts, Send(c, cut)
  PROVE  RecordsOK'
  <1>. DEFINE m == Len(sent)
              e == Encode(m + 1, cut)
  <1>1. /\ m < MaxCalls /\ sent' = Append(sent, c) /\ wire' = wire \o e
        /\ UNCHANGED <<main, chunk, pipe, reader, left, last, fragment, tasks>>
    BY DEF Send, socket, assembly
  <1>2. /\ sent \in Seq(Calls) /\ m \in Nat /\ MaxCalls \in Nat /\ m + 1 \in Ids
        /\ sent' \in Seq(Calls) /\ Len(sent') = m + 1
        /\ wire \in Seq(Tokens) /\ pipe \in Seq(Tokens) /\ chunk \in Seq(Tokens)
        /\ left \in Nat /\ last \in BOOLEAN /\ Len(fragment) \in Nat /\ Len(tasks) \in Nat
    <2>1. /\ sent \in Seq(Calls) /\ MaxCalls \in Nat /\ m \in Nat
          /\ wire \in Seq(Tokens) /\ pipe \in Seq(Tokens) /\ chunk \in Seq(Tokens)
          /\ left \in Nat /\ last \in BOOLEAN /\ Len(fragment) \in Nat /\ Len(tasks) \in Nat
      BY ConnectionAssumption DEF RecordsOK, WireOK
    <2>2. sent' \in Seq(Calls) /\ Len(sent') = m + 1
      BY <1>1, <2>1
    <2>. QED  BY <1>1, <2>1, <2>2 DEF Ids
  <1>. HIDE DEF m
  <1>3. /\ e \in Seq(Tokens) /\ e # <<>> /\ HeadAt(e[1], m + 1, 0)
        /\ StreamOK(e, m + 1, TRUE)
    BY <1>2, EncodeOK, Zenon
  <1>. HIDE DEF e
  <1>4. WireOK'
    <2>1. wire' \in Seq(Tokens) /\ m + 1 <= MaxCalls
      BY <1>1, <1>2, <1>3
    <2>. QED  BY <1>1, <1>2, <2>1 DEF RecordsOK, WireOK
  <1>5. Open' = Open /\ Current' = Current /\ Current \in Nat
    BY <1>1, <1>2 DEF Open, Current
  <1>6. Unread \in Seq(Tokens) /\ StreamOK(Unread, m, Open)
    BY UnreadTypes DEF RecordsOK, UnreadIs, m
  <1>7. Len(fragment') <= Size /\ RecordsAreWhole'
        /\ \A p \in DOMAIN fragment' : fragment'[p] = [call |-> Current', place |-> p]
    <2>1. Len(tasks) <= m + 1
      BY <1>2 DEF RecordsOK, RecordsAreWhole, m
    <2>. QED  BY <1>1, <1>2, <1>5, <2>1 DEF RecordsOK, RecordsAreWhole
  <1>8. CASE Open
    <2>1. Unread' = Unread \o e
      <3>1. \A x, y, z \in Seq(Tokens) : (x \o y) \o z = x \o (y \o z)
        BY ConcatAssociative
      <3>2. Unread' = (pipe \o chunk) \o (wire \o e) /\ Unread = (pipe \o chunk) \o wire
        BY <1>1, <1>8 DEF Unread, Open
      <3>3. pipe \o chunk \in Seq(Tokens)
        BY <1>2
      <3>. QED  BY <1>2, <1>3, <3>1, <3>2, <3>3, Zenon
    <2>2. StreamOK(Unread, m, TRUE)
      BY <1>6, <1>8 DEF StreamOK
    <2>3. StreamOK(Unread', m + 1, TRUE)
      BY <1>2, <1>3, <1>6, <2>1, <2>2, StreamBefore, Zenon
    <2>4. StreamOK(Unread, Len(sent), Open)'
      BY <1>2, <1>5, <1>8, <2>3 DEF StreamOK
    <2>5. ASSUME reader = "body"
          PROVE  BodyOK'
      <3>1. /\ Current <= m
            /\ Fits(Unread, 0, Current, Len(fragment), left, last)
            /\ Complete(Unread, m, 0, Current, left, last)
        BY <1>8, <2>5 DEF RecordsOK, BodyOK, m
      <3>2. /\ Fits(Unread', 0, Current, Len(fragment), left, last)
            /\ Complete(Unread', m + 1, 0, Current, left, last)
        <4>1. \A k, u, n \in Nat : \A i : \A l \in BOOLEAN :
                Fits(Unread, k, i, u, n, l) /\ Complete(Unread, m, k, i, n, l)
                  => Fits(Unread \o e, k, i, u, n, l) /\ Complete(Unread \o e, m + 1, k, i, n, l)
          BY <1>2, <1>3, <1>6, FitsBefore, Zenon
        <4>2. 0 \in Nat
          OBVIOUS
        <4>. QED  BY <1>2, <2>1, <3>1, <4>1, <4>2, Zenon
      <3>3. Current <= m + 1
        BY <1>2, <1>5, <3>1
      <3>. QED  BY <1>1, <1>2, <1>5, <3>2, <3>3 DEF BodyOK
    <2>6. ASSUME reader = "header"
          PROVE  HeaderOK'
      <3>1. /\ Unread # <<>> => HeadAt(Unread[1], Current, Len(fragment))
            /\ Unread = <<>> => fragment = <<>> /\ Current = m + 1
        BY <1>8, <2>6 DEF RecordsOK, HeaderOK, m
      <3>2. Unread' # <<>> /\ HeadAt(Unread'[1], Current, Len(fragment))
        <4>1. CASE Unread # <<>>
          <5>1. (Unread \o e)[1] = Unread[1] /\ Unread \o e # <<>>
            BY <1>3, <1>6, <4>1
          <5>. QED  BY <2>1, <3>1, <4>1, <5>1
        <4>2. CASE Unread = <<>>
          <5>1. Unread' = e
            BY <1>3, <2>1, <4>2, ConcatEmptySeq
          <5>2. Len(fragment) = 0
            BY <3>1, <4>2
          <5>. QED  BY <1>3, <3>1, <4>2, <5>1, <5>2
        <4>. QED  BY <4>1, <4>2
      <3>. QED  BY <1>1, <1>5, <3>2 DEF HeaderOK
    <2>. QED  BY <1>1, <1>4, <1>7, <2>4, <2>5, <2>6 DEF RecordsOK
  <1>9. CASE ~Open
    <2>1. Unread' = Unread
      BY <1>1, <1>5, <1>9 DEF Unread
    <2>2. \A x : x \in 1..m => x \in 1..m + 1
      BY <1>2
    <2>3. StreamOK(Unread, Len(sent), Open)'
      BY <1>2, <1>5, <1>6, <1>9, <2>1, <2>2 DEF StreamOK
    <2>4. BodyOK => BodyOK'
      <3>1. Current <= m => Current <= m + 1
        BY <1>2, <1>5
      <3>. QED  BY <1>1, <1>2, <1>5, <1>9, <2>1, <3>1 DEF BodyOK, m
    <2>5. HeaderOK => HeaderOK'
      BY <1>1, <1>5, <1>9, <2>1 DEF HeaderOK
    <2>. QED  BY <1>1, <1>4, <1>7, <2>3, <2>4, <2>5 DEF RecordsOK
  <1>. QED  BY <1>8, <1>9

\* A fragment that has been read as a whole is followed by the next one, and the last one
\* makes the record whole.
LEMMA FragmentDoneRecords ==
  ASSUME RecordsOK, FragmentDone
  PROVE  RecordsOK'
  <1>1. /\ reader = "body" /\ left = 0 /\ reader' = "header"
        /\ UNCHANGED <<sent, main, wire, chunk, pipe, left, last>>
    BY DEF FragmentDone, connected, client, socket
  <1>2. /\ Unread' = Unread /\ Open' = Open
    BY <1>1 DEF Unread, Open
  <1>3. /\ fragment \in Seq(Bytes) /\ Len(fragment) \in Nat /\ Len(tasks) \in Nat
        /\ last \in BOOLEAN /\ Unread \in Seq(Tokens) /\ Len(Unread) \in Nat /\ Size \in Nat
    <2>1. Unread \in Seq(Tokens)
      BY UnreadTypes DEF RecordsOK, UnreadIs
    <2>. HIDE DEF Unread
    <2>. QED  BY <2>1, ConnectionAssumption DEF RecordsOK, WireOK
  <1>. HIDE DEF Unread
  <1>4. /\ Current <= Len(sent) /\ Fits(Unread, 0, Current, Len(fragment), 0, last)
        /\ Open => Complete(Unread, Len(sent), 0, Current, 0, last)
    BY <1>1 DEF RecordsOK, BodyOK
  <1>5. last => Len(fragment) = Size
    BY <1>3, <1>4 DEF Fits
  <1>6. Unread # <<>> => IF last THEN HeadAt(Unread[1], Current + 1, 0)
                         ELSE HeadAt(Unread[1], Current, Len(fragment))
    <2>. SUFFICES ASSUME Unread # <<>>
                  PROVE  IF last THEN HeadAt(Unread[1], Current + 1, 0)
                         ELSE HeadAt(Unread[1], Current, Len(fragment))
      OBVIOUS
    <2>1. 0 + 0 + 1 \in DOMAIN Unread /\ 0 + 0 + 1 = 1 /\ Len(fragment) + 0 = Len(fragment)
      BY <1>3
    <2>. QED  BY <1>4, <2>1 DEF Fits
  <1>7. Open /\ Unread = <<>> => last /\ Current = Len(sent)
    <2>. SUFFICES ASSUME Open, Unread = <<>>
                  PROVE  last /\ Current = Len(sent)
      OBVIOUS
    <2>1. 0 + 0 = Len(Unread)
      OBVIOUS
    <2>. QED  BY <1>4, <2>1 DEF Complete
  <1>8. StreamOK(Unread, Len(sent), Open)'
    BY <1>1, <1>2 DEF RecordsOK
  <1>9. CASE ~last
    <2>1. UNCHANGED <<fragment, tasks>>
      BY <1>9 DEF FragmentDone
    <2>2. WireOK' /\ Current' = Current
      BY <1>1, <2>1 DEF RecordsOK, WireOK, Current
    <2>3. HeaderOK'
      BY <1>2, <1>6, <1>7, <1>9, <2>1, <2>2 DEF HeaderOK
    <2>. QED  BY <1>1, <1>8, <2>1, <2>2, <2>3 DEF RecordsOK, RecordsAreWhole
  <1>10. CASE last
    <2>. DEFINE t == [record |-> fragment, end |-> "running", messages |-> <<>>, asked |-> <<>>]
    <2>1. tasks' = Append(tasks, t) /\ fragment' = <<>> /\ t.record = fragment
      BY <1>10 DEF FragmentDone, Spawn
    <2>. HIDE DEF t
    <2>2. /\ tasks' \in Seq(Range(tasks'))
          /\ Len(tasks') = Len(tasks) + 1
          /\ DOMAIN tasks' = DOMAIN tasks \cup {Len(tasks) + 1}
          /\ \A i \in DOMAIN tasks : tasks'[i] = tasks[i]
          /\ tasks'[Len(tasks) + 1] = t
      <3>1. tasks \in Seq(Range(tasks))
        BY DEF RecordsOK, WireOK
      <3>2. /\ Append(tasks, t) \in Seq(Range(Append(tasks, t)))
            /\ Len(Append(tasks, t)) = Len(tasks) + 1
            /\ DOMAIN Append(tasks, t) = DOMAIN tasks \cup {Len(tasks) + 1}
            /\ \A i \in DOMAIN tasks : Append(tasks, t)[i] = tasks[i]
            /\ Append(tasks, t)[Len(tasks) + 1] = t
        BY <3>1, AppendTask, Zenon
      <3>. QED  BY <2>1, <3>2
    <2>3. WireOK'
      BY <1>1, <2>1, <2>2 DEF RecordsOK, WireOK
    <2>4. Current' = Current + 1 /\ Len(fragment') = 0 /\ Current \in Nat
      BY <1>3, <2>1, <2>2 DEF Current
    <2>5. fragment = Payload(Current)
      <3>1. DOMAIN fragment = 1..Size
        BY <1>3, <1>5, <1>10
      <3>2. \A p \in 1..Size : fragment[p] = [call |-> Current, place |-> p]
        BY <3>1 DEF RecordsOK
      <3>3. fragment = [p \in 1..Size |-> fragment[p]]
        BY <1>3, <3>1
      <3>. QED  BY <3>2, <3>3, Zenon DEF Payload
    <2>6. RecordsAreWhole'
      <3>1. Len(tasks') <= Len(sent')
        BY <1>1, <1>4, <2>2 DEF Current
      <3>2. \A i \in DOMAIN tasks' : tasks'[i].record = Payload(i)
        BY <2>1, <2>2, <2>5 DEF RecordsOK, RecordsAreWhole, Current
      <3>. QED  BY <3>1, <3>2 DEF RecordsAreWhole
    <2>7. HeaderOK'
      <3>1. Unread' # <<>> => HeadAt(Unread'[1], Current', Len(fragment'))
        BY <1>2, <1>6, <1>10, <2>4
      <3>2. Open' /\ Unread' = <<>> => fragment' = <<>> /\ Current' = Len(sent') + 1
        BY <1>1, <1>2, <1>7, <2>1, <2>4
      <3>. QED  BY <3>1, <3>2 DEF HeaderOK
    <2>8. /\ Len(fragment') <= Size
          /\ \A p \in DOMAIN fragment' : fragment'[p] = [call |-> Current', place |-> p]
      BY <1>3, <2>1
    <2>. QED  BY <1>1, <1>8, <2>3, <2>6, <2>7, <2>8 DEF RecordsOK
  <1>. QED  BY <1>3, <1>9, <1>10

LEMMA HandleRecords ==
  ASSUME RecordsOK, HandleSome
  PROVE  RecordsOK'
  <1>. SUFFICES ASSUME NEW i \in DOMAIN tasks, NEW o \in OutcomesOf(tasks[i].record),
                       Handle(i, o)
                PROVE  RecordsOK'
    BY DEF HandleSome
  <1>. DEFINE t == [record |-> tasks[i].record, end |-> o.end,
                    messages |-> o.messages, asked |-> o.asked]
  <1>1. /\ tasks' = [tasks EXCEPT ![i] = t] /\ t.record = tasks[i].record
        /\ UNCHANGED <<sent, main, wire, chunk, pipe, reader, left, last, fragment>>
    BY DEF Handle, connected, client, socket, assembly
  <1>. HIDE DEF t
  <1>2. tasks \in Seq(Range(tasks))
    BY DEF RecordsOK, WireOK
  <1>3. /\ tasks' \in Seq(Range(tasks')) /\ Len(tasks') = Len(tasks)
        /\ DOMAIN tasks' = DOMAIN tasks
        /\ tasks'[i] = t /\ \A j \in DOMAIN tasks : j # i => tasks'[j] = tasks[j]
    BY <1>1, <1>2, SetTask, Zenon
  <1>4. WireOK'
    BY <1>1, <1>3 DEF RecordsOK, WireOK
  <1>5. Unread' = Unread /\ Open' = Open
    BY <1>1 DEF Unread, Open
  <1>6. \A j \in DOMAIN tasks : tasks'[j].record = tasks[j].record
    BY <1>1, <1>3
  <1>. QED  BY <1>1, <1>3, <1>4, <1>5, <1>6, RecordsKept

LEMMA RecordsInit == Init => RecordsOK
  <1>. SUFFICES ASSUME Init
                PROVE  RecordsOK
    OBVIOUS
  <1>0. /\ sent = <<>> /\ wire = <<>> /\ main = "select" /\ chunk = <<>> /\ pipe = <<>>
        /\ reader = "header" /\ left = 0 /\ last = FALSE /\ fragment = <<>> /\ tasks = <<>>
        /\ MaxCalls \in Nat /\ Size \in Nat
    BY ConnectionAssumption DEF Init
  <1>1. WireOK
    <2>1. \A S : <<>> \in Seq(S)
      OBVIOUS
    <2>2. Len(sent) <= MaxCalls /\ left \in Nat /\ last \in BOOLEAN /\ main # "copy"
      <3>1. Len(<<>>) = 0 /\ 0 \in Nat /\ \A x \in Nat : 0 <= x
        OBVIOUS
      <3>2. last \in BOOLEAN /\ main # "copy"
        BY <1>0, Zenon
      <3>. QED  BY <1>0, <3>1, <3>2
    <2>. QED  BY <1>0, <2>1, <2>2, Zenon DEF WireOK
  <1>2. Unread = <<>> /\ Current = 1
    BY <1>0 DEF Unread, Current
  <1>. HIDE DEF Unread
  <1>3. StreamOK(Unread, Len(sent), Open)
    BY <1>2 DEF StreamOK
  <1>4. HeaderOK
    BY <1>0, <1>2 DEF HeaderOK
  <1>. QED  BY <1>0, <1>1, <1>3, <1>4 DEF RecordsOK, RecordsAreWhole

LEMMA RecordsStep == RecordsOK /\ [Next]_vars => RecordsOK'
  <1>. SUFFICES ASSUME RecordsOK, [Next]_vars
                PROVE  RecordsOK'
    OBVIOUS
  <1>0. ASSUME UNCHANGED <<sent, wire, chunk, pipe, main, reader, left, last, fragment, tasks>>
        PROVE  RecordsOK'
    <2>1. WireOK' /\ Unread' = Unread /\ Open' = Open
      BY <1>0 DEF RecordsOK, WireOK, Unread, Open
    <2>. QED  BY <1>0, <2>1, RecordsKept
  <1>1. CASE \E c \in Calls, cut \in Cuts : Send(c, cut)
    BY <1>1, SendRecords
  <1>2. CASE HangUp \/ Take
    <2>1. UNCHANGED <<sent, wire, chunk, pipe, main, reader, left, last, fragment, tasks>>
      BY <1>2 DEF HangUp, Take, socket, assembly
    <2>. QED  BY <1>0, <2>1
  <1>3. CASE (\E n \in 1..ChunkCap : ReadSocket(n)) \/ Copy
    BY <1>3, ReadSocketRecords, CopyRecords
  <1>4. CASE EndOfInput
    BY <1>4, CloseRecords DEF EndOfInput
  <1>5. CASE TakeReply \/ WriteReply \/ WriteFails
    <2>1. CASE main = "select" /\ Close
      <3>1. UNCHANGED <<sent, chunk, pipe, assembly, tasks>>
        BY <1>5, <2>1 DEF TakeReply, WriteReply, WriteFails, client
      <3>. QED  BY <2>1, <3>1, CloseRecords
    <2>2. CASE ~(main = "select" /\ Close)
      <3>1. UNCHANGED <<sent, wire, chunk, pipe, assembly, tasks>>
            /\ main \in {"select", "write"} /\ main' \in {"select", "write"}
        BY <1>5, <2>2 DEF TakeReply, WriteReply, WriteFails, client
      <3>2. WireOK' /\ Unread' = Unread /\ Open' = Open
        BY <3>1 DEF RecordsOK, WireOK, Unread, Open, assembly
      <3>. QED  BY <3>1, <3>2, RecordsKept DEF assembly
    <2>. QED  BY <2>1, <2>2
  <1>6. CASE ReadHeader \/ ReadBody \/ FragmentDone
    BY <1>6, ReadHeaderRecords, ReadBodyRecords, FragmentDoneRecords
  <1>7. CASE ReaderEnds
    <2>1. /\ UNCHANGED <<sent, wire, chunk, pipe, main, left, last, fragment, tasks>>
          /\ reader' = "ended"
      BY <1>7 DEF ReaderEnds, connected, client, socket
    <2>2. WireOK' /\ Unread' = Unread /\ Open' = Open /\ Current' = Current
      BY <2>1 DEF RecordsOK, WireOK, Unread, Open, Current
    <2>3. StreamOK(Unread, Len(sent), Open)'
      BY <2>1, <2>2 DEF RecordsOK
    <2>. QED  BY <2>1, <2>2, <2>3 DEF RecordsOK, RecordsAreWhole
  <1>8. CASE HandleSome
    BY <1>8, HandleRecords
  <1>9. CASE UNCHANGED vars
    <2>1. UNCHANGED <<sent, wire, chunk, pipe, main, reader, left, last, fragment, tasks>>
      BY <1>9 DEF vars, client, socket, assembly
    <2>. QED  BY <1>0, <2>1
  <1>. QED  BY <1>1, <1>2, <1>3, <1>4, <1>5, <1>6, <1>7, <1>8, <1>9 DEF Next

\* However the stream is cut into reads, and a record into fragments, and whenever the
\* connection ends: the records handed over are the ones that were sent.
THEOREM RecordsAreWholeAlways == Spec => []RecordsAreWhole
  <1>1. RecordsOK => RecordsAreWhole
    BY DEF RecordsOK
  <1>. QED
    BY <1>1, RecordsInit, RecordsStep, PTL DEF Spec

-----------------------------------------------------------------------------
(***************************************************************************)
(* What the client is answered.  A task that has ended has written what    *)
(* the handler writes for the call that its record holds, and one that is  *)
(* running has written nothing.                                            *)
(***************************************************************************)
EndedAs(t, c) ==
  \/ t.end = "running" /\ t.asked = <<>>
  \/ \E fs \in FsResults :
       /\ t.end = HandleRpc(c, fs).end
       /\ t.messages = HandleRpc(c, fs).messages
       /\ t.asked = HandleRpc(c, fs).asked

OutcomesOK == \A i \in DOMAIN tasks : EndedAs(tasks[i], sent[i])

\* A record is decoded as the call that it was made of.
LEMMA OutcomesOfRecord ==
  ASSUME sent \in Seq(Calls), NEW i \in DOMAIN sent, NEW o \in OutcomesOf(Payload(i))
  PROVE  \E fs \in FsResults : o = HandleRpc(sent[i], fs)
  <1>1. \A j \in DOMAIN sent : Payload(i) = Payload(j) => j = i
    <2>. SUFFICES ASSUME NEW j \in DOMAIN sent, Payload(i) = Payload(j)
                  PROVE  j = i
      OBVIOUS
    <2>1. 1 \in 1..Size
      BY ConnectionAssumption
    <2>2. Payload(i)[1].call = i /\ Payload(j)[1].call = j
      BY <2>1 DEF Payload
    <2>. QED  BY <2>2
  <1>2. (CHOOSE j \in DOMAIN sent : Payload(i) = Payload(j)) = i
    BY <1>1
  <1>3. OutcomesOf(Payload(i)) = Outcomes[sent[i]]
    BY <1>2 DEF OutcomesOf
  <1>4. sent[i] \in Calls
    OBVIOUS
  <1>5. Outcomes[sent[i]] = {HandleRpc(sent[i], fs) : fs \in FsResults}
    BY <1>4 DEF Outcomes
  <1>. QED  BY <1>3, <1>5

LEMMA OutcomesInit == Init => OutcomesOK
  BY DEF Init, OutcomesOK

LEMMA OutcomesStep == RecordsOK /\ OutcomesOK /\ [Next]_vars => OutcomesOK'
  <1>. SUFFICES ASSUME RecordsOK, OutcomesOK, [Next]_vars
                PROVE  OutcomesOK'
    OBVIOUS
  <1>1. /\ sent \in Seq(Calls) /\ tasks \in Seq(Range(tasks))
        /\ Len(tasks) <= Len(sent) /\ \A i \in DOMAIN tasks : tasks[i].record = Payload(i)
    BY DEF RecordsOK, WireOK, RecordsAreWhole
  <1>2. \A i \in DOMAIN tasks : i \in DOMAIN sent
    BY <1>1
  <1>3. CASE \E c \in Calls, cut \in Cuts : Send(c, cut)
    <2>1. PICK c \in Calls, cut \in Cuts : Send(c, cut)
      BY <1>3
    <2>2. sent' = Append(sent, c) /\ tasks' = tasks
      BY <2>1 DEF Send
    <2>3. \A i \in DOMAIN sent : sent'[i] = sent[i]
      BY <1>1, <2>2
    <2>. QED  BY <1>2, <2>2, <2>3 DEF OutcomesOK
  <1>4. CASE FragmentDone
    <2>1. sent' = sent
      BY <1>4 DEF FragmentDone, connected, client
    <2>2. CASE ~last
      BY <1>4, <2>1, <2>2 DEF FragmentDone, OutcomesOK
    <2>3. CASE last
      <3>. DEFINE t == [record |-> fragment, end |-> "running", messages |-> <<>>, asked |-> <<>>]
      <3>1. tasks' = Append(tasks, t) /\ t.end = "running" /\ t.asked = <<>>
        BY <1>4, <2>3 DEF FragmentDone, Spawn
      <3>. HIDE DEF t
      <3>2. /\ DOMAIN Append(tasks, t) = DOMAIN tasks \cup {Len(tasks) + 1}
            /\ \A i \in DOMAIN tasks : Append(tasks, t)[i] = tasks[i]
            /\ Append(tasks, t)[Len(tasks) + 1] = t
        BY <1>1, AppendTask, Zenon
      <3>. QED  BY <2>1, <3>1, <3>2 DEF OutcomesOK, EndedAs
    <2>. QED  BY <2>2, <2>3
  <1>5. CASE HandleSome
    <2>1. PICK i \in DOMAIN tasks : \E o \in OutcomesOf(tasks[i].record) : Handle(i, o)
      BY <1>5 DEF HandleSome
    <2>2. PICK o \in OutcomesOf(tasks[i].record) : Handle(i, o)
      BY <2>1
    <2>. DEFINE t == [record |-> tasks[i].record, end |-> o.end,
                      messages |-> o.messages, asked |-> o.asked]
    <2>3. tasks' = [tasks EXCEPT ![i] = t] /\ sent' = sent
      BY <2>2 DEF Handle, connected, client
    <2>4. \E fs \in FsResults : o = HandleRpc(sent[i], fs)
      BY <1>1, <1>2, <2>2, OutcomesOfRecord
    <2>5. EndedAs(t, sent[i])
      BY <2>4 DEF EndedAs
    <2>. HIDE DEF t
    <2>6. /\ DOMAIN tasks' = DOMAIN tasks
          /\ tasks'[i] = t /\ \A j \in DOMAIN tasks : j # i => tasks'[j] = tasks[j]
      BY <1>1, <2>3, SetTask, Zenon
    <2>. QED  BY <2>3, <2>5, <2>6 DEF OutcomesOK
  <1>6. CASE UNCHANGED <<sent, tasks>>
    BY <1>6 DEF OutcomesOK
  <1>7. \/ \E c \in Calls, cut \in Cuts : Send(c, cut)
        \/ FragmentDone \/ HandleSome
        \/ UNCHANGED <<sent, tasks>>
    BY DEF Next, HangUp, Take, ReadSocket, Copy, EndOfInput, TakeReply, WriteReply, WriteFails,
           ReadHeader, ReadBody, ReaderEnds, vars, connected, client
  <1>. QED  BY <1>3, <1>4, <1>5, <1>6, <1>7

\* What a task of the connection has written is the one answer to its call and true to
\* what the file system answered: no change is asked for and then left unanswered, by an
\* error of the handler or otherwise, and none is answered that was not asked for.
THEOREM AnswersFitAlways == Spec => []AnswersFit
  <1>1. OutcomesOK => AnswersFit
    <2>. SUFFICES ASSUME OutcomesOK, NEW i \in DOMAIN tasks
                  PROVE  Fitting(sent[i], tasks[i])
      BY DEF AnswersFit
    <2>. DEFINE t == tasks[i]
                c == sent[i]
    <2>1. EndedAs(t, c)
      BY DEF OutcomesOK
    <2>2. CASE t.end = "running" /\ t.asked = <<>>
      BY <2>2 DEF Fitting
    <2>3. CASE \E fs \in FsResults : /\ t.end = HandleRpc(c, fs).end
                                     /\ t.messages = HandleRpc(c, fs).messages
                                     /\ t.asked = HandleRpc(c, fs).asked
      <3>1. PICK fs \in FsResults : /\ t.end = HandleRpc(c, fs).end
                                    /\ t.messages = HandleRpc(c, fs).messages
                                    /\ t.asked = HandleRpc(c, fs).asked
        BY <2>3
      <3>2. PICK o : o = HandleRpc(c, fs)
        OBVIOUS
      <3>3. Fitting(c, o)
        BY <3>2, HandlersFit
      <3>4. t.end = o.end /\ t.messages = o.messages /\ t.asked = o.asked
        BY <3>1, <3>2
      <3>. QED  BY <3>3, <3>4 DEF Fitting
    <2>. QED  BY <2>1, <2>2, <2>3 DEF EndedAs
  <1>. QED
    BY <1>1, RecordsInit, RecordsStep, OutcomesInit, OutcomesStep, PTL DEF Spec
=============================================================================
