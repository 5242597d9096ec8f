---------------------------- MODULE RpcDispatch ----------------------------
(***************************************************************************)
(* What becomes of a record that has been put together: handle_rpc decodes *)
(* the call and passes it on by program and procedure, and the handler     *)
(* writes RPC messages into the buffer of the reply or ends with an error. *)
(*                                                                         *)
(*   src/src/kernel/protocol/rpcwire.rs            handle_rpc              *)
(*   src/src/kernel/handlers/                      one handler for each    *)
(*                                                 procedure               *)
(*   src/src/kernel/vfs/api.rs                     the file handles        *)
(*                                                                         *)
(* A handler is a function of the call and of what the file system answers *)
(* to it. Left of its reply are the RPC messages with the status of each;  *)
(* attributes, names and data are not part of the model.                   *)
(***************************************************************************)
EXTENDS Naturals, Sequences

CONSTANT OverflowChecks   \* does the build panic where a subtraction underflows?

ASSUME OverflowChecksAssumption == OverflowChecks \in BOOLEAN

\* The procedures of the three programs, "unknown" for a number without a name.
Reads ==
  {"getattr", "lookup", "access", "readlink", "read", "readdirplus", "fsstat", "fsinfo",
   "pathconf"}
Writes ==
  {"setattr", "write", "create", "mkdir", "symlink", "remove", "rmdir", "rename"}
Others ==
  {"null", "mknod", "link", "readdir", "commit", "mnt", "umnt", "umntall", "export",
   "set", "unset", "getport", "dump", "callit", "unknown"}

\* A call: what its header and its credentials decode to, the versions that it
\* asks for, and its arguments. A message that is neither call nor reply decodes
\* to a call of version 0. "odd" arguments decode, but the size of a WRITE is
\* not that of its data, READDIRPLUS asks for less than 128 bytes, and behind the
\* name of a CREATE there are no attributes. A SETATTR is "guarded" when it has a
\* ctime to compare. The generation in the file handle is that of the server or not.
Call ==
  [header : {"call", "reply", "garbage"}, cred : BOOLEAN, rpcvers : BOOLEAN,
   prog : {"nfs", "mount", "portmap", "unknown"}, vers : BOOLEAN,
   proc : Reads \cup Writes \cup Others,
   args : {"good", "odd", "bad"}, how : {"unchecked", "guarded", "exclusive"},
   handle : {"same", "older", "newer", "short"}]

\* What the file system answers: the attributes that are asked for first, whether
\* the ctime of a SETATTR is that of the file and the name of a CREATE is taken, what
\* the operation itself answers, whether a read starts behind what there is, and for
\* a mount whether the user is known and has a directory. What the file system has
\* done is another matter: a create answers Ok over calls of the store that failed,
\* and a rename may answer an error when half of it is done (Namespace).
FsResults ==
  [attr : BOOLEAN, ctime : BOOLEAN, taken : BOOLEAN, op : BOOLEAN, past : BOOLEAN,
   user : BOOLEAN, home : BOOLEAN]

-----------------------------------------------------------------------------
\* How a handler ends, the messages it has written by then, and what the file system
\* has answered to the changes that the handler asked it for.
Statuses == {"ok", "fail", "refused"}
Outcome  ==
  [end : {"reply", "error", "panic"}, messages : Seq(Statuses), asked : Seq(Statuses)]

Reply(s)      == [end |-> "reply", messages |-> <<s>>, asked |-> <<>>]
ErrorAfter(m) == [end |-> "error", messages |-> m, asked |-> <<>>]
Panic         == [end |-> "panic", messages |-> <<>>, asked |-> <<>>]

Status(yes)   == IF yes THEN "ok" ELSE "fail"
Answer(yes)   == Reply(Status(yes))

\* A handler that may go on asks for its change and passes the answer on.
Ask(may, fs) ==
  IF ~may THEN Reply("fail")
  ELSE LET s == Status(fs.op)
       IN  [end |-> "reply", messages |-> <<s>>, asked |-> <<s>>]

\* Arguments that do not decode are an error of the handler.
Decoded(c, outcome) == IF c.args = "bad" THEN ErrorAfter(<<>>) ELSE outcome

\* Handles of another generation, and of another length, are refused.
FhToId(c) == c.handle = "same"

-----------------------------------------------------------------------------
\* The procedures that read.
GetAttr(c, fs)  == Decoded(c, Answer(FhToId(c) /\ fs.attr))
Lookup(c, fs)   == Decoded(c, Answer(FhToId(c) /\ fs.op))
ReadLink(c, fs) == Decoded(c, Answer(FhToId(c) /\ fs.attr /\ fs.op))
Access(c)       == Decoded(c, Answer(FhToId(c)))
FsInfo(c)       == Decoded(c, Answer(FhToId(c)))
PathConf(c)     == Decoded(c, Answer(FhToId(c)))
FsStat(c)       == Decoded(c, Answer(FhToId(c)))

Read(c, fs) ==
  Decoded(c, IF FhToId(c) /\ fs.past THEN Panic ELSE Answer(FhToId(c) /\ fs.op))

ReadDirPlus(c, fs) ==
  Decoded(c, IF FhToId(c) /\ c.args = "odd" /\ OverflowChecks THEN Panic
             ELSE Answer(FhToId(c) /\ fs.op))

\* The procedures that write.
Write(c, fs) ==
  Decoded(c, IF c.args = "odd" THEN Reply("refused") ELSE Ask(FhToId(c), fs))

\* Mutant of Create: a name that is taken is answered, and the file created all the same.
CreateGoesOn(c, fs) ==
  LET made == Ask(TRUE, fs)
      both == [made EXCEPT !.messages = <<"fail">> \o made.messages]
  IN  Decoded(c,
        IF ~FhToId(c) \/ ~fs.attr THEN Reply("fail")
        ELSE IF c.how # "exclusive" /\ c.args = "odd" THEN ErrorAfter(<<>>)
        ELSE IF c.how = "guarded" /\ fs.taken THEN both ELSE made)

\* CREATE decodes the attributes only when the directory has been found.
Create(c, fs) ==
  Decoded(c,
    IF ~FhToId(c) \/ ~fs.attr THEN Reply("fail")
    ELSE IF c.how # "exclusive" /\ c.args = "odd" THEN ErrorAfter(<<>>)
    ELSE Ask(~(c.how = "guarded" /\ fs.taken), fs))

MkDir(c, fs)   == Decoded(c, Ask(FhToId(c) /\ fs.attr, fs))
SymLink(c, fs) == Decoded(c, Ask(FhToId(c) /\ fs.attr, fs))
Remove(c, fs)  == Decoded(c, Ask(FhToId(c) /\ fs.attr, fs))
Rename(c, fs)  == Decoded(c, Ask(FhToId(c) /\ fs.attr, fs))

\* A ctime that does not match is answered, and the attributes are set all the
\* same, which is answered as well.
SetAttr(c, fs) ==
  LET set  == Ask(TRUE, fs)
      both == [set EXCEPT !.messages = <<"fail">> \o set.messages]
  IN  Decoded(c, IF ~FhToId(c) \/ ~fs.attr THEN Reply("fail")
                 ELSE IF c.how = "guarded" /\ ~fs.ctime THEN both ELSE set)

\* The procedures of NFS; the program is read-write.
HandleNfs(c, fs) ==
  IF ~c.vers THEN Reply("refused")
  ELSE CASE c.proc = "null"               -> Reply("ok")
         [] c.proc = "getattr"            -> GetAttr(c, fs)
         [] c.proc = "setattr"            -> SetAttr(c, fs)
         [] c.proc = "lookup"             -> Lookup(c, fs)
         [] c.proc = "access"             -> Access(c)
         [] c.proc = "readlink"           -> ReadLink(c, fs)
         [] c.proc = "read"               -> Read(c, fs)
         [] c.proc = "write"              -> Write(c, fs)
         [] c.proc = "create"             -> Create(c, fs)
         [] c.proc = "mkdir"              -> MkDir(c, fs)
         [] c.proc = "symlink"            -> SymLink(c, fs)
         [] c.proc \in {"remove", "rmdir"} -> Remove(c, fs)
         [] c.proc = "rename"             -> Rename(c, fs)
         [] c.proc = "readdirplus"        -> ReadDirPlus(c, fs)
         [] c.proc = "fsstat"             -> FsStat(c)
         [] c.proc = "fsinfo"             -> FsInfo(c)
         [] c.proc = "pathconf"           -> PathConf(c)
         [] OTHER                         -> Reply("refused")

-----------------------------------------------------------------------------
\* A user that is not known, and a directory that cannot be set up, are answered
\* with a failure, and then the handler ends with an error.
Mnt(c, fs) ==
  Decoded(c, IF ~fs.user \/ ~fs.home THEN ErrorAfter(<<"fail">>) ELSE Answer(fs.op))

\* The version of the mount program is not looked at.
HandleMount(c, fs) ==
  CASE c.proc = "mnt"                           -> Mnt(c, fs)
    [] c.proc = "umnt"                          -> Decoded(c, Reply("ok"))
    [] c.proc \in {"null", "umntall", "export"} -> Reply("ok")
    [] OTHER                                    -> Reply("refused")

HandlePortmap(c) ==
  IF ~c.vers THEN Reply("refused")
  ELSE CASE c.proc = "null"    -> Reply("ok")
         [] c.proc = "getport" -> Decoded(c, Reply("ok"))
         [] OTHER              -> Reply("refused")

HandleRpc(c, fs) ==
  IF c.header # "call" \/ ~c.cred THEN ErrorAfter(<<>>)
  ELSE IF ~c.rpcvers THEN Reply("refused")
  ELSE CASE c.prog = "nfs"     -> HandleNfs(c, fs)
         [] c.prog = "mount"   -> HandleMount(c, fs)
         [] c.prog = "portmap" -> HandlePortmap(c)
         [] OTHER              -> Reply("refused")
=============================================================================
