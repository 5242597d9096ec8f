------------------------------ MODULE WritePath ------------------------------
(***************************************************************************)
(* The data path of SharesFS: WRITE, READ, SETATTR, REMOVE and CREATE      *)
(* requests, each run by a task of its own, the monitor task that commits  *)
(* buffers in the background, and the store below them.                    *)
(*                                                                         *)
(*   src/src/sharesfs/writing.rs   handle_write, commit_write, the monitor *)
(*   src/src/sharesfs/mod.rs       read, setattr, load_existing_content    *)
(*   src/src/sharesfs/channel_buffer.rs   module ChannelBuffer             *)
(*                                                                         *)
(* A task gives way to the others at every lock and every call of the      *)
(* store, so every one of them is a step: the label pc names the step that *)
(* a process takes next.  A step that only computes on local values is     *)
(* part of the step before it.                                             *)
(*                                                                         *)
(* The metadata hash of a path is represented by its field "size", the     *)
(* only one this path decides on.  A path that a client can write to is of *)
(* one of three kinds, by its name: a git pack file, another file of a git *)
(* repository, or a plain file.  The audit events of the handlers are in   *)
(* module AuditLog; nodes, path_to_id and rename, which are not read  *)
(* here, are left to a module of the namespace.                            *)
(***************************************************************************)
EXTENDS ChannelBuffer, FiniteSets

CONSTANTS
  Files,        \* file ids
  Paths,        \* paths a file can have
  PackPaths,    \* ... that contain "/objects/pack/"
  GitPaths,     \* ... that contain "/.git/" or end with ".git", pack files apart
  InitPath,     \* [Files -> Paths \cup {None}]: the files there are at the start
  Tasks,        \* tasks that serve requests
  Monitor,      \* the task of monitor_active_writes
  Permits,      \* permits of commit_semaphore (10 in the code)
  MaxChannels,  \* bound: ChannelBuffers allocated
  Offsets, Lens,  \* offsets and lengths of requests
  AttrCounts,      \* how many of the two times and the mode a SETATTR sets
  Grain,        \* length of the blocks in which a pack file is read (32768)
  AtomicHset,   \* is hset_multiple one step (Redis) or a get and a put (RocksDB)
  Limit,        \* bounds: [Budgets -> Nat], how often each thing may happen
  None,         \* no value
  NoSize        \* a metadata hash without the field "size"

Budgets == {"write", "read", "setattr", "remove", "create", "fault", "crash"}

ASSUME ConstantsAssumption ==
  /\ PackPaths \subseteq Paths /\ GitPaths \subseteq Paths
  /\ PackPaths \cap GitPaths = {}
  /\ IsFiniteSet(Tasks) /\ Monitor \notin Tasks
  /\ None \notin Files \cup Paths
  /\ None \notin Nat /\ NoSize \notin Nat /\ None # NoSize
  /\ InitPath \in [Files -> Paths \cup {None}]
  /\ Permits \in Nat \ {0} /\ MaxChannels \in Nat /\ Grain \in Nat \ {0}
  /\ Offsets \subseteq Nat /\ Lens \subseteq Nat /\ AttrCounts \subseteq 0 .. 3
  /\ AtomicHset \in BOOLEAN
  /\ Limit \in [Budgets -> Nat]

Procs    == Tasks \cup {Monitor}
Channels == 1 .. MaxChannels

VARIABLES
  activeWrites,   \* active_writes: the channel of a file, if it has one
  buf,            \* the ChannelBuffers
  nchan,          \* number of ChannelBuffers allocated so far
  idToPath,       \* the hash id_to_path of the store
  meta,           \* the metadata hash of a path: its size, NoSize, or None
  data,           \* the field "data" of a path: an image, or None
  permits,        \* commit_semaphore: permits not taken
  pc,             \* the step a process takes next
  local,          \* its local variables
  queue,          \* to_commit of the monitor
  used,           \* how often each thing has happened, against Limit
  \* History, not read by any step of the system:
  arrived,        \* every chunk written to a channel, in order
  sealed,         \* how many had arrived when a commit took the channel
  fate            \* what became of a channel

buffers == <<activeWrites, buf, nchan>>
store   == <<idToPath, meta, data>>
history == <<arrived, sealed, fate>>
vars    == <<buffers, store, permits, pc, local, queue, used, history>>

Labels == {"idle", "channel", "push", "total", "putsize", "checkpath", "checklast",
           "mark", "acquire", "take", "path", "readall", "store", "touch", "puttimes", "clear",
           "scanned", "git", "data", "pack", "load", "insert", "range",
           "attrpath", "attrget", "attrput", "rmmeta", "rmid", "spinning", "panicked"}

Fates == {"open", "sealed", "stored", "lost"}
Ops   == {"write", "read", "setattr", "remove", "commit"}

\* What a SETATTR has still to set: how many of the access time, the modification
\* time and the mode, and the size, which is NoSize if it is not to be set.
Attrs == [others : 0 .. 3, size : Nat \cup {NoSize}]

\* The request: the chunk of a WRITE, the offset and count of a READ, a SETATTR.
Requests == Chunk \cup [off : Nat, count : Nat] \cup Attrs \cup {None}

\* The local variables of a process.
Locals ==
  [op : Ops \cup {None}, file : Files \cup {None}, path : Paths \cup {None},
   chan : Channels \cup {None}, req : Requests, size : Nat \cup {None, NoSize},
   image : Image \cup {None}, seen : Nat]

Blank == [op |-> None, file |-> None, path |-> None, chan |-> None, req |-> None,
          size |-> None, image |-> None, seen |-> 0]

IsPack(p) == p \in PackPaths
IsGit(p)  == p \in GitPaths

-----------------------------------------------------------------------------
BuffersType ==
  /\ activeWrites \in [Files -> (1 .. nchan) \cup {None}]
  /\ buf \in [Channels -> Buffer]
  /\ nchan \in 0 .. MaxChannels

StoreType ==
  /\ idToPath \in [Files -> Paths \cup {None}]
  /\ meta \in [Paths -> Nat \cup {None, NoSize}]
  /\ data \in [Paths -> Image \cup {None}]

ProcsType ==
  /\ permits \in 0 .. Permits
  /\ pc \in [Procs -> Labels]
  /\ local \in [Procs -> Locals]

HistoryType ==
  /\ arrived \in [Channels -> Seq(Chunk)]
  /\ sealed \in [Channels -> Nat]
  /\ fate \in [Channels -> Fates]

TypeOK ==
  /\ BuffersType /\ StoreType /\ ProcsType /\ HistoryType
  /\ queue \subseteq Files
  /\ used \in [Budgets -> Nat]

Init ==
  /\ activeWrites = [f \in Files |-> None]
  /\ buf = [c \in Channels |-> NewBuffer]
  /\ nchan = 0
  /\ idToPath = InitPath
  /\ meta = [p \in Paths |-> IF \E f \in Files : InitPath[f] = p THEN 0 ELSE None]
  /\ data = [p \in Paths |-> None]
  /\ permits = Permits
  /\ pc = [p \in Procs |-> "idle"]
  /\ local = [p \in Procs |-> Blank]
  /\ queue = {}
  /\ used = [b \in Budgets |-> 0]
  /\ arrived = [c \in Channels |-> <<>>]
  /\ sealed = [c \in Channels |-> 0]
  /\ fate = [c \in Channels |-> "open"]

-----------------------------------------------------------------------------
(***************************************************************************)
(* Helpers of the actions.                                                 *)
(***************************************************************************)
Spend(b) ==
  /\ used[b] < Limit[b]
  /\ used' = [used EXCEPT ![b] = @ + 1]

Goto(p, label) == pc' = [pc EXCEPT ![p] = label]

\* The handler of task t ends and its reply is sent.
Finish(t) ==
  /\ pc' = [pc EXCEPT ![t] = "idle"]
  /\ local' = [local EXCEPT ![t] = Blank]

\* A request of task t on file f starts: the handler resolves the file id, and
\* where that fails it replies with an error and changes nothing.
Begin(t, op, f, req, label) ==
  /\ pc[t] = "idle"
  /\ idToPath[f] # None
  /\ Goto(t, label)
  /\ local' = [local EXCEPT ![t] =
                 [Blank EXCEPT !.op = op, !.file = f, !.path = idToPath[f], !.req = req]]

\* The entry of the file of process p in active_writes.
Entry(p) == activeWrites[local[p].file]

Write(c, ch) ==
  /\ buf' = [buf EXCEPT ![c] = Pushed(@, ch)]
  /\ arrived' = [arrived EXCEPT ![c] = Append(@, ch)]

\* A reader that spins in read_range holds the read lock of the buffer.
ReadLocked(c) == \E p \in Procs : pc[p] = "spinning" /\ local[p].chan = c

-----------------------------------------------------------------------------
(***************************************************************************)
(* handle_write.                                                           *)
(***************************************************************************)
StartWrite(t, f, off, len) ==
  /\ Spend("write")
  /\ Begin(t, "write", f,
           [off |-> off, bytes |-> [i \in 1 .. len |-> used["write"] + 1]], "channel")
  /\ UNCHANGED <<buffers, store, permits, queue, history>>

\* Under the lock of active_writes: the channel of the file, or a new one.
GetChannel(t) ==
  /\ pc[t] = "channel"
  /\ Goto(t, "push")
  /\ \/ /\ Entry(t) # None
        /\ local' = [local EXCEPT ![t].chan = Entry(t)]
        /\ UNCHANGED <<activeWrites, nchan>>
     \/ /\ Entry(t) = None
        /\ nchan < MaxChannels
        /\ nchan' = nchan + 1
        /\ activeWrites' = [activeWrites EXCEPT ![local[t].file] = nchan + 1]
        /\ local' = [local EXCEPT ![t].chan = nchan + 1]
  /\ UNCHANGED <<buf, store, permits, queue, used, history>>

\* channel.write: the lock of active_writes is no longer held, so the channel
\* may have been committed in the meantime.
Push(t) ==
  /\ pc[t] = "push"
  /\ ~ReadLocked(local[t].chan)
  /\ Write(local[t].chan, local[t].req)
  /\ Goto(t, "total")
  /\ UNCHANGED <<activeWrites, nchan, store, permits, local, queue, used, sealed, fate>>

ReadTotal(t) ==
  /\ pc[t] = "total"
  /\ local' = [local EXCEPT ![t].size = buf[local[t].chan].total]
  /\ Goto(t, "putsize")
  /\ UNCHANGED <<buffers, store, permits, queue, used, history>>

PutSize(t) ==
  /\ pc[t] = "putsize"
  /\ meta' = [meta EXCEPT ![local[t].path] = local[t].size]
  /\ Goto(t, "checkpath")
  /\ UNCHANGED <<buffers, idToPath, data, permits, local, queue, used, history>>

\* Mutant of LikelyLast: only a write that ends exactly at the size is the last.
LikelyLastStrict(ch, size) == End(ch) > size

\* is_likely_last_write: the write reaches the stored size.
LikelyLast(ch, size) == End(ch) >= size

\* A write to a file of a git repository, pack files apart, is committed by its
\* own handler; any other handler is done.
CommitIfGit(t) ==
  IF IsGit(local[t].path)
  THEN Goto(t, "acquire") /\ UNCHANGED local
  ELSE Finish(t)

\* The path is read again; a file removed in the meantime makes the handler
\* reply with an error.  A path that is found is the one the handler has.
CheckPath(t) ==
  /\ pc[t] = "checkpath"
  /\ \/ /\ idToPath[local[t].file] # None
        /\ Goto(t, "checklast")
        /\ UNCHANGED local
     \/ /\ idToPath[local[t].file] = None
        /\ Finish(t)
  /\ UNCHANGED <<buffers, store, permits, queue, used, history>>

\* Then its size, which a removal may have taken since.
CheckLast(t) ==
  /\ pc[t] = "checklast"
  /\ LET size == meta[local[t].path]
     IN  \/ /\ size \in Nat
            /\ LikelyLast(local[t].req, size)
            /\ Goto(t, "mark")
            /\ UNCHANGED local
         \/ /\ size \in Nat
            /\ ~LikelyLast(local[t].req, size)
            /\ CommitIfGit(t)
         \/ /\ size \notin Nat
            /\ Finish(t)
  /\ UNCHANGED <<buffers, store, permits, queue, used, history>>

\* mark_write_as_complete: by file id, whichever channel the file has by now.
Mark(t) ==
  /\ pc[t] = "mark"
  /\ buf' = IF Entry(t) = None THEN buf
            ELSE [buf EXCEPT ![Entry(t)] = Completed(@)]
  /\ CommitIfGit(t)
  /\ UNCHANGED <<activeWrites, nchan, store, permits, queue, used, history>>

-----------------------------------------------------------------------------
(***************************************************************************)
(* commit_write, run by the monitor and by the handlers of git files.      *)
(***************************************************************************)

\* Mutant of CommitReturn: the permit is not given back when the commit fails.
CommitReturnLeaking(p, ok) ==
  /\ permits' = IF ok THEN permits + 1 ELSE permits
  /\ \/ /\ p = Monitor
        /\ Goto(p, IF queue = {} THEN "idle" ELSE "scanned")
        /\ local' = [local EXCEPT ![p] = Blank]
     \/ /\ p \in Tasks /\ local[p].op = "read" /\ ok
        /\ Goto(p, "data")
        /\ local' = [local EXCEPT ![p] =
                       [@ EXCEPT !.chan = None, !.size = None, !.image = None, !.seen = 0]]
     \/ /\ p \in Tasks /\ ~(local[p].op = "read" /\ ok)
        /\ Finish(p)

\* commit_write returns: the permit is released on every way out.  A handler
\* that wanted to read goes on reading, unless the commit failed.
CommitReturn(p, ok) ==
  /\ permits' = permits + 1
  /\ \/ /\ p = Monitor
        /\ Goto(p, IF queue = {} THEN "idle" ELSE "scanned")
        /\ local' = [local EXCEPT ![p] = Blank]
     \/ /\ p \in Tasks /\ local[p].op = "read" /\ ok
        /\ Goto(p, "data")
        /\ local' = [local EXCEPT ![p] =
                       [@ EXCEPT !.chan = None, !.size = None, !.image = None, !.seen = 0]]
     \/ /\ p \in Tasks /\ ~(local[p].op = "read" /\ ok)
        /\ Finish(p)

Acquire(p) ==
  /\ pc[p] = "acquire"
  /\ permits > 0
  /\ permits' = permits - 1
  /\ Goto(p, "take")
  /\ UNCHANGED <<buffers, store, local, queue, used, history>>

\* Mutant of Take: the entry stays in active_writes while it is committed.
TakeLeaving(p) ==
  /\ pc[p] = "take"
  /\ \/ /\ Entry(p) # None
        /\ local' = [local EXCEPT ![p].chan = Entry(p)]
        /\ sealed' = [sealed EXCEPT ![Entry(p)] = Len(arrived[Entry(p)])]
        /\ fate' = [fate EXCEPT ![Entry(p)] = "sealed"]
        /\ Goto(p, "path")
        /\ UNCHANGED <<activeWrites, permits>>
     \/ /\ Entry(p) = None
        /\ CommitReturn(p, TRUE)
        /\ UNCHANGED <<activeWrites, sealed, fate>>
  /\ UNCHANGED <<buf, nchan, store, queue, used, arrived>>

\* The entry is removed from active_writes; without one there is nothing to do.
Take(p) ==
  /\ pc[p] = "take"
  /\ \/ /\ Entry(p) # None
        /\ activeWrites' = [activeWrites EXCEPT ![local[p].file] = None]
        /\ local' = [local EXCEPT ![p].chan = Entry(p)]
        /\ sealed' = [sealed EXCEPT ![Entry(p)] = Len(arrived[Entry(p)])]
        /\ fate' = [fate EXCEPT ![Entry(p)] = "sealed"]
        /\ Goto(p, "path")
        /\ UNCHANGED permits
     \/ /\ Entry(p) = None
        /\ CommitReturn(p, TRUE)
        /\ UNCHANGED <<activeWrites, sealed, fate>>
  /\ UNCHANGED <<buf, nchan, store, queue, used, arrived>>

\* The path of the file; without one the commit fails and the channel is gone.
CommitPath(p) ==
  /\ pc[p] = "path"
  /\ \/ /\ idToPath[local[p].file] # None
        /\ local' = [local EXCEPT ![p].path = idToPath[local[p].file]]
        /\ Goto(p, "readall")
        /\ UNCHANGED <<permits, fate>>
     \/ /\ idToPath[local[p].file] = None
        /\ fate' = [fate EXCEPT ![local[p].chan] = "lost"]
        /\ CommitReturn(p, FALSE)
  /\ UNCHANGED <<buffers, store, queue, used, arrived, sealed>>

\* channel.read_all, then the secret sharing of what was read.
CommitRead(p) ==
  /\ pc[p] = "readall"
  /\ LET c == local[p].chan
     IN  local' = [local EXCEPT ![p].image = ReadAll(buf[c].log, buf[c].total),
                                ![p].seen  = Len(arrived[c])]
  /\ Goto(p, "store")
  /\ UNCHANGED <<buffers, store, permits, queue, used, history>>

\* hset(path, "data", shares)
CommitStore(p) ==
  /\ pc[p] = "store"
  /\ data' = [data EXCEPT ![local[p].path] = local[p].image]
  /\ fate' = [fate EXCEPT ![local[p].chan] = "stored"]
  /\ Goto(p, "touch")
  /\ UNCHANGED <<buffers, idToPath, meta, permits, local, queue, used, arrived, sealed>>

\* update_file_metadata is an hset_multiple of the times.  Over RocksDB that is
\* a get of the whole hash, the size included, and a put of all of it.
CommitTouch(p) ==
  /\ pc[p] = "touch"
  /\ local' = [local EXCEPT ![p].size = meta[local[p].path]]
  /\ Goto(p, "puttimes")
  /\ UNCHANGED <<buffers, store, permits, queue, used, history>>

\* Mutant of TimesPut: the hash that was read is put back as it was, over Redis too.
TimesPutStale(p) == IF local[p].size = None THEN NoSize ELSE local[p].size

\* The hash at the path of p after a put of other fields than the size: a hash
\* that is not there is created.
TimesPut(p) ==
  LET base == IF AtomicHset THEN meta[local[p].path] ELSE local[p].size
  IN  IF base = None THEN NoSize ELSE base

CommitTimes(p) ==
  /\ pc[p] = "puttimes"
  /\ meta' = [meta EXCEPT ![local[p].path] = TimesPut(p)]
  /\ Goto(p, "clear")
  /\ UNCHANGED <<buffers, idToPath, data, permits, local, queue, used, history>>

CommitClear(p) ==
  /\ pc[p] = "clear"
  /\ ~ReadLocked(local[p].chan)
  /\ buf' = [buf EXCEPT ![local[p].chan] = Cleared(@)]
  /\ CommitReturn(p, TRUE)
  /\ UNCHANGED <<activeWrites, nchan, store, queue, used, history>>

-----------------------------------------------------------------------------
(***************************************************************************)
(* monitor_active_writes.  The scan holds the lock of active_writes; the   *)
(* commits that follow do not, and their errors are ignored.               *)
(***************************************************************************)

\* Mutant of Committable: the monitor does not wait for the last write.
CommittableAny(f) ==
  /\ activeWrites[f] # None
  /\ idToPath[f] # None
  /\ ~IsPack(idToPath[f])

\* Mutant of Committable: pack files are not left out.
CommittablePacks(f) ==
  /\ activeWrites[f] # None
  /\ idToPath[f] # None
  /\ buf[activeWrites[f]].complete

\* Mutant of Committable: the monitor also waits for the size of the metadata.
CommittableAtSize(f) ==
  /\ activeWrites[f] # None
  /\ idToPath[f] # None
  /\ ~IsPack(idToPath[f])
  /\ buf[activeWrites[f]].complete
  /\ buf[activeWrites[f]].total = meta[idToPath[f]]

Committable(f) ==
  /\ activeWrites[f] # None
  /\ idToPath[f] # None
  /\ ~IsPack(idToPath[f])
  /\ buf[activeWrites[f]].complete

MonitorScan ==
  /\ pc[Monitor] = "idle"
  /\ queue' = {f \in Files : Committable(f)}
  /\ queue' # {}
  /\ Goto(Monitor, "scanned")
  /\ UNCHANGED <<buffers, store, permits, local, used, history>>

MonitorCommit ==
  /\ pc[Monitor] = "scanned"
  /\ \E f \in queue :
       /\ queue' = queue \ {f}
       /\ local' = [local EXCEPT ![Monitor] = [Blank EXCEPT !.op = "commit", !.file = f]]
  /\ Goto(Monitor, "acquire")
  /\ UNCHANGED <<buffers, store, permits, used, history>>

-----------------------------------------------------------------------------
(***************************************************************************)
(* read.                                                                   *)
(***************************************************************************)
Content(p) == IF data[p] = None THEN <<>> ELSE data[p]

StartRead(t, f, off, count) ==
  /\ Spend("read")
  /\ Begin(t, "read", f, [off |-> off, count |-> count],
           IF IsPack(idToPath[f]) THEN "pack"
           ELSE IF IsGit(idToPath[f]) THEN "git" ELSE "data")
  /\ UNCHANGED <<buffers, store, permits, queue, history>>

\* A git file with a buffer is committed before it is read.
GitRead(t) ==
  /\ pc[t] = "git"
  /\ Goto(t, IF Entry(t) # None THEN "acquire" ELSE "data")
  /\ UNCHANGED <<buffers, store, permits, local, queue, used, history>>

\* What a read of the stored content returns.
StoreRead(img, off, count) ==
  IF off >= Len(img)
  THEN [bytes |-> <<>>, eof |-> TRUE]
  ELSE LET end == Smaller(Len(img), off + count)
       IN  [bytes |-> SubSeq(img, off + 1, end), eof |-> end >= Len(img)]

\* The stored content is read and the reply sent: the buffer of the file, if it
\* has one, is not looked at.
Reply(t) == StoreRead(Content(local[t].path), local[t].req.off, local[t].req.count)

ReadData(t) ==
  /\ pc[t] = "data"
  /\ Finish(t)
  /\ UNCHANGED <<buffers, store, permits, queue, used, history>>

\* Mutant of PackRead: the new channel is inserted before it is loaded.
PackReadInserting(t) ==
  /\ pc[t] = "pack"
  /\ \/ /\ Entry(t) # None
        /\ local' = [local EXCEPT ![t].chan = Entry(t)]
        /\ Goto(t, "range")
        /\ UNCHANGED <<activeWrites, nchan>>
     \/ /\ Entry(t) = None
        /\ nchan < MaxChannels
        /\ nchan' = nchan + 1
        /\ activeWrites' = [activeWrites EXCEPT ![local[t].file] = nchan + 1]
        /\ local' = [local EXCEPT ![t].chan = nchan + 1]
        /\ Goto(t, "load")
  /\ UNCHANGED <<buf, store, permits, queue, used, history>>

\* A pack file is read from its buffer; one without a buffer gets a new one.
PackRead(t) ==
  /\ pc[t] = "pack"
  /\ \/ /\ Entry(t) # None
        /\ local' = [local EXCEPT ![t].chan = Entry(t)]
        /\ Goto(t, "range")
        /\ UNCHANGED nchan
     \/ /\ Entry(t) = None
        /\ nchan < MaxChannels
        /\ nchan' = nchan + 1
        /\ local' = [local EXCEPT ![t].chan = nchan + 1]
        /\ Goto(t, "load")
  /\ UNCHANGED <<activeWrites, buf, store, permits, queue, used, history>>

\* load_existing_content: the stored content becomes the first chunk, of length
\* zero when nothing is stored.  The lock of active_writes is not held.
LoadExisting(t) ==
  /\ pc[t] = "load"
  /\ \/ /\ idToPath[local[t].file] # None
        /\ Write(local[t].chan,
                 [off |-> 0, bytes |-> Content(idToPath[local[t].file])])
        /\ Goto(t, "insert")
        /\ UNCHANGED <<local, fate>>
     \/ /\ idToPath[local[t].file] = None
        /\ fate' = [fate EXCEPT ![local[t].chan] = "lost"]
        /\ Finish(t)
        /\ UNCHANGED <<buf, arrived>>
  /\ UNCHANGED <<activeWrites, nchan, store, permits, queue, used, sealed>>

\* The lock is taken again and the channel inserted, in place of the channel of
\* a writer that came in between.
InsertLoaded(t) ==
  /\ pc[t] = "insert"
  /\ activeWrites' = [activeWrites EXCEPT ![local[t].file] = local[t].chan]
  /\ fate' = IF Entry(t) = None THEN fate ELSE [fate EXCEPT ![Entry(t)] = "lost"]
  /\ Goto(t, "range")
  /\ UNCHANGED <<buf, nchan, store, permits, local, queue, used, arrived, sealed>>

\* The blocks that hold the range are read one by one with read_range, and the
\* range is cut out of what they returned: full_buffer[start..end] panics when
\* that is shorter than start.
PackOutcome(b, off, count) ==
  LET first == off \div Grain
      next  == (off + count + Grain - 1) \div Grain
      full[k \in first .. next] ==
        IF k = first THEN <<>> ELSE full[k - 1] \o ReadRange(b, (k - 1) * Grain, Grain).bytes
      start == off - first * Grain
  IN  IF \E k \in first .. next - 1 : ReadRange(b, k * Grain, Grain).spins
      THEN "spinning"
      ELSE IF start > Len(full[next]) THEN "panicked"
      ELSE "idle"

RangeRead(t) ==
  /\ pc[t] = "range"
  /\ LET outcome == PackOutcome(buf[local[t].chan], local[t].req.off, local[t].req.count)
     IN  IF outcome = "idle" THEN Finish(t) ELSE Goto(t, outcome) /\ UNCHANGED local
  /\ UNCHANGED <<buffers, store, permits, queue, used, history>>

-----------------------------------------------------------------------------
(***************************************************************************)
(* setattr, remove and create, as far as they change this state.           *)
(***************************************************************************)

\* nfsproc3_setattr asks for the attributes first, so the id is known here.
StartSetAttr(t, f, attrs) ==
  /\ Spend("setattr")
  /\ Begin(t, "setattr", f, attrs, "attrpath")
  /\ UNCHANGED <<buffers, store, permits, queue, history>>

\* Where the id has gone since, setattr goes on with an empty path, here None.
AttrPath(t) ==
  /\ pc[t] = "attrpath"
  /\ local' = [local EXCEPT ![t].path = idToPath[local[t].file]]
  /\ Goto(t, "attrget")
  /\ UNCHANGED <<buffers, store, permits, queue, used, history>>

\* The next hset_multiple of setattr, or the end of it.
AttrOnward(t) ==
  \/ /\ local[t].req.others = 0 \/ (local[t].req.others = 1 /\ local[t].req.size = NoSize)
     /\ Finish(t)
  \/ /\ local[t].req.others > 0
     /\ ~(local[t].req.others = 1 /\ local[t].req.size = NoSize)
     /\ local' = [local EXCEPT ![t].req.others = @ - 1]
     /\ Goto(t, "attrget")

AttrGet(t) ==
  /\ pc[t] = "attrget"
  /\ local' = [local EXCEPT ![t].size =
                 IF local[t].path = None THEN None ELSE meta[local[t].path]]
  /\ Goto(t, "attrput")
  /\ UNCHANGED <<buffers, store, permits, queue, used, history>>

\* The times and the mode, each in a put of its own, then the size; the data and
\* the buffers are left as they are.  No file has what is put at the empty path.
AttrPut(t) ==
  /\ pc[t] = "attrput"
  /\ meta' = IF local[t].path = None THEN meta
             ELSE [meta EXCEPT ![local[t].path] =
                     IF local[t].req.others > 0 THEN TimesPut(t) ELSE local[t].req.size]
  /\ AttrOnward(t)
  /\ UNCHANGED <<buffers, idToPath, data, permits, queue, used, history>>

\* remove: the hash must have a type, then it is deleted with the data, then the
\* file id.  The entry in active_writes stays.
StartRemove(t, f) ==
  /\ Spend("remove")
  /\ Begin(t, "remove", f, None, "rmmeta")
  /\ meta[idToPath[f]] \in Nat
  /\ UNCHANGED <<buffers, store, permits, queue, history>>

RemoveMeta(t) ==
  /\ pc[t] = "rmmeta"
  /\ meta' = [meta EXCEPT ![local[t].path] = None]
  /\ data' = [data EXCEPT ![local[t].path] = None]
  /\ Goto(t, "rmid")
  /\ UNCHANGED <<buffers, idToPath, permits, local, queue, used, history>>

RemoveId(t) ==
  /\ pc[t] = "rmid"
  /\ idToPath' = [idToPath EXCEPT ![local[t].file] = None]
  /\ Finish(t)
  /\ UNCHANGED <<buffers, meta, data, permits, queue, used, history>>

\* create: nobody knows the new id before the reply, so one step.  An id is new
\* when nothing in the system mentions it.  The hash is merged into one that is
\* left at the path, whose data stays.
Create(f, p) ==
  /\ Spend("create")
  /\ InitPath[f] = None /\ idToPath[f] = None
  /\ \A g \in Files : idToPath[g] # p
  /\ f \notin queue /\ activeWrites[f] = None
  /\ \A q \in Procs : local[q].file # f
  /\ idToPath' = [idToPath EXCEPT ![f] = p]
  /\ meta' = [meta EXCEPT ![p] = 0]
  /\ UNCHANGED <<buffers, data, permits, pc, local, queue, history>>

-----------------------------------------------------------------------------
(***************************************************************************)
(* A call of the store fails, and the server stops and starts again.       *)
(***************************************************************************)
\* The put of the size, or one of the reads of is_likely_last_write.
FaultInWrite(t) ==
  /\ pc[t] \in {"putsize", "checkpath", "checklast"}
  /\ Spend("fault")
  /\ Finish(t)
  /\ UNCHANGED <<buffers, store, permits, queue, history>>

\* setattr takes a path that it cannot read for empty.
FaultInAttrPath(t) ==
  /\ pc[t] = "attrpath"
  /\ Spend("fault")
  /\ local' = [local EXCEPT ![t].path = None]
  /\ Goto(t, "attrget")
  /\ UNCHANGED <<buffers, store, permits, queue, history>>

\* ... and ignores a put that fails.
FaultInAttr(t) ==
  /\ pc[t] \in {"attrget", "attrput"}
  /\ Spend("fault")
  /\ AttrOnward(t)
  /\ UNCHANGED <<buffers, store, permits, queue, history>>

\* The path of a file to commit cannot be read: as if there were none.
FaultInPath(p) ==
  /\ pc[p] = "path"
  /\ Spend("fault")
  /\ fate' = [fate EXCEPT ![local[p].chan] = "lost"]
  /\ CommitReturn(p, FALSE)
  /\ UNCHANGED <<buffers, store, queue, arrived, sealed>>

FaultInStore(p) ==
  /\ pc[p] = "store"
  /\ Spend("fault")
  /\ fate' = [fate EXCEPT ![local[p].chan] = "lost"]
  /\ CommitReturn(p, FALSE)
  /\ UNCHANGED <<buffers, store, queue, arrived, sealed>>

FaultInTimes(p) ==
  /\ pc[p] = "puttimes"
  /\ Spend("fault")
  /\ CommitReturn(p, FALSE)
  /\ UNCHANGED <<buffers, store, queue, history>>

\* What is not in the store is gone.  The ids go on from where they were.
Restart ==
  /\ Spend("crash")
  /\ activeWrites' = [f \in Files |-> None]
  /\ permits' = Permits
  /\ pc' = [p \in Procs |-> "idle"]
  /\ local' = [p \in Procs |-> Blank]
  /\ queue' = {}
  /\ fate' = [c \in Channels |-> IF fate[c] = "stored" \/ c > nchan
                                 THEN fate[c] ELSE "lost"]
  /\ UNCHANGED <<buf, nchan, store, arrived, sealed>>

-----------------------------------------------------------------------------
WriteStep(t) ==
  \/ GetChannel(t) \/ Push(t) \/ ReadTotal(t) \/ PutSize(t) \/ CheckPath(t)
  \/ CheckLast(t) \/ Mark(t)

CommitStep(p) ==
  \/ Acquire(p) \/ Take(p) \/ CommitPath(p) \/ CommitRead(p) \/ CommitStore(p)
  \/ CommitTouch(p) \/ CommitTimes(p) \/ CommitClear(p)

ReadStep(t) ==
  \/ GitRead(t) \/ ReadData(t) \/ PackRead(t) \/ LoadExisting(t) \/ InsertLoaded(t)
  \/ RangeRead(t)

AttrStep(t) == AttrPath(t) \/ AttrGet(t) \/ AttrPut(t) \/ RemoveMeta(t) \/ RemoveId(t)

TaskStep(t) == WriteStep(t) \/ CommitStep(t) \/ ReadStep(t) \/ AttrStep(t)

MonitorStep == MonitorScan \/ MonitorCommit \/ CommitStep(Monitor)

Request(t) ==
  \/ \E f \in Files, off \in Offsets, len \in Lens :
       StartWrite(t, f, off, len) \/ StartRead(t, f, off, len)
  \/ \E f \in Files, n \in AttrCounts, size \in Offsets \cup {NoSize} :
       /\ n > 0 \/ size # NoSize
       /\ StartSetAttr(t, f, [others |-> n, size |-> size])
  \/ \E f \in Files : StartRemove(t, f)

Failure ==
  \/ \E t \in Tasks : FaultInWrite(t) \/ FaultInAttrPath(t) \/ FaultInAttr(t)
  \/ \E p \in Procs : FaultInPath(p) \/ FaultInStore(p) \/ FaultInTimes(p)
  \/ Restart

Next ==
  \/ \E t \in Tasks : Request(t) \/ TaskStep(t)
  \/ MonitorStep
  \/ \E f \in Files, p \in Paths : Create(f, p)
  \/ Failure

Spec == Init /\ [][Next]_vars

\* The runtime runs every task that can go on, and the monitor wakes up every
\* second.  Nobody has to send a request, and nothing has to fail.
FairSpec ==
  /\ Spec
  /\ \A t \in Tasks : WF_vars(TaskStep(t))
  /\ WF_vars(MonitorStep)

-----------------------------------------------------------------------------
(***************************************************************************)
(* Properties.                                                             *)
(***************************************************************************)

\* Between the removal of an entry from active_writes and the return of
\* commit_write the channel belongs to one process: no other commit, and no
\* writer that starts now, can get at it.
Committing(p) == pc[p] \in {"path", "readall", "store", "touch", "puttimes", "clear"}

OneCommitter ==
  \A p \in Procs : Committing(p) =>
    /\ \A q \in Procs : Committing(q) /\ q # p => local[q].chan # local[p].chan
    /\ \A f \in Files : activeWrites[f] # local[p].chan

\* A channel that nobody has taken, stored or lost is the one of a file in
\* active_writes, or of a reader that is about to insert it there; and what
\* active_writes holds was not taken, stored or lost, and belongs to one file.
Loading(p) == pc[p] \in {"load", "insert"}

OpenIsReachable ==
  /\ \A c \in 1 .. nchan : fate[c] = "open" =>
       \/ \E f \in Files : activeWrites[f] = c
       \/ \E p \in Procs : Loading(p) /\ local[p].chan = c
  /\ \A f \in Files : activeWrites[f] # None =>
       /\ activeWrites[f] \in 1 .. nchan /\ fate[activeWrites[f]] = "open"
       /\ \A g \in Files : activeWrites[g] = activeWrites[f] => g = f
       /\ \A p \in Procs : Loading(p) => local[p].chan # activeWrites[f]

\* writing.rs:180: "Don't auto-commit pack files"; and no handler commits them
\* either.  What is written to a pack file is never stored.
PackNeverStored == \A p \in PackPaths : data[p] = None

\* The permits of commit_semaphore that are taken are those of the processes
\* inside commit_write: none is lost on an early return, an error or a crash.
InCommit(p) == pc[p] = "take" \/ Committing(p)

PermitsAccounted == permits + Cardinality({p \in Procs : InCommit(p)}) = Permits

\* The monitor only takes a channel that was marked complete, although its scan
\* and its commit are different steps.  (Not so for git files, whose handlers
\* commit too: a new channel may take the place of the one that was scanned.)
MonitorTakes ==
  pc[Monitor] = "take" /\ pc'[Monitor] = "path"

MonitorTakesOnlyComplete ==
  [][MonitorTakes => buf[activeWrites[local[Monitor].file]].complete]_vars

\* Whatever the writers, committers, faults and restarts do: what is stored
\* under a path is what a prefix of the chunks of one channel amounts to, the
\* prefix holds every chunk there was when the channel was taken, and no channel
\* is stored twice.
Batches == INSTANCE BatchStore WITH batch <- arrived, content <- data

BatchesImplemented == Batches!Spec

\* Every request is answered: no permit, lock or lost entry keeps a handler.
EveryRequestAnswered == \A t \in Tasks : pc[t] # "idle" ~> pc[t] = "idle"

\* A channel of a file that is not a pack file does not stay behind: once it is
\* marked complete it leaves active_writes, or its file is removed.  (Then the
\* scan finds no path for it, and it stays for as long as the server runs.)
CompleteIsTaken ==
  \A c \in Channels, f \in Files :
    (activeWrites[f] = c /\ buf[c].complete)
      ~> (activeWrites[f] # c \/ idToPath[f] = None)

\* One client that only writes and reads, each request after the reply to the
\* one before, while no call of the store fails.
OneClient ==
  /\ \A t, u \in Tasks : pc[t] # "idle" /\ pc[u] # "idle" => t = u
  /\ \A b \in Budgets \ {"write", "read"} : used[b] = 0

\* Then every write to a file that is not a pack file is committed in the end,
\* for a write that begins a channel reaches the size it has just stored and
\* marks the channel.
SequentialWritesAreCommitted ==
  []OneClient => \A f \in Files : activeWrites[f] # None ~> activeWrites[f] = None

\* And over a store with an atomic hset_multiple: when all is done and nothing
\* is buffered, the size in the metadata covers the content.
Quiet(f) == (\A p \in Procs : pc[p] = "idle") /\ activeWrites[f] = None

SizeCovers ==
  \A f \in Files :
    LET p == idToPath[f]
    IN  Quiet(f) /\ p # None /\ data[p] # None
          => meta[p] \in Nat /\ Len(data[p]) <= meta[p]

SequentialSizeCovers == []OneClient => []SizeCovers

-----------------------------------------------------------------------------
(***************************************************************************)
(* What the documentation of the file system interface, kernel/vfs/api.rs, *)
(* says, and this code does not do.                                        *)
(***************************************************************************)

\* api.rs:106, of write: "offset/count may go past the end of the file and in
\* that case, the file is extended".  Then a commit that makes the content
\* longer keeps the bytes that were there.
ExtendKeepsBytes ==
  [][\A p \in Paths :
       data[p] # None /\ data'[p] # None /\ Len(data'[p]) > Len(data[p])
         => \A i \in DOMAIN data[p] : data[p][i] # 0 => data'[p][i] # 0]_vars

\* api.rs:100, of read: "all bytes till the end of file are returned.  EOF must
\* be flagged if the end of the file is reached by the read."  Then a reply that
\* flags the end of the file ends at or behind the size of the file.
EofIsEndOfFile ==
  [][\A t \in Tasks :
       ReadData(t) /\ meta[local[t].path] \in Nat /\ Reply(t).eof
         => local[t].req.off + Len(Reply(t).bytes) >= meta[local[t].path]]_vars

\* api.rs:99, of read: "offset/count may go past the end of the file".  Then a
\* read of a pack file does not bring its handler down, wherever it starts.
NoReadPanics == \A t \in Tasks : pc[t] # "panicked"

\* ... nor does it keep its handler forever.
NoReadSpins == \A t \in Tasks : pc[t] # "spinning"
=============================================================================
