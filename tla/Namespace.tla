------------------------------ MODULE Namespace ------------------------------
(***************************************************************************)
(* The names of SharesFS: CREATE, MKDIR, SYMLINK, REMOVE, RMDIR, RENAME,   *)
(* MNT, and the commit of a content under the path of its file, each run   *)
(* by a task of its own over a store without transactions.                 *)
(*                                                                         *)
(*   src/src/sharesfs/mod.rs, directories.rs, rename.rs                    *)
(*   src/src/backingstore/rocksdb_data_store.rs, redis_data_store.rs       *)
(*                                                                         *)
(* The store keeps the sorted set of the nodes, the hashes path_to_id and  *)
(* id_to_path, a counter of file ids, and a hash per path with metadata,   *)
(* content and the target of a symbolic link.  A path is the sequence of   *)
(* names below the mounted directory, which is <<>>.                       *)
(*                                                                         *)
(* Every call of the store is a step, and where RocksDB makes a call out   *)
(* of several of its own so is each of these, but that a value is read and *)
(* put elsewhere in one.  A request ends when one of its reads fails, with *)
(* an error reply; the reads with which it begins, the attributes and the  *)
(* path of its directory, are one step.                                    *)
(***************************************************************************)
EXTENDS Integers, Sequences, FiniteSets

CONSTANTS
  Names,       \* names of files
  Paths,       \* bound: the paths there can be
  Tasks,       \* tasks that serve requests
  MaxId,       \* bound: file ids
  Redis,       \* is the store Redis, or RocksDB
  Mounted,     \* has the directory been mounted at the start
  WildRenames, \* do clients rename a path onto itself or onto a directory that is
               \* not empty
  CleanMount,  \* is the directory set up while nothing else goes on or fails
  Requests,    \* bound: the kinds of requests there are
  Limit,       \* bounds: [Budgets -> Nat], how often each thing may happen
  Total,       \* bound: how often all of them together
  None         \* no value

Creates == {"create", "guarded", "exclusive", "mkdir", "symlink"}
Ops     == Creates \cup {"remove", "rename", "commit", "mount"}
Budgets == {"request", "fault", "recount", "crash"}
Types   == {"dir", "file", "link"}
Kinds   == {"hash", "data", "link"}
Ids     == 1 .. MaxId

Parent(p)     == SubSeq(p, 1, Len(p) - 1)
Prefix(p, q)  == Len(p) <= Len(q) /\ SubSeq(q, 1, Len(p)) = p
Below(q, p)   == Prefix(p, q) /\ q # p
Related(p, q) == Prefix(p, q) \/ Prefix(q, p)

\* q with the prefix from replaced by to.
Moved(q, from, to) == to \o SubSeq(q, Len(from) + 1, Len(q))

\* The metadata of a path: a field is None where it lacks.
Hash == [type : Types \cup {None}, id : Ids \cup {None}]

ASSUME NamespaceAssumption ==
  /\ Paths \subseteq Seq(Names)
  /\ <<>> \in Paths
  /\ \A p \in Paths \ {<<>>} : Parent(p) \in Paths
  /\ MaxId \in Nat \ {0}
  /\ Redis \in BOOLEAN /\ Mounted \in BOOLEAN /\ WildRenames \in BOOLEAN
  /\ CleanMount \in BOOLEAN
  /\ Requests \subseteq Ops /\ Limit \in [Budgets -> Nat] /\ Total \in Nat
  /\ None \notin Paths \cup Nat \cup Types \cup Ops \cup Hash

VARIABLES
  nodes,     \* the sorted set of nodes
  meta,      \* the metadata of a path: type and file id, None where they lack
  data,      \* its content, named by the id of the file it was written to
  links,     \* the paths with a field symlink_target
  pathToId,  \* the hash path_to_id
  idToPath,  \* the hash id_to_path
  nextId,    \* the counter next_fileid
  pc,        \* the step a task takes next
  local,     \* its local variables
  used,      \* how often each thing has happened, against Limit
  \* History, not read by any step of the system:
  holders,   \* the paths an id was issued for
  tainted    \* the paths of requests that overlapped, failed or were cut off

hashes  == <<meta, data, links>>
index   == <<nodes, pathToId, idToPath>>
store   == <<hashes, index, nextId>>
history == <<holders, tainted>>
vars    == <<store, pc, local, used, history>>

CreateLabels == {"look", "exists", "incr", "incrput", "zadd", "hash", "link", "p2i", "i2p",
                 "empty", "reset"}
RemoveLabels == {"scan", "getid", "zrem", "delete", "unpath", "unid"}
KeyLabels    == {"movedata", "cutdata", "movekey", "cutkey"}
RenameLabels == {"source", "target", "type", "move", "keys", "moving",
                 "node", "renode", "entry", "epath", "eset", "eid", "eput",
                 "etouch", "etouchput"} \cup KeyLabels
CommitLabels == {"put", "touch", "touchput"}
Labels == {"idle"} \cup CreateLabels \cup RemoveLabels \cup RenameLabels \cup CommitLabels

\* The local variables of a task: path, new path and the directory it is in, id
\* and type of what is created, what is left of a list, the member at hand and a
\* hash that was read; over RocksDB the keys that are left of a list, and the one at
\* hand.
Locals ==
  [op : Ops \cup {None}, path : Paths \cup {None}, to : Paths \cup {None},
   dir : Ids \cup {None}, name : Names \cup {None}, id : Ids \cup {None},
   todo : SUBSET (Paths \cup (Paths \X Ids)),
   cur : Paths \cup (Paths \X Ids) \cup {None}, hash : Hash \cup {None},
   keys : SUBSET (Paths \X Kinds), key : (Paths \X Kinds) \cup {None}]

Blank == [op |-> None, path |-> None, to |-> None, dir |-> None, name |-> None,
          id |-> None, todo |-> {}, cur |-> None, hash |-> None, keys |-> {}, key |-> None]

TypeOK ==
  /\ nodes \subseteq Paths /\ links \subseteq Paths
  /\ meta \in [Paths -> Hash \cup {None}]
  /\ data \in [Paths -> Ids \cup {None}]
  /\ pathToId \in [Paths -> Ids \cup {None}]
  /\ idToPath \in [Ids -> Paths \cup {None}]
  /\ nextId \in 0 .. MaxId
  /\ pc \in [Tasks -> Labels]
  /\ local \in [Tasks -> Locals]
  /\ used \in [Budgets -> Nat]
  /\ holders \in [Ids -> SUBSET Paths]
  /\ tainted \subseteq Paths

Init ==
  /\ nodes = IF Mounted THEN {<<>>} ELSE {}
  /\ meta = [p \in Paths |->
              IF Mounted /\ p = <<>> THEN [type |-> "dir", id |-> 1] ELSE None]
  /\ data = [p \in Paths |-> None]
  /\ links = {}
  /\ pathToId = [p \in Paths |-> IF Mounted /\ p = <<>> THEN 1 ELSE None]
  /\ idToPath = [i \in Ids |-> IF Mounted /\ i = 1 THEN <<>> ELSE None]
  /\ nextId = IF Mounted THEN 1 ELSE 0
  /\ pc = [t \in Tasks |-> "idle"]
  /\ local = [t \in Tasks |-> Blank]
  /\ used = [b \in Budgets |-> 0]
  /\ holders = [i \in Ids |-> IF Mounted /\ i = 1 THEN {<<>>} ELSE {}]
  /\ tainted = {}

-----------------------------------------------------------------------------
(***************************************************************************)
(* Helpers of the actions.                                                 *)
(***************************************************************************)
Affords(b) ==
  /\ used[b] < Limit[b]
  /\ used["request"] + used["fault"] + used["recount"] + used["crash"] < Total

Spend(b) ==
  /\ Affords(b)
  /\ used' = [used EXCEPT ![b] = @ + 1]

Goto(t, label) == pc' = [pc EXCEPT ![t] = label]

\* The request of t ends and is answered.
Finish(t) ==
  /\ pc' = [pc EXCEPT ![t] = "idle"]
  /\ local' = [local EXCEPT ![t] = Blank]

\* The paths that the request of t names.
Named(t) == {local[t].path, local[t].to} \ {None}

\* History: t is about to name the paths P as well.  The paths that it names are
\* tainted if one of them is, or if they meet a path of another task.
Claim(t, P) ==
  LET met   == {u \in Tasks \ {t} : \E p \in P, q \in Named(u) : Related(p, q)}
      names == Named(t) \cup P
  IN  tainted' = IF met # {} \/ \E r \in names, q \in tainted : Related(r, q)
                 THEN tainted \cup names \cup UNION {Named(u) : u \in met}
                 ELSE tainted

\* The request of t may change p.
Covers(t, p) == \E q \in Named(t) : Prefix(q, p)

\* Whether the store has anything under the path p.
Keyed(p) == meta[p] # None \/ data[p] # None \/ p \in links

\* What a handler asks of a directory: that an id leads to it and that it has
\* attributes.  Nothing asks whether it is one: a file can have names in it as well.
Known(p) == (\E i \in Ids : idToPath[i] = p) /\ Keyed(p)

\* A task that has no request can take one.
Free(t) ==
  /\ pc[t] = "idle"
  /\ Affords("request")
  /\ CleanMount => \A u \in Tasks : local[u].op # "mount"

Begin(t, op, r, label) ==
  /\ op \in Requests
  /\ Spend("request")
  /\ Goto(t, label)
  /\ local' = [local EXCEPT ![t] = r]
  /\ Claim(t, {r.path, r.to} \ {None})
  /\ UNCHANGED <<store, holders>>

-----------------------------------------------------------------------------
(***************************************************************************)
(* create, create_exclusive, mkdir and symlink.                            *)
(***************************************************************************)
TypeOf(op) == IF op \in {"mkdir", "mount"} THEN "dir"
              ELSE IF op = "symlink" THEN "link" ELSE "file"

\* The handler of a guarded CREATE looks the name up before it calls create.
StartCreate(t, op, p) ==
  /\ Free(t)
  /\ p # <<>> /\ Known(Parent(p))
  /\ op = "guarded" => pathToId[p] = None
  /\ Begin(t, op, [Blank EXCEPT !.op = op, !.path = p], "exists")

\* zscore: a name that exists is an error, but for create_exclusive, which then
\* replies with the id that path_to_id has for it.
Exists(t) ==
  /\ pc[t] = "exists"
  /\ \/ /\ local[t].path \in nodes
        /\ Finish(t)
     \/ /\ local[t].path \notin nodes
        /\ Goto(t, "incr")
        /\ UNCHANGED local
  /\ UNCHANGED <<store, used, history>>

Issue(t, i) == holders' = [holders EXCEPT ![i] = @ \cup {local[t].path}]

\* Mutant of Incr: Redis counts in two steps as well.
IncrTorn(t) ==
  /\ pc[t] = "incr"
  /\ nextId < MaxId
  /\ local' = [local EXCEPT ![t].id = nextId + 1]
  /\ Goto(t, "incrput")
  /\ UNCHANGED <<store, used, history>>

\* incr: one step over Redis, a get and a put over RocksDB, whose get may fail.
Incr(t) ==
  /\ pc[t] = "incr"
  /\ nextId < MaxId
  /\ local' = [local EXCEPT ![t].id = nextId + 1]
  /\ \/ /\ Redis
        /\ nextId' = nextId + 1
        /\ Issue(t, nextId + 1)
        /\ Goto(t, "zadd")
     \/ /\ ~Redis
        /\ Goto(t, "incrput")
        /\ UNCHANGED <<nextId, holders>>
  /\ UNCHANGED <<hashes, index, used, tainted>>

\* RocksDB takes a counter that cannot be read for one that is not there.
IncrLost(t) ==
  /\ ~Redis
  /\ pc[t] = "incr"
  /\ CleanMount => local[t].op # "mount"
  /\ Spend("recount")
  /\ local' = [local EXCEPT ![t].id = 1]
  /\ Goto(t, "incrput")
  /\ UNCHANGED <<store, history>>

\* A put that fails is tried again, with what the counter has come to by then.  (The
\* tenth that fails ends the request: Fault.)
IncrAgain(t) ==
  /\ pc[t] = "incrput"
  /\ Spend("fault")
  /\ Goto(t, "incr")
  /\ UNCHANGED <<store, local, history>>

IncrPut(t) ==
  /\ pc[t] = "incrput"
  /\ nextId' = local[t].id
  /\ Issue(t, local[t].id)
  /\ Goto(t, "zadd")
  /\ UNCHANGED <<hashes, index, local, used, tainted>>

ZAdd(t) ==
  /\ pc[t] = "zadd"
  /\ nodes' = nodes \cup {local[t].path}
  /\ Goto(t, "hash")
  /\ UNCHANGED <<hashes, pathToId, idToPath, nextId, local, used, history>>

AfterHash(t) == IF local[t].op = "symlink" THEN "link" ELSE "p2i"

\* Mutant of PutHash: the kind of request is taken for the type.
PutHashOp(t) ==
  /\ pc[t] = "hash"
  /\ meta' = [meta EXCEPT ![local[t].path] = [type |-> local[t].op, id |-> local[t].id]]
  /\ Goto(t, "p2i")
  /\ UNCHANGED <<data, links, index, nextId, local, used, history>>

\* hset_multiple of every field: what was there before does not matter.
PutHash(t) ==
  /\ pc[t] = "hash"
  /\ meta' = [meta EXCEPT ![local[t].path] =
                [type |-> TypeOf(local[t].op), id |-> local[t].id]]
  /\ Goto(t, AfterHash(t))
  /\ UNCHANGED <<data, links, index, nextId, local, used, history>>

PutLink(t) ==
  /\ pc[t] = "link"
  /\ links' = links \cup {local[t].path}
  /\ Goto(t, "p2i")
  /\ UNCHANGED <<meta, data, index, nextId, local, used, history>>

PutPathToId(t) ==
  /\ pc[t] = "p2i"
  /\ pathToId' = [pathToId EXCEPT ![local[t].path] = local[t].id]
  /\ Goto(t, "i2p")
  /\ UNCHANGED <<hashes, nodes, idToPath, nextId, local, used, history>>

\* The last call.  The attributes that the reply carries are read after it.
PutIdToPath(t) ==
  /\ pc[t] = "i2p"
  /\ idToPath' = [idToPath EXCEPT ![local[t].id] = local[t].path]
  /\ IF local[t].op = "mount" /\ local[t].id = 1
     THEN Goto(t, "reset") /\ UNCHANGED local
     ELSE Finish(t)
  /\ UNCHANGED <<hashes, nodes, pathToId, nextId, used, history>>

-----------------------------------------------------------------------------
(***************************************************************************)
(* init_user_directory, for MNT.                                           *)
(***************************************************************************)
StartMount(t) ==
  /\ Free(t)
  /\ Redis => ~Keyed(<<>>)
  /\ Begin(t, "mount", [Blank EXCEPT !.op = "mount", !.path = <<>>],
           IF Redis THEN "empty" ELSE "look")

\* RocksDB: a directory that is there is left alone.
MountLook(t) ==
  /\ pc[t] = "look"
  /\ IF meta[<<>>] # None THEN Finish(t)
     ELSE Goto(t, "incr") /\ UNCHANGED local
  /\ UNCHANGED <<store, used, history>>

\* Redis: the first directory has the id 1, whatever the counter says.
MountEmpty(t) ==
  /\ pc[t] = "empty"
  /\ IF nodes = {}
     THEN /\ local' = [local EXCEPT ![t].id = 1]
          /\ Issue(t, 1)
          /\ Goto(t, "zadd")
     ELSE Goto(t, "incr") /\ UNCHANGED <<local, holders>>
  /\ UNCHANGED <<store, used, tainted>>

\* Mutant of MountReset: the counter goes back to the beginning.
MountResetZero(t) ==
  /\ pc[t] = "reset"
  /\ nextId' = 0
  /\ Finish(t)
  /\ UNCHANGED <<hashes, index, used, history>>

\* "if fileid == 1", at the end.
MountReset(t) ==
  /\ pc[t] = "reset"
  /\ nextId' = 1
  /\ Finish(t)
  /\ UNCHANGED <<hashes, index, used, history>>

-----------------------------------------------------------------------------
(***************************************************************************)
(* remove, for REMOVE and RMDIR.                                           *)
(***************************************************************************)
StartRemove(t, p) ==
  /\ Free(t)
  /\ p # <<>> /\ Known(Parent(p))
  /\ meta[p] # None /\ meta[p].type # None
  /\ Begin(t, "remove", [Blank EXCEPT !.op = "remove", !.path = p], "scan")

\* Mutant of Children: the pattern matches the path alone.
ChildrenNever(p) == {q \in nodes : Below(q, p) /\ q = p}

\* zscan_match of "path/*": Redis takes it as a pattern, RocksDB looks for members
\* that contain these very characters, the star included.
Children(p) == IF Redis THEN {q \in nodes : Below(q, p)} ELSE {}

Scan(t) ==
  /\ pc[t] = "scan"
  /\ IF Children(local[t].path) # {}
     THEN Finish(t)
     ELSE Goto(t, "getid") /\ UNCHANGED local
  /\ UNCHANGED <<store, used, history>>

GetId(t) ==
  /\ pc[t] = "getid"
  /\ \/ /\ pathToId[local[t].path] # None
        /\ local' = [local EXCEPT ![t].id = pathToId[local[t].path]]
        /\ Goto(t, "zrem")
     \/ /\ pathToId[local[t].path] = None
        /\ Finish(t)
  /\ UNCHANGED <<store, used, history>>

\* Mutant of ZRem: the member stays.
ZRemNot(t) ==
  /\ pc[t] = "zrem"
  /\ Goto(t, "delete")
  /\ UNCHANGED <<store, local, used, history>>

ZRem(t) ==
  /\ pc[t] = "zrem"
  /\ nodes' = nodes \ {local[t].path}
  /\ Goto(t, "delete")
  /\ UNCHANGED <<hashes, pathToId, idToPath, nextId, local, used, history>>

\* delete: over RocksDB the field symlink_target is a key of its own and stays.
Delete(t) ==
  /\ pc[t] = "delete"
  /\ meta' = [meta EXCEPT ![local[t].path] = None]
  /\ data' = [data EXCEPT ![local[t].path] = None]
  /\ links' = IF Redis THEN links \ {local[t].path} ELSE links
  /\ Goto(t, "unpath")
  /\ UNCHANGED <<index, nextId, local, used, history>>

DelPathToId(t) ==
  /\ pc[t] = "unpath"
  /\ pathToId' = [pathToId EXCEPT ![local[t].path] = None]
  /\ Goto(t, "unid")
  /\ UNCHANGED <<hashes, nodes, idToPath, nextId, local, used, history>>

\* Mutant of DelIdToPath: the id keeps its path.
DelIdToPathNot(t) ==
  /\ pc[t] = "unid"
  /\ Finish(t)
  /\ UNCHANGED <<store, used, history>>

DelIdToPath(t) ==
  /\ pc[t] = "unid"
  /\ idToPath' = [idToPath EXCEPT ![local[t].id] = None]
  /\ Finish(t)
  /\ UNCHANGED <<hashes, nodes, pathToId, nextId, used, history>>

-----------------------------------------------------------------------------
(***************************************************************************)
(* rename.                                                                 *)
(***************************************************************************)
AtOrBelow(p) == {q \in Paths : Prefix(p, q)}

\* Whether p can become q in this model: every path below p has a place below q.
Fits(p, q) == q \in Paths /\ \A r \in AtOrBelow(p) : Moved(r, p, q) \in Paths

\* Clients see to it that a path does not become its own descendant, and most
\* that it does not replace itself or a directory with something in it.
Tame(p, q) == ~Prefix(p, q) /\ \A r \in nodes : ~Below(r, q)

\* The new path is known once the path of its directory has been read, which is
\* another one by then if that was renamed.
StartRename(t, p, i, name) ==
  /\ Free(t)
  /\ p # <<>> /\ Known(Parent(p))
  /\ idToPath[i] # None /\ Known(idToPath[i])
  /\ LET to == Append(idToPath[i], name)
     IN  /\ Fits(p, to)
         /\ WildRenames \/ Tame(p, to)
         /\ Begin(t, "rename",
                  [Blank EXCEPT !.op = "rename", !.path = p, !.to = to, !.dir = i, !.name = name],
                  "source")

RenameSource(t) ==
  /\ pc[t] = "source"
  /\ IF local[t].path \in nodes
     THEN Goto(t, "target") /\ UNCHANGED local
     ELSE Finish(t)
  /\ UNCHANGED <<store, used, history>>

RenameTarget(t) ==
  /\ pc[t] = "target"
  /\ \/ /\ idToPath[local[t].dir] = None
        /\ Finish(t)
        /\ UNCHANGED tainted
     \/ /\ idToPath[local[t].dir] # None
        /\ LET to == Append(idToPath[local[t].dir], local[t].name)
           IN  /\ Fits(local[t].path, to)
               /\ local' = [local EXCEPT ![t].to = to]
               /\ Claim(t, {to})
        /\ Goto(t, "type")
  /\ UNCHANGED <<store, used, holders>>

RenameType(t) ==
  /\ pc[t] = "type"
  /\ IF meta[local[t].path] # None /\ meta[local[t].path].type # None
     THEN \/ Redis /\ Goto(t, "move") /\ UNCHANGED local
          \/ /\ ~Redis
             /\ Goto(t, "movedata")
             /\ local' = [local EXCEPT ![t].key = <<local[t].path, "hash">>]
     ELSE Finish(t)
  /\ UNCHANGED <<store, used, history>>

NewPath(t, q) == Moved(q, local[t].path, local[t].to)

\* Mutant of MoveHash: the content stays at the old path.
MoveHashOnly(p, q) ==
  /\ meta' = IF meta[p] = None THEN meta ELSE [meta EXCEPT ![p] = None, ![q] = meta[p]]
  /\ links' = IF p \in links THEN (links \ {p}) \cup {q} ELSE links
  /\ UNCHANGED data

\* rename of a key, over Redis: the target is replaced by the whole hash.
MoveHash(p, q) ==
  IF Keyed(p)
  THEN /\ meta' = [meta EXCEPT ![p] = None, ![q] = meta[p]]
       /\ data' = [data EXCEPT ![p] = None, ![q] = data[p]]
       /\ links' = IF p \in links THEN (links \ {p}) \cup {q} ELSE links \ {q}
  ELSE UNCHANGED hashes

\* The path itself goes first.
Move(t) ==
  /\ pc[t] = "move"
  /\ MoveHash(local[t].path, local[t].to)
  /\ Goto(t, "keys")
  /\ UNCHANGED <<index, nextId, local, used, history>>

\* RocksDB: the metadata of a path, its content and the target of a link are keys of
\* their own, <<q, kind>>.
HasKey(q, kind) ==
  \/ kind = "hash" /\ meta[q] # None
  \/ kind = "data" /\ data[q] # None
  \/ kind = "link" /\ q \in links

\* keys of "from/*": the paths below; over RocksDB the keys below, and those of the
\* path itself but its metadata.
Keys(t) ==
  /\ pc[t] = "keys"
  /\ LET p == local[t].path
     IN  local' = [local EXCEPT
           ![t].todo = {q \in AtOrBelow(p) \ {p} : Redis /\ Keyed(q)},
           ![t].keys = {k \in AtOrBelow(p) \X Kinds :
                          ~Redis /\ HasKey(k[1], k[2]) /\ k # <<p, "hash">>}]
  /\ Goto(t, "moving")
  /\ UNCHANGED <<store, used, history>>

\* The next key.  Over RocksDB its rename takes several steps; with the metadata goes
\* the content, and before it.
MoveKey(t) ==
  /\ pc[t] = "moving"
  /\ \E q \in local[t].todo :
       /\ local' = [local EXCEPT ![t].todo = @ \ {q}]
       /\ IF NewPath(t, q) # q THEN MoveHash(q, NewPath(t, q)) ELSE UNCHANGED hashes
  /\ UNCHANGED <<index, nextId, pc, used, history>>

NextKey(t) ==
  /\ pc[t] = "moving"
  /\ \E k \in local[t].keys :
       /\ local' = [local EXCEPT ![t].keys = @ \ {k}, ![t].key = k]
       /\ Goto(t, IF k[2] = "hash" THEN "movedata" ELSE "movekey")
  /\ UNCHANGED <<store, used, history>>

\* What comes after the rename of a key: the renamed path goes first.
Onward(t) == IF local[t].key = <<local[t].path, "hash">> THEN "keys" ELSE "moving"

\* rename, over RocksDB: what the path at hand has as its content, if anything, is set at
\* the new path, then deleted at the old one, which may be the same.
MoveData(t) ==
  /\ pc[t] = "movedata"
  /\ LET q == local[t].key[1]
     IN  /\ data' = IF data[q] = None THEN data ELSE [data EXCEPT ![NewPath(t, q)] = data[q]]
         /\ Goto(t, IF data[q] = None THEN "movekey" ELSE "cutdata")
  /\ UNCHANGED <<meta, links, index, nextId, local, used, history>>

CutData(t) ==
  /\ pc[t] = "cutdata"
  /\ data' = [data EXCEPT ![local[t].key[1]] = None]
  /\ Goto(t, "movekey")
  /\ UNCHANGED <<meta, links, index, nextId, local, used, history>>

\* Then the key itself, in the same way.
SetKey(q, kind, to) ==
  \/ kind = "hash" /\ meta' = [meta EXCEPT ![to] = meta[q]] /\ UNCHANGED <<data, links>>
  \/ kind = "data" /\ data' = [data EXCEPT ![to] = data[q]] /\ UNCHANGED <<meta, links>>
  \/ kind = "link" /\ links' = links \cup {to} /\ UNCHANGED <<meta, data>>

SetMovedKey(t) ==
  /\ pc[t] = "movekey"
  /\ LET q == local[t].key[1]  kind == local[t].key[2]
     IN  IF HasKey(q, kind) THEN SetKey(q, kind, NewPath(t, q)) /\ Goto(t, "cutkey")
         ELSE UNCHANGED hashes /\ Goto(t, Onward(t))
  /\ UNCHANGED <<index, nextId, local, used, history>>

\* The deletion of the metadata takes the content that is there by now with it.
CutKey(t) ==
  /\ pc[t] = "cutkey"
  /\ LET q == local[t].key[1]  kind == local[t].key[2]
     IN  /\ meta' = IF kind = "hash" THEN [meta EXCEPT ![q] = None] ELSE meta
         /\ data' = IF kind = "link" THEN data ELSE [data EXCEPT ![q] = None]
         /\ links' = IF kind = "link" THEN links \ {q} ELSE links
  /\ Goto(t, Onward(t))
  /\ UNCHANGED <<index, nextId, local, used, history>>

\* zrange_withscores: the members at that moment.
Nodes(t) ==
  /\ pc[t] = "moving"
  /\ local[t].todo = {} /\ local[t].keys = {}
  /\ local' = [local EXCEPT ![t].key = None, ![t].todo = nodes \cap AtOrBelow(local[t].path)]
  /\ Goto(t, "node")
  /\ UNCHANGED <<store, used, history>>

\* By score, that is by length; a member below a path that is renamed onto
\* itself is skipped.
RemNode(t) ==
  /\ pc[t] = "node"
  /\ \E q \in local[t].todo :
       /\ \A r \in local[t].todo : Len(q) <= Len(r)
       /\ IF NewPath(t, q) = q /\ q # local[t].path
          THEN /\ local' = [local EXCEPT ![t].todo = @ \ {q}]
               /\ UNCHANGED <<nodes, pc>>
          ELSE /\ nodes' = nodes \ {q}
               /\ local' = [local EXCEPT ![t].todo = @ \ {q}, ![t].cur = q]
               /\ Goto(t, "renode")
  /\ UNCHANGED <<hashes, pathToId, idToPath, nextId, used, history>>

AddNode(t) ==
  /\ pc[t] = "renode"
  /\ nodes' = nodes \cup {NewPath(t, local[t].cur)}
  /\ Goto(t, "node")
  /\ UNCHANGED <<hashes, pathToId, idToPath, nextId, local, used, history>>

\* hgetall of path_to_id: the entries at that moment, of which the replaced path
\* and those at or below the old one matter.
Entries(t) ==
  /\ pc[t] = "node"
  /\ local[t].todo = {}
  /\ local' = [local EXCEPT
       ![t].cur = None,
       ![t].todo = {<<q, pathToId[q]>> :
                      q \in {r \in AtOrBelow(local[t].path) \cup {local[t].to} :
                               pathToId[r] # None}}]
  /\ Goto(t, "entry")
  /\ UNCHANGED <<store, used, history>>

\* Mutant of Entry: the id of the replaced path keeps its path.
EntryKeeping(t) ==
  /\ pc[t] = "entry"
  /\ \E e \in local[t].todo :
       /\ local' = [local EXCEPT ![t].todo = @ \ {e}, ![t].cur = e]
       /\ Goto(t, IF Prefix(local[t].path, e[1]) THEN "epath" ELSE "entry")
  /\ UNCHANGED <<store, used, history>>

\* The next entry: the id of the replaced path loses its path.
Entry(t) ==
  /\ pc[t] = "entry"
  /\ \E e \in local[t].todo :
       /\ local' = [local EXCEPT ![t].todo = @ \ {e}, ![t].cur = e]
       /\ idToPath' = IF e[1] = local[t].to
                      THEN [idToPath EXCEPT ![e[2]] = None] ELSE idToPath
       /\ Goto(t, IF Prefix(local[t].path, e[1])
                     /\ (e[1] = local[t].path \/ NewPath(t, e[1]) # e[1])
                  THEN "epath" ELSE "entry")
  /\ UNCHANGED <<hashes, nodes, pathToId, nextId, used, history>>

EntryPath(t) ==
  /\ pc[t] = "epath"
  /\ pathToId' = [pathToId EXCEPT ![local[t].cur[1]] = None]
  /\ Goto(t, "eset")
  /\ UNCHANGED <<hashes, nodes, idToPath, nextId, local, used, history>>

EntrySet(t) ==
  /\ pc[t] = "eset"
  /\ pathToId' = [pathToId EXCEPT ![NewPath(t, local[t].cur[1])] = local[t].cur[2]]
  /\ Goto(t, "eid")
  /\ UNCHANGED <<hashes, nodes, idToPath, nextId, local, used, history>>

EntryId(t) ==
  /\ pc[t] = "eid"
  /\ idToPath' = [idToPath EXCEPT ![local[t].cur[2]] = None]
  /\ Goto(t, "eput")
  /\ UNCHANGED <<hashes, nodes, pathToId, nextId, local, used, history>>

EntryPut(t) ==
  /\ pc[t] = "eput"
  /\ idToPath' = [idToPath EXCEPT ![local[t].cur[2]] = NewPath(t, local[t].cur[1])]
  /\ Goto(t, "etouch")
  /\ UNCHANGED <<hashes, nodes, pathToId, nextId, local, used, history>>

\* hset_multiple of some fields: the others stay as they are, over RocksDB as
\* they were when the hash was read; a hash that is not there is made.
Merged(h, i) == [type |-> IF h = None THEN None ELSE h.type,
                 id   |-> IF i # None THEN i ELSE IF h = None THEN None ELSE h.id]

\* The times and the file id of the renamed path are set.
EntryTouch(t) ==
  /\ pc[t] = "etouch"
  /\ LET q == NewPath(t, local[t].cur[1])
     IN  \/ /\ Redis
            /\ meta' = [meta EXCEPT ![q] = Merged(@, local[t].cur[2])]
            /\ local' = [local EXCEPT ![t].cur = None]
            /\ Goto(t, "entry")
         \/ /\ ~Redis
            /\ local' = [local EXCEPT ![t].hash = meta[q]]
            /\ Goto(t, "etouchput")
            /\ UNCHANGED meta
  /\ UNCHANGED <<data, links, index, nextId, used, history>>

EntryTouchPut(t) ==
  /\ pc[t] = "etouchput"
  /\ meta' = [meta EXCEPT ![NewPath(t, local[t].cur[1])] =
                Merged(local[t].hash, local[t].cur[2])]
  /\ local' = [local EXCEPT ![t].cur = None, ![t].hash = None]
  /\ Goto(t, "entry")
  /\ UNCHANGED <<data, links, index, nextId, used, history>>

Renamed(t) ==
  /\ pc[t] = "entry"
  /\ local[t].todo = {}
  /\ Finish(t)
  /\ UNCHANGED <<store, used, history>>

-----------------------------------------------------------------------------
(***************************************************************************)
(* commit_write, from where it looks up the path of a file (the channel of *)
(* the file has left active_writes, see module WritePath).                 *)
(***************************************************************************)
StartCommit(t, i) ==
  /\ Free(t)
  /\ idToPath[i] # None
  /\ Begin(t, "commit", [Blank EXCEPT !.op = "commit", !.path = idToPath[i], !.id = i], "put")

PutData(t) ==
  /\ pc[t] = "put"
  /\ data' = [data EXCEPT ![local[t].path] = local[t].id]
  /\ Goto(t, "touch")
  /\ UNCHANGED <<meta, links, index, nextId, local, used, history>>

\* update_file_metadata: the times.
Touch(t) ==
  /\ pc[t] = "touch"
  /\ \/ /\ Redis
        /\ meta' = [meta EXCEPT ![local[t].path] = Merged(@, None)]
        /\ Finish(t)
     \/ /\ ~Redis
        /\ local' = [local EXCEPT ![t].hash = meta[local[t].path]]
        /\ Goto(t, "touchput")
        /\ UNCHANGED meta
  /\ UNCHANGED <<data, links, index, nextId, used, history>>

TouchPut(t) ==
  /\ pc[t] = "touchput"
  /\ meta' = [meta EXCEPT ![local[t].path] = Merged(local[t].hash, None)]
  /\ Finish(t)
  /\ UNCHANGED <<data, links, index, nextId, used, history>>

-----------------------------------------------------------------------------
(***************************************************************************)
(* A call of the store fails, and the server stops and starts again.       *)
(***************************************************************************)

\* The step that follows where the error of a call is ignored.  A zscore that fails
\* says that the name is not there; over RocksDB so do the get of a directory that is
\* mounted and the gets of a rename, whose other errors end the rename of the key.
After(t) ==
  [look |-> "incr", exists |-> "incr",
   zadd |-> "hash", hash |-> AfterHash(t), link |-> "p2i", p2i |-> "i2p",
   zrem |-> "delete", delete |-> "unpath", unpath |-> "unid",
   move |-> "keys", movedata |-> "movekey", cutdata |-> Onward(t), movekey |-> Onward(t),
   cutkey |-> Onward(t), etouch |-> "entry", etouchput |-> "entry"]

\* create_node, of mkdir and create_exclusive, stops at an error, which they
\* ignore; so does init_user_directory.
GoesOn(t) ==
  /\ pc[t] \in DOMAIN After(t)
  /\ local[t].op \in {"exclusive", "mkdir", "mount"} => pc[t] \in {"look", "exists"}

\* A call fails.  Where the error of a read ends the request before it has done anything
\* it is as if there was none.
Fault(t) ==
  /\ pc[t] \notin {"idle", "scan", "getid", "source", "type", "empty"}
  /\ CleanMount => local[t].op # "mount"
  /\ Spend("fault")
  /\ tainted' = tainted \cup Named(t)
  /\ \/ /\ GoesOn(t)
        /\ Goto(t, After(t)[pc[t]])
        /\ UNCHANGED local
     \/ /\ pc[t] = "movedata"
        /\ Goto(t, Onward(t))
        /\ UNCHANGED local
     \/ /\ pc[t] = "moving"
        /\ \E q \in local[t].todo : local' = [local EXCEPT ![t].todo = @ \ {q}]
        /\ UNCHANGED pc
     \/ /\ ~GoesOn(t)
        /\ pc[t] = "moving" => local[t].todo = {} /\ local[t].keys = {}
        /\ Finish(t)
  /\ UNCHANGED <<store, holders>>

\* RocksDB: the metadata is deleted, the deletion of the content with it fails, which
\* nobody is told.
HalfDelete(t) ==
  /\ ~Redis
  /\ \/ pc[t] = "delete" /\ meta' = [meta EXCEPT ![local[t].path] = None]
     \/ pc[t] = "cutkey" /\ meta' = [meta EXCEPT ![local[t].key[1]] = None]
  /\ Spend("fault")
  /\ tainted' = tainted \cup Named(t)
  /\ Goto(t, IF pc[t] = "delete" THEN "unpath" ELSE Onward(t))
  /\ UNCHANGED <<data, links, index, nextId, local, holders>>

Restart ==
  /\ Spend("crash")
  /\ pc' = [t \in Tasks |-> "idle"]
  /\ local' = [t \in Tasks |-> Blank]
  /\ tainted' = tainted \cup UNION {Named(t) : t \in Tasks}
  /\ UNCHANGED <<store, holders>>

-----------------------------------------------------------------------------
CreateStep(t) ==
  \/ Exists(t) \/ Incr(t) \/ IncrLost(t) \/ IncrAgain(t) \/ IncrPut(t)
  \/ ZAdd(t) \/ PutHash(t) \/ PutLink(t) \/ PutPathToId(t) \/ PutIdToPath(t)
  \/ MountLook(t) \/ MountEmpty(t) \/ MountReset(t)

RemoveStep(t) ==
  \/ Scan(t) \/ GetId(t) \/ ZRem(t) \/ Delete(t) \/ HalfDelete(t)
  \/ DelPathToId(t) \/ DelIdToPath(t)

RenameStep(t) ==
  \/ RenameSource(t) \/ RenameTarget(t) \/ RenameType(t)
  \/ Move(t) \/ Keys(t) \/ MoveKey(t) \/ NextKey(t)
  \/ MoveData(t) \/ CutData(t) \/ SetMovedKey(t) \/ CutKey(t)
  \/ Nodes(t) \/ RemNode(t) \/ AddNode(t)
  \/ Entries(t) \/ Entry(t) \/ EntryPath(t) \/ EntrySet(t) \/ EntryId(t) \/ EntryPut(t)
  \/ EntryTouch(t) \/ EntryTouchPut(t) \/ Renamed(t)

CommitStep(t) == PutData(t) \/ Touch(t) \/ TouchPut(t)

Request(t) ==
  \/ \E op \in Creates, p \in Paths : StartCreate(t, op, p)
  \/ \E p \in Paths : StartRemove(t, p)
  \/ \E p \in Paths, i \in Ids, name \in Names : StartRename(t, p, i, name)
  \/ \E i \in Ids : StartCommit(t, i)
  \/ StartMount(t)

TaskStep(t) == CreateStep(t) \/ RemoveStep(t) \/ RenameStep(t) \/ CommitStep(t)

Next ==
  \/ \E t \in Tasks : Request(t) \/ TaskStep(t) \/ Fault(t)
  \/ Restart

Spec == Init /\ [][Next]_vars

-----------------------------------------------------------------------------
(***************************************************************************)
(* Properties.                                                             *)
(***************************************************************************)

\* No request is at work on p, on what p is in or on what is in p, and none was
\* when it overlapped with another one, lost a call or was cut off.
Undisturbed(p) ==
  /\ \A q \in tainted : ~Related(p, q)
  /\ \A t \in Tasks : \A q \in Named(t) : ~Related(p, q)

\* The sorted set, the two hashes and the metadata agree on p.
NamesAgreeAt(p) ==
  /\ p \in nodes <=> pathToId[p] # None
  /\ p \in nodes <=> meta[p] # None
  /\ \A i \in Ids : idToPath[i] = p <=> pathToId[p] = i
  /\ p \in nodes => meta[p].type # None /\ meta[p].id = pathToId[p]

\* No read of RocksDB's counter has failed.  One that does puts the counter back, and
\* from then on ids are given out a second time.
Counted == used["recount"] = 0

\* Requests disturb nothing but the paths that they name: without transactions,
\* at any time and whatever else fails, every other name is intact.
NamesAreIsolated == Counted => \A p \in Paths : Undisturbed(p) => NamesAgreeAt(p)

\* What is stored at a path is what was written to its file, and only symbolic
\* links have a target.
ContentIsIsolated ==
  \A p \in Paths : Undisturbed(p) =>
    /\ data[p] # None => data[p] = pathToId[p]
    /\ p \in links <=> (meta[p] # None /\ meta[p].type = "link")

\* No name is left behind without what it is in.
DirectoriesAreIsolated ==
  \A p \in Paths \ {<<>>} : Undisturbed(p) /\ p \in nodes => Parent(p) \in nodes

\* No id is issued for two paths, however the requests interleave and whatever else
\* fails: vfs/api.rs:50, "Files are only uniquely identified by a 64-bit file id".
\* (Two requests at a time over RocksDB, whose incr says at rocksdb_data_store.rs:234
\* "Attempt to update atomically", are given the same one.)
IdsAreUnique == Counted => \A i \in Ids : \A p, q \in holders[i] : p = q

Quiet == \A t \in Tasks : pc[t] = "idle"

\* vfs/api.rs:90, of getattr: "Returns the attributes of an id".  Then an id that
\* the store knows has attributes, the type of the file among them.
AttributesOfEveryId ==
  Quiet => \A i \in Ids : idToPath[i] # None =>
    meta[idToPath[i]] # None /\ meta[idToPath[i]].type # None

\* vfs/api.rs:50: "Files are only uniquely identified by a 64-bit file id".  Then
\* the file that an id leads to has this id.
IdsNameTheirFiles ==
  Quiet => \A i \in Ids : idToPath[i] # None /\ meta[idToPath[i]] # None =>
    meta[idToPath[i]].id = i

\* rocksdb_data_store.rs:510, of zscan_match: "It then checks if the member
\* matches the specified pattern".  Then rmdir refuses a directory in use, and a
\* name is always in a directory.
NoOrphans == Quiet => \A p \in nodes \ {<<>>} : Parent(p) \in nodes

\* vfs/api.rs:122, of create_exclusive: "Creates a file if it does not already
\* exist".  Then it makes one file of a name: no two ids lead to it.
OneFilePerName ==
  Quiet => \A i, j \in Ids : idToPath[i] # None /\ idToPath[i] = idToPath[j] => i = j

\* kernel/api/nfs.rs:122: "File exists. The file specified already exists.", and
\* :109: "The file or directory name specified does not exist."  Then create does
\* not answer the former for a name for which lookup answers the latter.
NameIsThereOrNot == Quiet => \A p \in Paths : p \in nodes => pathToId[p] # None

\* vfs/api.rs:50: "Files are only uniquely identified by a 64-bit file id".  Then
\* what is read through an id was written through it.
ContentIsOfItsId ==
  Quiet => \A i \in Ids :
    idToPath[i] # None /\ data[idToPath[i]] # None => data[idToPath[i]] = i
=============================================================================
