------------------------------ MODULE AuditLog ------------------------------
(***************************************************************************)
(* The Merkle-tree audit adapter: the tasks that trigger events, the       *)
(* channel between them and the handler task, and the window of leaves in  *)
(* RocksDB that the handler closes into a root when it has expired.        *)
(*                                                                         *)
(*   src/src/audit_adapters/irrefutable_audit.rs   trigger_event           *)
(*   src/src/audit_adapters/merkle_audit.rs        the handler task        *)
(*   src/src/audit_adapters/merkle_tree.rs         leaves, window, roots   *)
(*                                                                         *)
(* Only the handler touches the tree, so that its steps are the calls of   *)
(* the database, between which the server may stop.  Events are numbered   *)
(* in the order in which they are triggered.  Time is in minutes and does  *)
(* not go back; the keys of the leaves are timestamps in microseconds,     *)
(* which grow with the numbers of their events.                            *)
(***************************************************************************)
EXTENDS Integers, Sequences, FiniteSets, Functions

CONSTANTS
  Tasks,      \* tasks that trigger events
  QueueCap,   \* room in the channel (100)
  Window,     \* window_duration_minutes (10)
  MaxEvents,  \* bound: events
  MaxTime,    \* bound: minutes
  Limit,      \* bounds: [Budgets -> Nat], how often each thing may happen
  None        \* no value

\* A put, or another call, that fails; a delete that fails; a stop and start of the
\* server.
Budgets == {"put", "delete", "crash"}

Events == 1 .. MaxEvents
Times  == 0 .. MaxTime

ASSUME AuditAssumption ==
  /\ QueueCap \in Nat \ {0} /\ Window \in Nat \ {0}
  /\ MaxEvents \in Nat /\ MaxTime \in Nat
  /\ Limit \in [Budgets -> Nat]
  /\ None \notin Events /\ None \notin Seq(Events)

VARIABLES
  now,       \* Utc::now
  pending,   \* events sent, in order: the first QueueCap of them are in the
             \* channel, the senders of the others wait for room
  sending,   \* the event whose send a task awaits, or None
  pc,        \* the step that the handler takes next
  event,     \* the event it processes, or None
  todo,      \* the leaves it has still to delete
  leaves,    \* current_tree: the events that have a leaf
  roots,     \* historical_roots: the root of a window, by its start
  start,     \* current_window_start
  used,      \* how often each thing has happened, against Limit
  \* History, not read by any step of the system:
  triggered, \* how many events there were
  dropped,   \* the events that process_event failed for
  fresh,     \* was no leaf put since the server started or the put of one failed
  cut        \* was a rotation cut off between its root and its last delete

database == <<leaves, roots>>
handler  == <<pc, event, todo>>
channel  == <<pending, sending, triggered>>
history  == <<dropped, fresh, cut>>
vars     == <<now, channel, handler, database, start, used, history>>

-----------------------------------------------------------------------------
(***************************************************************************)
(* The tree.  A node is represented by its leaves, from left to right, and *)
(* a leaf by its event; hashes and timestamps are left out.                *)
(***************************************************************************)
Node == Seq(Events)

\* new_leaf and new_internal.
LeafNode(e) == <<e>>

Internal(l, r) == l \o r

\* Mutant of PairUp: the last one of an odd number of nodes is left out.
PairUpEven(nodes) ==
  [i \in 1 .. IF Len(nodes) = 1 THEN 1 ELSE Len(nodes) \div 2 |->
     IF 2 * i <= Len(nodes) THEN Internal(nodes[2 * i - 1], nodes[2 * i])
     ELSE nodes[2 * i - 1]]

\* Two neighbours become one node; the last of an odd number is promoted.
PairUp(nodes) ==
  [i \in 1 .. (Len(nodes) + 1) \div 2 |->
     IF 2 * i <= Len(nodes) THEN Internal(nodes[2 * i - 1], nodes[2 * i])
     ELSE nodes[2 * i - 1]]

\* Level after level, until there is one node.  A level is shorter than the one before
\* it as long as it has two nodes.
Levels(nodes) ==
  LET level[k \in 0 .. Len(nodes)] == IF k = 0 THEN nodes ELSE PairUp(level[k - 1])
  IN  level

\* The leaves are read in the order of their keys.
Increasing(s) == \A i, j \in DOMAIN s : i < j => s[i] < s[j]

InOrder(ls) ==
  CHOOSE s \in [1 .. Cardinality(ls) -> ls] : Increasing(s) /\ Range(s) = ls

\* build_tree_from_leaves, of a set of leaves that is not empty.
BuildTree(ls) ==
  LET keys  == InOrder(ls)
      nodes == [i \in DOMAIN keys |-> LeafNode(keys[i])]
  IN  Levels(nodes)[Len(nodes)][1]

-----------------------------------------------------------------------------
TypeOK ==
  /\ now \in Times /\ start \in Times
  /\ pending \in Seq(Events)
  /\ sending \in [Tasks -> Events \cup {None}]
  /\ pc \in {"recv", "rotate", "clear", "leaf"}
  /\ event \in Events \cup {None}
  /\ todo \subseteq Events /\ leaves \subseteq Events
  /\ roots \in [Times -> Node \cup {None}]
  /\ used \in [Budgets -> Nat]
  /\ triggered \in 0 .. MaxEvents
  /\ dropped \subseteq Events
  /\ fresh \in BOOLEAN /\ cut \in BOOLEAN

Init ==
  /\ now = 0 /\ start = 0
  /\ pending = <<>>
  /\ sending = [t \in Tasks |-> None]
  /\ pc = "recv" /\ event = None /\ todo = {}
  /\ leaves = {}
  /\ roots = [w \in Times |-> None]
  /\ used = [b \in Budgets |-> 0]
  /\ triggered = 0
  /\ dropped = {}
  /\ fresh = TRUE /\ cut = FALSE

Spend(b) ==
  /\ used[b] < Limit[b]
  /\ used' = [used EXCEPT ![b] = @ + 1]

Tick ==
  /\ now < MaxTime
  /\ now' = now + 1
  /\ UNCHANGED <<channel, handler, database, start, used, history>>

-----------------------------------------------------------------------------
(***************************************************************************)
(* trigger_event.                                                          *)
(***************************************************************************)
Trigger(t) ==
  /\ sending[t] = None
  /\ triggered < MaxEvents
  /\ triggered' = triggered + 1
  /\ pending' = Append(pending, triggered + 1)
  /\ sending' = [sending EXCEPT ![t] = triggered + 1]
  /\ UNCHANGED <<now, handler, database, start, used, history>>

\* The channel gives room to the senders in the order in which they came.
InChannel(e) == \A i \in DOMAIN pending : pending[i] = e => i <= QueueCap

Sent(t) ==
  /\ sending[t] # None
  /\ InChannel(sending[t])
  /\ sending' = [sending EXCEPT ![t] = None]
  /\ UNCHANGED <<now, pending, triggered, handler, database, start, used, history>>

-----------------------------------------------------------------------------
(***************************************************************************)
(* The handler: recv, and process_event, which is insert_event with        *)
(* rotate_window in it.                                                    *)
(***************************************************************************)

\* insert_event compares the time with the start of the window.
Recv ==
  /\ pc = "recv"
  /\ pending # <<>>
  /\ event' = Head(pending)
  /\ pending' = Tail(pending)
  /\ pc' = IF now - start >= Window THEN "rotate" ELSE "leaf"
  /\ UNCHANGED <<now, sending, triggered, todo, database, start, used, history>>

\* Mutant of Return: the event that is done stays with the handler.
ReturnKeeping == pc' = "recv" /\ todo' = {} /\ UNCHANGED event

\* process_event returns, and the handler goes on with the next event.
Return == pc' = "recv" /\ event' = None /\ todo' = {}

\* Mutant of Fail: the handler task ends at the first error.
FailStops ==
  pc' = "stopped" /\ dropped' = dropped \cup {event} /\ UNCHANGED <<event, todo>>

\* An error is printed, and the event is gone.
Fail == Return /\ dropped' = dropped \cup {event}

\* The root is built and stored under the start of the window.  A window without
\* leaves is an error.
Rotate ==
  /\ pc = "rotate"
  /\ \/ /\ leaves = {}
        /\ Fail
        /\ UNCHANGED roots
     \/ /\ leaves # {}
        /\ roots' = [roots EXCEPT ![start] = BuildTree(leaves)]
        /\ pc' = "clear"
        /\ todo' = leaves
        /\ UNCHANGED <<event, dropped>>
  /\ UNCHANGED <<now, channel, leaves, start, used, fresh, cut>>

\* The leaves are deleted one by one, in the order of their keys.
First(ls) == CHOOSE e \in ls : \A f \in ls : e <= f

\* Mutant of Clear: the last leaf is not deleted.
ClearButOne ==
  /\ pc = "clear" /\ todo # {}
  /\ leaves' = IF Cardinality(todo) = 1 THEN leaves ELSE leaves \ {First(todo)}
  /\ todo' = todo \ {First(todo)}
  /\ UNCHANGED <<now, channel, pc, event, roots, start, used, history>>

Clear ==
  /\ pc = "clear" /\ todo # {}
  /\ leaves' = leaves \ {First(todo)}
  /\ todo' = todo \ {First(todo)}
  /\ UNCHANGED <<now, channel, pc, event, roots, start, used, history>>

\* Mutant of NewWindow: the event that found the window expired is left out.
NewWindowOnly ==
  /\ pc = "clear" /\ todo = {}
  /\ start' = now
  /\ Return
  /\ UNCHANGED <<now, channel, database, used, history>>

\* The next window starts now, later than the event that goes into it.
NewWindow ==
  /\ pc = "clear" /\ todo = {}
  /\ start' = now
  /\ pc' = "leaf"
  /\ UNCHANGED <<now, channel, event, todo, database, used, history>>

PutLeaf ==
  /\ pc = "leaf"
  /\ leaves' = leaves \cup {event}
  /\ fresh' = FALSE
  /\ Return
  /\ UNCHANGED <<now, channel, roots, start, used, dropped, cut>>

-----------------------------------------------------------------------------
(***************************************************************************)
(* A call of the database fails, and the server stops and starts again.    *)
(***************************************************************************)
PutFails ==
  /\ pc \in {"rotate", "leaf"}
  /\ pc = "rotate" => leaves # {}
  /\ Spend("put")
  /\ Fail
  /\ fresh' = (fresh \/ pc = "leaf")
  /\ UNCHANGED <<now, channel, database, start, cut>>

DeleteFails ==
  /\ pc = "clear" /\ todo # {}
  /\ Spend("delete")
  /\ Fail
  /\ cut' = TRUE
  /\ UNCHANGED <<now, channel, database, start, fresh>>

\* What is in the channel is gone, and a new window starts with the leaves that
\* there are.
Restart ==
  /\ Spend("crash")
  /\ pending' = <<>>
  /\ sending' = [t \in Tasks |-> None]
  /\ Return
  /\ start' = now
  /\ fresh' = TRUE
  /\ cut' = (cut \/ pc = "clear")
  /\ UNCHANGED <<now, triggered, database, dropped>>

-----------------------------------------------------------------------------
HandlerStep == Recv \/ Rotate \/ Clear \/ NewWindow \/ PutLeaf

Next ==
  \/ Tick
  \/ \E t \in Tasks : Trigger(t) \/ Sent(t)
  \/ HandlerStep
  \/ PutFails \/ DeleteFails \/ Restart

Spec == Init /\ [][Next]_vars

\* The runtime runs the handler and the senders that have room.
FairSpec ==
  /\ Spec
  /\ WF_vars(HandlerStep)
  /\ \A t \in Tasks : WF_vars(Sent(t))

-----------------------------------------------------------------------------
(***************************************************************************)
(* Properties.                                                             *)
(***************************************************************************)
\* What the audit reader collects from a root.
EventsOf(node) == IF node = None THEN {} ELSE {node[i] : i \in DOMAIN node}

\* The audit reader takes the log for consistent if no two windows that follow each
\* other have the same root.
VerifyHistoricalConsistency ==
  LET windows == {w \in Times : roots[w] # None}
  IN  \A v, w \in windows :
        v < w /\ ~(\E u \in windows : v < u /\ u < w) => roots[v] # roots[w]

\* The events that are in the database, as a leaf or under a root.
InRoots  == UNION {EventsOf(roots[w]) : w \in Times}
Recorded == leaves \cup InRoots

\* The handler has an event while it is at work, and what it has still to delete is
\* what there is, all of it under the root that it has stored.
HandlerOK ==
  /\ TypeOK
  /\ pc = "recv" <=> event = None
  /\ pc = "clear" => todo = leaves /\ leaves \subseteq EventsOf(roots[start])

\* An event that was recorded stays recorded, in its leaf or under the root of its
\* window, through rotations, failing puts and restarts in the middle of them.
\* (Not so once a delete fails: the next rotation stores what is left over under
\* the same start.)
RecordedStays == [][used["delete"] = 0 => Recorded \subseteq Recorded']_vars

\* Unless a rotation was cut off: a root has the events of its window once and in
\* order, windows follow each other as their events do, and the leaves come after
\* all of them.  The audit reader says so, too.
WindowsInOrder ==
  ~cut =>
    /\ VerifyHistoricalConsistency
    /\ \A w \in Times : roots[w] # None => Increasing(roots[w])
    /\ \A v, w \in Times : v < w =>
         \A e \in EventsOf(roots[v]), f \in EventsOf(roots[w]) : e < f
    /\ pc # "clear" =>
         \A e \in InRoots, f \in leaves : e < f
    /\ \A i \in DOMAIN pending : \A e \in Recorded : e < pending[i]

\* Without a failing call, events are dropped only by a server that has not
\* recorded any since it was started.
DropsOnlyWhenFresh ==
  [][dropped' # dropped /\ used' = used => fresh]_vars

\* A sender that waits for room in the channel returns.
SendersReturn == \A t \in Tasks : sending[t] # None ~> sending[t] = None

\* irrefutable_audit.rs:48, of an event: "an audit event that must be recorded".
\* Then no event is dropped while every call succeeds.
NothingIsDropped == [][used' = used => dropped' = dropped]_vars
=============================================================================
