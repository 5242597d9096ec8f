--------------------------- MODULE AuditLogProofs ---------------------------
(***************************************************************************)
(* Theorems about AuditLog and SubstrateAudit, for every number of tasks   *)
(* and events, every width of the window and every bound.  Of the Merkle   *)
(* adapter: what is recorded stays recorded, windows and what is in them   *)
(* are in the order of the events, and while the calls of the database     *)
(* succeed, only a server that has not recorded anything since it was      *)
(* started drops an event.  Of the Substrate adapter: what is sent to a    *)
(* chain is sent once and in order.  Of both: no event gets lost without   *)
(* a word.  The tree that is built of a window has its leaves in their     *)
(* order, by induction over its levels.                                    *)
(***************************************************************************)
EXTENDS SubstrateAudit, FiniteSetTheorems, SequenceTheorems, TLAPS

-----------------------------------------------------------------------------
(***************************************************************************)
(* The inductive invariant.  A rotation finds no leaves only before the    *)
(* first one was put: it is the only step that takes leaves away, and it   *)
(* either goes on to put one or is cut off at a leaf that is still there.  *)
(***************************************************************************)
LeavesOK ==
  /\ used \in [Budgets -> Nat]
  /\ pc = "clear" => todo \subseteq leaves
  /\ pc \in {"recv", "rotate"} /\ ~fresh => leaves # {}

LEMMA LeavesInit == Init => LeavesOK
  BY DEF Init, LeavesOK

LEMMA SpendCounts ==
  ASSUME used \in [Budgets -> Nat], NEW b \in Budgets, Spend(b)
  PROVE  used' \in [Budgets -> Nat] /\ used' # used
  BY DEF Spend

\* The steps of the handler that succeed, or fail on a window without leaves.
LEMMA LeavesHandler == LeavesOK /\ HandlerStep => LeavesOK'
  <1>. SUFFICES ASSUME LeavesOK, HandlerStep
                PROVE  LeavesOK'
    OBVIOUS
  <1>1. CASE Recv
    BY <1>1 DEF Recv, LeavesOK, database, history
  <1>2. CASE Rotate
    <2>1. CASE leaves = {}
      BY <1>2, <2>1 DEF Rotate, Fail, Return, LeavesOK, channel
    <2>2. CASE leaves # {}
      BY <1>2, <2>2 DEF Rotate, LeavesOK, channel
    <2>. QED  BY <2>1, <2>2
  <1>3. CASE Clear
    BY <1>3 DEF Clear, LeavesOK, channel, history
  <1>4. CASE NewWindow
    BY <1>4 DEF NewWindow, LeavesOK, channel, database, history
  <1>5. CASE PutLeaf
    BY <1>5 DEF PutLeaf, Return, LeavesOK, channel
  <1>. QED  BY <1>1, <1>2, <1>3, <1>4, <1>5 DEF HandlerStep

\* The steps in which a call of the database fails or the server stops.
LEMMA LeavesFaults == LeavesOK /\ (PutFails \/ DeleteFails \/ Restart) => LeavesOK'
  <1>. SUFFICES ASSUME LeavesOK, PutFails \/ DeleteFails \/ Restart
                PROVE  LeavesOK'
    OBVIOUS
  <1>1. used' \in [Budgets -> Nat]
    BY SpendCounts DEF PutFails, DeleteFails, Restart, LeavesOK, Budgets
  <1>2. CASE PutFails
    BY <1>1, <1>2 DEF PutFails, Fail, Return, LeavesOK, database
  <1>3. CASE DeleteFails
    <2>1. leaves # {}
      BY <1>3 DEF DeleteFails, LeavesOK
    <2>. QED  BY <1>1, <1>3, <2>1 DEF DeleteFails, Fail, Return, LeavesOK, database
  <1>4. CASE Restart
    BY <1>1, <1>4 DEF Restart, Return, LeavesOK
  <1>. QED  BY <1>2, <1>3, <1>4

LEMMA LeavesStep == LeavesOK /\ [Next]_vars => LeavesOK'
  <1>. SUFFICES ASSUME LeavesOK, [Next]_vars
                PROVE  LeavesOK'
    OBVIOUS
  <1>1. CASE Tick
    BY <1>1 DEF Tick, LeavesOK, handler, database, history
  <1>2. CASE \E t \in Tasks : Trigger(t) \/ Sent(t)
    BY <1>2 DEF Trigger, Sent, LeavesOK, handler, database, history
  <1>3. CASE UNCHANGED vars
    BY <1>3 DEF LeavesOK, vars, handler, database, history
  <1>. QED  BY <1>1, <1>2, <1>3, LeavesHandler, LeavesFaults DEF Next

-----------------------------------------------------------------------------
\* What a step that drops an event is: a rotation of a window without leaves, or a
\* failing call, which is counted.
LEMMA DropStep ==
  LeavesOK /\ [Next]_vars => (dropped' # dropped /\ used' = used => fresh)
  <1>. SUFFICES ASSUME LeavesOK, [Next]_vars, dropped' # dropped, used' = used
                PROVE  fresh
    OBVIOUS
  <1>1. used \in [Budgets -> Nat] /\ "put" \in Budgets /\ "delete" \in Budgets
    BY DEF LeavesOK, Budgets
  <1>2. ~PutFails /\ ~DeleteFails
    BY <1>1, SpendCounts DEF PutFails, DeleteFails
  <1>3. ~Restart
    BY DEF Restart
  <1>4. ~Tick /\ ~(\E t \in Tasks : Trigger(t) \/ Sent(t)) /\ ~(UNCHANGED vars)
    BY DEF Tick, Trigger, Sent, vars, history
  <1>5. ~Recv /\ ~Clear /\ ~NewWindow /\ ~PutLeaf
    BY DEF Recv, Clear, NewWindow, PutLeaf, history
  <1>6. Rotate
    BY <1>2, <1>3, <1>4, <1>5 DEF Next, HandlerStep
  <1>. QED  BY <1>6 DEF Rotate, LeavesOK

\* The other adapter leaves the database alone.
FreshOK == LeavesOK /\ (adapter = "substrate" => fresh)

LEMMA SubstrateIdle ==
  LeavesOK /\ (SubstrateStep \/ SubstrateFault) => LeavesOK' /\ UNCHANGED <<adapter, fresh>>
  <1>. SUFFICES ASSUME LeavesOK, SubstrateStep \/ SubstrateFault
                PROVE  LeavesOK' /\ UNCHANGED <<adapter, fresh>>
    OBVIOUS
  <1>1. UNCHANGED <<adapter, merkle>>
    BY DEF SubstrateStep, TakeEvent, Submit, Subscribe, Found, SubstrateFault, Block,
           SubmitFails, WaitFails, BlockLost, Restarted
  <1>2. \/ used' = used
        \/ \E b \in Budgets : Spend(b)
    BY DEF SubstrateStep, TakeEvent, Submit, Subscribe, Found, SubstrateFault, Block,
           SubmitFails, WaitFails, BlockLost, Restarted, Budgets
  <1>3. used' \in [Budgets -> Nat]
    BY <1>2, SpendCounts DEF LeavesOK
  <1>. QED  BY <1>1, <1>3 DEF merkle, handler, database, LeavesOK

LEMMA FreshStep == FreshOK /\ [AdaptersNext]_adapters => FreshOK'
  <1>. SUFFICES ASSUME FreshOK, [AdaptersNext]_adapters
                PROVE  FreshOK'
    OBVIOUS
  <1>1. CASE adapter = "substrate" /\ (SubstrateStep \/ SubstrateFault)
    BY <1>1, SubstrateIdle DEF FreshOK
  <1>2. CASE \E t \in Tasks : (Trigger(t) \/ Sent(t)) /\ UNCHANGED substrate
    <2>1. LeavesOK' /\ UNCHANGED <<adapter, fresh>>
      BY <1>2, LeavesStep DEF Next, FreshOK, Trigger, Sent, history, substrate
    <2>. QED  BY <2>1 DEF FreshOK
  <1>3. CASE /\ adapter = "merkle" /\ UNCHANGED substrate
             /\ HandlerStep \/ Tick \/ PutFails \/ DeleteFails \/ Restart
    <2>1. LeavesOK' /\ adapter' # "substrate"
      BY <1>3, LeavesStep DEF Next, FreshOK, substrate
    <2>. QED  BY <2>1 DEF FreshOK
  <1>4. CASE UNCHANGED adapters
    <2>1. UNCHANGED vars /\ UNCHANGED <<adapter, fresh>>
      BY <1>4 DEF adapters, substrate, vars, history
    <2>. QED  BY <2>1, LeavesStep DEF FreshOK
  <1>. QED  BY <1>1, <1>2, <1>3, <1>4 DEF AdaptersNext, MerkleStep, SubstrateStep, SenderStep

LEMMA AdaptersDrop ==
  FreshOK /\ [AdaptersNext]_adapters => (dropped' # dropped /\ used' = used => fresh)
  <1>. SUFFICES ASSUME FreshOK, [AdaptersNext]_adapters, dropped' # dropped, used' = used,
                       adapter # "substrate"
                PROVE  fresh
    BY DEF FreshOK
  <1>1. Next \/ UNCHANGED vars
    BY DEF AdaptersNext, MerkleStep, SubstrateStep, SenderStep, Next, adapters
  <1>. QED  BY <1>1, DropStep DEF FreshOK

\* insert_event and rotate_window: once a server has recorded an event, it drops no
\* later one as long as the calls of the database succeed.
THEOREM DropsAlways == AdaptersSpec => DropsOnlyWhenFresh
  <1>1. AdaptersInit => FreshOK
    BY LeavesInit DEF AdaptersInit, FreshOK, Init
  <1>2. FreshOK /\ [AdaptersNext]_adapters
          => [dropped' # dropped /\ used' = used => fresh]_vars
    BY AdaptersDrop
  <1>. QED  BY <1>1, <1>2, FreshStep, PTL DEF AdaptersSpec, DropsOnlyWhenFresh

-----------------------------------------------------------------------------
(***************************************************************************)
(* The order of the transactions.  The inductive invariant puts the events *)
(* in the order in which they go: those submitted, the one that the        *)
(* handler has, those in the channel, and those to come.                   *)
(***************************************************************************)
Waiting == {"subscribe", "wait"}

TxOK ==
  /\ tx \in [at : {"recv", "submit"} \cup Waiting, event : Nat \cup {None}]
  /\ tx.at # "recv" =>
       /\ tx.event \in Nat /\ tx.event <= triggered
       /\ \A i \in DOMAIN pending : tx.event < pending[i]

QueueOK ==
  /\ triggered \in Nat
  /\ pending \in Seq(Nat) /\ Increasing(pending)
  /\ \A i \in DOMAIN pending : pending[i] <= triggered

ChainOK ==
  /\ submitted \in Seq(Nat)
  /\ \A i \in DOMAIN submitted :
       /\ submitted[i] <= triggered
       /\ \A j \in DOMAIN pending : submitted[i] < pending[j]

OrderOK == QueueOK /\ TxOK /\ ChainOK /\ SubmittedInOrder

LEMMA OrderInit == AdaptersInit => OrderOK
  BY DEF AdaptersInit, Init, OrderOK, QueueOK, TxOK, ChainOK, SubmittedInOrder,
         Increasing, Receiving

\* The channel loses its first event, or all of them.
LEMMA OrderTail ==
  ASSUME OrderOK, pending # <<>>
  PROVE  /\ Tail(pending) \in Seq(Nat) /\ Increasing(Tail(pending))
         /\ Head(pending) \in Nat /\ Head(pending) <= triggered
         /\ \A i \in DOMAIN Tail(pending) :
              /\ Tail(pending)[i] <= triggered /\ Head(pending) < Tail(pending)[i]
              /\ tx.at # "recv" => tx.event < Tail(pending)[i]
              /\ \A j \in DOMAIN submitted : submitted[j] < Tail(pending)[i]
         /\ \A j \in DOMAIN submitted : submitted[j] < Head(pending)
  <1>1. /\ pending \in Seq(Nat) /\ Increasing(pending)
        /\ \A i \in DOMAIN pending : pending[i] <= triggered
    BY DEF OrderOK, QueueOK
  <1>2. /\ Tail(pending) \in Seq(Nat) /\ Len(Tail(pending)) = Len(pending) - 1
        /\ \A i \in DOMAIN Tail(pending) :
             i + 1 \in DOMAIN pending /\ Tail(pending)[i] = pending[i + 1] /\ i \in Nat /\ i >= 1
        /\ Head(pending) = pending[1] /\ 1 \in DOMAIN pending
    BY <1>1
  <1>3. Increasing(Tail(pending))
    BY <1>1, <1>2 DEF Increasing
  <1>4. \A i \in DOMAIN Tail(pending) : pending[1] < pending[i + 1]
    BY <1>1, <1>2 DEF Increasing
  <1>5. Head(pending) \in Nat
    BY <1>1, <1>2
  <1>. QED  BY <1>1, <1>2, <1>3, <1>4, <1>5 DEF OrderOK, TxOK, ChainOK

\* A transaction more.
LEMMA OrderSubmit ==
  ASSUME OrderOK, tx.at = "submit", submitted' = Append(submitted, tx.event),
         pending' = pending, triggered' = triggered
  PROVE  /\ ChainOK' /\ Increasing(submitted') /\ submitted' # <<>>
         /\ tx.event = submitted'[Len(submitted')]
  <1>1. /\ submitted \in Seq(Nat) /\ Increasing(submitted) /\ tx.event \in Nat
        /\ tx.event <= triggered
        /\ \A i \in DOMAIN pending : tx.event < pending[i]
        /\ \A i \in DOMAIN submitted : submitted[i] < tx.event
    BY DEF OrderOK, TxOK, ChainOK, SubmittedInOrder
  <1>2. /\ submitted' \in Seq(Nat) /\ Len(submitted') = Len(submitted) + 1
        /\ DOMAIN submitted' = 1 .. Len(submitted) + 1
        /\ \A i \in DOMAIN submitted : submitted'[i] = submitted[i]
        /\ submitted'[Len(submitted) + 1] = tx.event
        /\ DOMAIN submitted = 1 .. Len(submitted) /\ Len(submitted) \in Nat
    BY <1>1
  <1>3. Increasing(submitted')
    BY <1>1, <1>2 DEF Increasing
  <1>4. ChainOK'
    BY <1>1, <1>2 DEF OrderOK, ChainOK
  <1>. QED  BY <1>2, <1>3, <1>4

\* What a task triggers is later than all there is.
LEMMA OrderTrigger ==
  ASSUME OrderOK, triggered' = triggered + 1, pending' = Append(pending, triggered + 1),
         UNCHANGED substrate
  PROVE  OrderOK'
  <1>1. /\ pending \in Seq(Nat) /\ Increasing(pending) /\ triggered \in Nat
        /\ \A i \in DOMAIN pending : pending[i] <= triggered
    BY DEF OrderOK, QueueOK
  <1>2. /\ pending' \in Seq(Nat) /\ DOMAIN pending' = 1 .. Len(pending) + 1
        /\ \A i \in DOMAIN pending : pending'[i] = pending[i] /\ pending[i] \in Nat
        /\ pending'[Len(pending) + 1] = triggered + 1
        /\ DOMAIN pending = 1 .. Len(pending) /\ Len(pending) \in Nat
    BY <1>1
  <1>3. Increasing(pending')
    BY <1>1, <1>2 DEF Increasing
  <1>4. QueueOK'
    BY <1>1, <1>2, <1>3 DEF QueueOK
  <1>5. TxOK'
    BY <1>1, <1>2 DEF OrderOK, TxOK, substrate
  <1>6. \A i \in DOMAIN submitted : submitted[i] \in Nat /\ submitted[i] <= triggered
    BY DEF OrderOK, ChainOK
  <1>7. ChainOK'
    BY SMTT(30), <1>1, <1>2, <1>6 DEF OrderOK, ChainOK, substrate, chain
  <1>. QED  BY <1>4, <1>5, <1>7 DEF OrderOK, SubmittedInOrder, substrate, chain

LEMMA OrderStays ==
  ASSUME OrderOK, UNCHANGED <<pending, triggered, tx, submitted>>
  PROVE  OrderOK'
  BY DEF OrderOK, QueueOK, TxOK, ChainOK, SubmittedInOrder

\* The handler has done with its event.
LEMMA OrderDone ==
  ASSUME OrderOK, Done, UNCHANGED <<pending, triggered>>,
         ChainOK', Increasing(submitted')
  PROVE  OrderOK'
  <1>1. tx' = Receiving
    BY DEF Done
  <1>2. QueueOK'
    BY DEF OrderOK, QueueOK
  <1>3. TxOK' /\ SubmittedInOrder'
    BY <1>1 DEF TxOK, SubmittedInOrder, Receiving
  <1>. QED  BY <1>2, <1>3 DEF OrderOK

LEMMA OrderEnds ==
  ASSUME OrderOK, Done, UNCHANGED <<pending, triggered, submitted>>
  PROVE  OrderOK'
  <1>1. ChainOK' /\ Increasing(submitted')
    BY DEF OrderOK, ChainOK, SubmittedInOrder
  <1>. QED  BY <1>1, OrderDone

\* The steps of process_event.
LEMMA OrderProcess ==
  ASSUME OrderOK, TakeEvent \/ Submit \/ Subscribe \/ Found
  PROVE  OrderOK'
  <1>1. CASE TakeEvent
    <2>1. /\ tx.at = "recv" /\ pending' = Tail(pending) /\ pending # <<>>
          /\ triggered' = triggered /\ submitted' = submitted
          /\ tx' = [at |-> "submit", event |-> Head(pending)] \/ tx' = tx
      BY <1>1 DEF TakeEvent, chain
    <2>2. QueueOK' /\ ChainOK'
      BY <2>1, OrderTail DEF OrderOK, QueueOK, ChainOK
    <2>3. CASE tx' = tx
      BY <2>1, <2>2, <2>3 DEF OrderOK, TxOK, SubmittedInOrder, Waiting
    <2>4. CASE tx' = [at |-> "submit", event |-> Head(pending)]
      BY <2>1, <2>2, <2>4, OrderTail DEF OrderOK, TxOK, SubmittedInOrder, Waiting
    <2>. QED  BY <2>1, <2>3, <2>4
  <1>2. CASE Submit
    <2>1. /\ tx.at = "submit" /\ submitted' = Append(submitted, tx.event)
          /\ pending' = pending /\ triggered' = triggered
          /\ tx' = [tx EXCEPT !.at = "subscribe"]
      BY <1>2 DEF Submit, channel
    <2>2. /\ ChainOK' /\ Increasing(submitted') /\ submitted' # <<>>
          /\ tx.event = submitted'[Len(submitted')]
      BY <2>1, OrderSubmit
    <2>3. tx'.at = "subscribe" /\ tx'.event = tx.event /\ TxOK'
      BY <2>1 DEF OrderOK, TxOK, Waiting
    <2>. QED  BY <2>1, <2>2, <2>3 DEF OrderOK, QueueOK, SubmittedInOrder
  <1>3. CASE Subscribe
    <2>1. /\ tx.at = "subscribe" /\ tx' = [tx EXCEPT !.at = "wait"]
          /\ UNCHANGED <<pending, triggered, submitted>>
      BY <1>3 DEF Subscribe, channel, chain
    <2>2. tx'.at = "wait" /\ tx'.event = tx.event /\ TxOK'
      BY <2>1 DEF OrderOK, TxOK, Waiting
    <2>. QED  BY <2>1, <2>2 DEF OrderOK, QueueOK, ChainOK, SubmittedInOrder
  <1>4. CASE Found
    BY <1>4, OrderEnds DEF Found, channel, chain
  <1>. QED  BY <1>1, <1>2, <1>3, <1>4

\* What the chain does, the calls that fail, and a restart.
LEMMA OrderFault ==
  ASSUME OrderOK, SubstrateFault
  PROVE  OrderOK'
  <1>1. CASE Block
    BY <1>1, OrderStays DEF Block, channel
  <1>2. CASE SubmitFails
    <2>1. tx.at = "submit" /\ Done /\ UNCHANGED <<pending, triggered>>
      BY <1>2 DEF SubmitFails, Failed, channel
    <2>2. CASE submitted' = submitted
      BY <2>1, <2>2, OrderEnds
    <2>3. CASE submitted' = Append(submitted, tx.event)
      BY <2>1, <2>3, OrderSubmit, OrderDone
    <2>. QED  BY <1>2, <2>2, <2>3 DEF SubmitFails
  <1>3. CASE WaitFails
    BY <1>3, OrderEnds DEF WaitFails, Failed, channel, chain
  <1>4. CASE BlockLost
    BY <1>4, OrderEnds, OrderStays DEF BlockLost, channel, chain
  <1>5. CASE Restarted
    <2>1. /\ pending' = <<>> /\ triggered' = triggered /\ submitted' = submitted
          /\ tx' = Receiving
      BY <1>5 DEF Restarted, Done, chain
    <2>. QED  BY <2>1 DEF OrderOK, QueueOK, TxOK, ChainOK, SubmittedInOrder, Increasing,
                          Receiving
  <1>. QED  BY <1>1, <1>2, <1>3, <1>4, <1>5 DEF SubstrateFault

\* The steps of the other adapter take events out of the channel.
LEMMA OrderMerkle ==
  ASSUME OrderOK, UNCHANGED substrate,
         HandlerStep \/ Tick \/ PutFails \/ DeleteFails \/ Restart
  PROVE  OrderOK'
  <1>0. UNCHANGED <<tx, submitted>>
    BY DEF substrate, chain
  <1>1. CASE Recv
    <2>1. pending # <<>> /\ pending' = Tail(pending) /\ triggered' = triggered
      BY <1>1 DEF Recv
    <2>. QED  BY <1>0, <2>1, OrderTail DEF OrderOK, QueueOK, TxOK, ChainOK, SubmittedInOrder
  <1>2. CASE Restart
    <2>1. pending' = <<>> /\ triggered' = triggered
      BY <1>2 DEF Restart
    <2>. QED  BY <1>0, <2>1
              DEF OrderOK, QueueOK, TxOK, ChainOK, SubmittedInOrder, Increasing
  <1>3. ~Recv /\ ~Restart => UNCHANGED <<pending, triggered>>
    BY DEF HandlerStep, Tick, PutFails, DeleteFails, Rotate, Clear, NewWindow, PutLeaf,
           channel
  <1>. QED  BY <1>0, <1>1, <1>2, <1>3, OrderStays

LEMMA OrderStep == OrderOK /\ [AdaptersNext]_adapters => OrderOK'
  <1>. SUFFICES ASSUME OrderOK, [AdaptersNext]_adapters
                PROVE  OrderOK'
    OBVIOUS
  <1>1. CASE \E t \in Tasks : Trigger(t) /\ UNCHANGED substrate
    BY <1>1, OrderTrigger DEF Trigger
  <1>2. CASE \E t \in Tasks : SenderStep(t)
    BY <1>2, OrderStays DEF SenderStep, Sent, substrate, chain
  <1>3. CASE UNCHANGED adapters
    BY <1>3, OrderStays DEF adapters, vars, channel, substrate, chain
  <1>. QED  BY <1>1, <1>2, <1>3, OrderMerkle, OrderProcess, OrderFault
            DEF AdaptersNext, MerkleStep, SubstrateStep

\* substrate_based_audit.rs: every event is submitted once and in the order in which
\* it was triggered, through calls that fail, answers that are lost and restarts.
THEOREM SubmittedAlways == AdaptersSpec => []SubmittedInOrder
  <1>1. OrderOK => SubmittedInOrder
    BY DEF OrderOK
  <1>. QED  BY <1>1, OrderInit, OrderStep, PTL DEF AdaptersSpec

-----------------------------------------------------------------------------
(***************************************************************************)
(* Induction over the natural numbers, for a set of them.  The theorems of *)
(* the library take the predicate as an operator, which cannot be given;   *)
(* that the subsets of a finite set are well-founded can.                  *)
(***************************************************************************)
LEMMA SetInduction ==
  ASSUME NEW T, 0 \in T, \A k \in Nat : k \in T => k + 1 \in T
  PROVE  Nat \subseteq T
  <1>. SUFFICES ASSUME NEW n \in Nat, n \notin T
                PROVE  FALSE
    OBVIOUS
  <1>. DEFINE U == {0 .. x : x \in (0 .. n) \ T}
  <1>1. IsFiniteSet(0 .. n)
    BY FS_Interval
  <1>2. \A x \in 0 .. n : 0 .. x \in FiniteSubsetsOf(0 .. n)
    BY <1>1, FS_Subset DEF FiniteSubsetsOf
  <1>3. U \subseteq FiniteSubsetsOf(0 .. n) /\ U # {}
    BY <1>2
  <1>4. PICK I \in U : \A J \in U : <<J, I>> \notin StrictSubsetOrdering(0 .. n)
    <2>. HIDE DEF U
    <2>. QED  BY <1>3, FS_StrictSubsetOrderingWellFounded, WFMin, Zenon
  <1>5. PICK x \in (0 .. n) \ T : I = 0 .. x
    BY <1>4
  <1>6. x - 1 \in (0 .. n) \ T
    <2>1. x # 0 /\ x - 1 \in Nat /\ (x - 1) + 1 = x
      BY <1>5
    <2>. QED  BY <1>5, <2>1
  <1>7. 0 .. x - 1 \in U
    BY <1>6
  <1>8. 0 .. x - 1 \in SUBSET (0 .. n) /\ I \in SUBSET (0 .. n)
    BY <1>5, <1>6
  <1>9. 0 .. x - 1 \subseteq I /\ 0 .. x - 1 # I
    BY <1>5, <1>6
  <1>10. <<0 .. x - 1, I>> \in StrictSubsetOrdering(0 .. n)
    BY <1>8, <1>9 DEF StrictSubsetOrdering
  <1>. QED  BY <1>4, <1>7, <1>10

-----------------------------------------------------------------------------
(***************************************************************************)
(* The tree.  A level consists of pieces of the sequence of the leaves,    *)
(* one behind the other: of cuts c[0] <= c[1] <= ..., where node i goes    *)
(* from c[i - 1] to c[i].                                                  *)
(***************************************************************************)
IsLevels(nodes, n, f) ==
  f = [k \in 0 .. n |-> IF k = 0 THEN nodes ELSE PairUp(f[k - 1])]

LEMMA LevelsExist ==
  ASSUME NEW nodes
  PROVE  \A n \in Nat : \E f : IsLevels(nodes, n, f)
  <1>. DEFINE T == {n \in Nat : \E f : IsLevels(nodes, n, f)}
  <1>1. 0 \in T
    <2>. DEFINE f == [k \in 0 .. 0 |-> nodes]
    <2>1. IsLevels(nodes, 0, f)
      BY DEF IsLevels
    <2>. QED  BY <2>1
  <1>2. ASSUME NEW n \in Nat, n \in T
        PROVE  n + 1 \in T
    <2>1. PICK f : IsLevels(nodes, n, f)
      BY <1>2
    <2>. DEFINE g == [k \in 0 .. n + 1 |-> IF k = 0 THEN nodes ELSE PairUp(f[k - 1])]
    <2>2. \A k \in 0 .. n : f[k] = IF k = 0 THEN nodes ELSE PairUp(f[k - 1])
      BY <2>1 DEF IsLevels
    <2>3. \A k \in 0 .. n : f[k] = g[k]
      BY <2>2
    <2>4. \A k \in 0 .. n + 1 : k # 0 => f[k - 1] = g[k - 1]
      <3>1. \A k \in 0 .. n + 1 : k # 0 => k - 1 \in 0 .. n
        OBVIOUS
      <3>. HIDE DEF g
      <3>. QED  BY <2>3, <3>1
    <2>5. g = [k \in 0 .. n + 1 |-> IF k = 0 THEN nodes ELSE PairUp(g[k - 1])]
      <3>1. \A k \in 0 .. n + 1 : g[k] = IF k = 0 THEN nodes ELSE PairUp(g[k - 1])
        <4>1. \A k \in 0 .. n + 1 : g[k] = IF k = 0 THEN nodes ELSE PairUp(f[k - 1])
          OBVIOUS
        <4>. HIDE DEF g
        <4>. QED  BY <2>4, <4>1, Zenon
      <3>2. g = [k \in 0 .. n + 1 |-> g[k]]
        OBVIOUS
      <3>. HIDE DEF g
      <3>. QED  BY <3>1, <3>2, Zenon
    <2>6. IsLevels(nodes, n + 1, g)
      BY <2>5, Zenon DEF IsLevels
    <2>7. n + 1 \in Nat
      OBVIOUS
    <2>. QED  BY <2>6, <2>7, Zenon
  <1>. HIDE DEF T
  <1>3. Nat \subseteq T
    BY <1>1, <1>2, SetInduction, Zenon
  <1>. QED  BY <1>3 DEF T

LEMMA LevelsAre ==
  ASSUME NEW nodes, Len(nodes) \in Nat
  PROVE  /\ Levels(nodes)[0] = nodes
         /\ \A k \in 1 .. Len(nodes) : Levels(nodes)[k] = PairUp(Levels(nodes)[k - 1])
  <1>1. PICK f : IsLevels(nodes, Len(nodes), f)
    BY LevelsExist, Zenon
  <1>2. IsLevels(nodes, Len(nodes), Levels(nodes))
    BY <1>1 DEF Levels, IsLevels
  <1>. DEFINE g == Levels(nodes)
  <1>. HIDE DEF g
  <1>3. g = [k \in 0 .. Len(nodes) |-> IF k = 0 THEN nodes ELSE PairUp(g[k - 1])]
    BY <1>2 DEF IsLevels, g
  <1>4. \A k \in 0 .. Len(nodes) : g[k] = IF k = 0 THEN nodes ELSE PairUp(g[k - 1])
    BY <1>3
  <1>5. g[0] = nodes /\ \A k \in 1 .. Len(nodes) : g[k] = PairUp(g[k - 1])
    BY <1>4
  <1>. QED  BY <1>5 DEF g

IsPieces(nodes, s, c) ==
  /\ nodes \in Seq(Seq(Nat)) /\ Len(nodes) >= 1
  /\ c \in [0 .. Len(nodes) -> 0 .. Len(s)]
  /\ c[0] = 0 /\ c[Len(nodes)] = Len(s)
  /\ \A i \in 1 .. Len(nodes) : /\ c[i - 1] <= c[i]
                                /\ nodes[i] = SubSeq(s, c[i - 1] + 1, c[i])

\* Two neighbours are the piece from where the first one begins to where the second ends.
LEMMA PairUpPieces ==
  ASSUME NEW s \in Seq(Nat), NEW nodes, NEW c, IsPieces(nodes, s, c)
  PROVE  /\ Len(PairUp(nodes)) = (Len(nodes) + 1) \div 2
         /\ \E d : IsPieces(PairUp(nodes), s, d)
  <1>. DEFINE L == Len(nodes)
              m == (L + 1) \div 2
              up == PairUp(nodes)
              at(j) == IF 2 * j <= L THEN 2 * j ELSE L
              d == [j \in 0 .. m |-> c[at(j)]]
  <1>1. /\ nodes \in Seq(Seq(Nat)) /\ L \in Nat /\ L >= 1 /\ Len(s) \in Nat
        /\ L = Len(nodes)
        /\ c \in [0 .. L -> 0 .. Len(s)] /\ c[0] = 0 /\ c[L] = Len(s)
        /\ \A i \in 1 .. L : c[i - 1] <= c[i] /\ nodes[i] = SubSeq(s, c[i - 1] + 1, c[i])
    BY DEF IsPieces
  <1>. HIDE DEF L
  <1>2. m \in Nat /\ m >= 1 /\ 2 * m <= L + 1 /\ L + 1 <= 2 * m + 1
    <2>1. \A x \in Nat : x >= 1 => /\ (x + 1) \div 2 \in Nat /\ (x + 1) \div 2 >= 1
                                   /\ 2 * ((x + 1) \div 2) <= x + 1
                                   /\ x + 1 <= 2 * ((x + 1) \div 2) + 1
      OBVIOUS
    <2>. QED  BY <1>1, <2>1
  <1>3. up = [i \in 1 .. m |-> IF 2 * i <= L THEN Internal(nodes[2 * i - 1], nodes[2 * i])
                               ELSE nodes[2 * i - 1]]
    BY DEF PairUp, L
  <1>. HIDE DEF m, up
  <1>4. ASSUME NEW i \in 1 .. m
        PROVE  /\ up[i] \in Seq(Nat)
               /\ c[at(i - 1)] <= c[at(i)]
               /\ up[i] = SubSeq(s, c[at(i - 1)] + 1, c[at(i)])
    <2>. DEFINE b == 2 * i - 1
    <2>1. /\ b \in 1 .. L /\ at(i - 1) = b - 1 /\ b - 1 \in 0 .. L /\ b \in 0 .. L
          /\ at(i) = IF b + 1 <= L THEN b + 1 ELSE b
          /\ b + 1 <= L => b + 1 \in 1 .. L /\ b + 1 \in 0 .. L /\ (b + 1) - 1 = b
      <3>1. \A x, y, j \in Nat : 2 * y <= x + 1 /\ x + 1 <= 2 * y + 1 /\ j \in 1 .. y =>
              /\ 2 * j - 1 \in 1 .. x /\ 2 * (j - 1) <= x /\ 2 * (j - 1) = (2 * j - 1) - 1
              /\ (2 * j - 1) - 1 \in 0 .. x /\ 2 * j - 1 \in 0 .. x
              /\ 2 * j = (2 * j - 1) + 1 /\ (2 * j > x => x = 2 * j - 1)
        OBVIOUS
      <3>2. /\ 2 * i - 1 \in 1 .. L /\ 2 * (i - 1) <= L /\ 2 * (i - 1) = (2 * i - 1) - 1
            /\ (2 * i - 1) - 1 \in 0 .. L /\ 2 * i - 1 \in 0 .. L
            /\ 2 * i = (2 * i - 1) + 1 /\ (2 * i > L => L = 2 * i - 1)
        <4>1. L \in Nat /\ m \in Nat /\ i \in Nat
          BY <1>1, <1>2
        <4>2. 2 * m <= L + 1 /\ L + 1 <= 2 * m + 1 /\ i \in 1 .. m
          BY <1>2
        <4>. HIDE DEF at, d
        <4>. QED  BY <3>1, <4>1, <4>2
      <3>3. at(i - 1) = 2 * (i - 1)
        BY <3>2
      <3>4. at(i) = IF 2 * i <= L THEN 2 * i ELSE L
        OBVIOUS
      <3>. HIDE DEF at, d
      <3>5. L \in Nat /\ i \in Nat
        BY <1>1, <1>2
      <3>6. b + 1 = 2 * i
        BY <3>5
      <3>7. b \in 1 .. L /\ at(i - 1) = b - 1 /\ b - 1 \in 0 .. L /\ b \in 0 .. L
        BY <3>2, <3>3
      <3>8. at(i) = IF b + 1 <= L THEN b + 1 ELSE b
        BY <3>2, <3>4, <3>5, <3>6
      <3>9. b + 1 <= L => b + 1 \in 1 .. L /\ b + 1 \in 0 .. L /\ (b + 1) - 1 = b
        BY <3>5, <3>7
      <3>. QED  BY <3>7, <3>8, <3>9
    <2>2. up[i] = IF b + 1 <= L THEN Internal(nodes[b], nodes[b + 1]) ELSE nodes[b]
      <3>1. 2 * i = b + 1
        OBVIOUS
      <3>2. up[i] = IF 2 * i <= L THEN Internal(nodes[2 * i - 1], nodes[2 * i])
                    ELSE nodes[2 * i - 1]
        BY <1>3
      <3>. QED  BY <3>1, <3>2
    <2>. HIDE DEF b, at
    <2>3. /\ nodes[b] \in Seq(Nat)
          /\ c[b - 1] \in 0 .. Len(s) /\ c[b] \in 0 .. Len(s) /\ c[b - 1] <= c[b]
          /\ nodes[b] = SubSeq(s, c[b - 1] + 1, c[b])
      <3>1. nodes[b] \in Seq(Nat)
        BY <1>1, <2>1
      <3>2. c[b - 1] \in 0 .. Len(s) /\ c[b] \in 0 .. Len(s)
        BY <1>1, <2>1
      <3>. QED  BY <1>1, <2>1, <3>1, <3>2
    <2>4. CASE b + 1 <= L
      <3>1. /\ nodes[b + 1] \in Seq(Nat) /\ c[b + 1] \in 0 .. Len(s)
            /\ c[b] <= c[b + 1] /\ nodes[b + 1] = SubSeq(s, c[b] + 1, c[b + 1])
        <4>1. nodes[b + 1] \in Seq(Nat)
          BY <1>1, <2>1, <2>4
        <4>2. c[b + 1] \in 0 .. Len(s)
          BY <1>1, <2>1, <2>4
        <4>3. b + 1 \in 1 .. L /\ (b + 1) - 1 = b
          BY <2>1, <2>4
        <4>4. c[(b + 1) - 1] <= c[b + 1] /\ nodes[b + 1] = SubSeq(s, c[(b + 1) - 1] + 1, c[b + 1])
          BY <1>1, <4>3, Zenon
        <4>. QED  BY <4>1, <4>2, <4>3, <4>4
      <3>2. up[i] = nodes[b] \o nodes[b + 1]
        BY <2>2, <2>4 DEF Internal
      <3>3. \A x, y, z \in 0 .. Len(s) : x <= y /\ y <= z =>
              SubSeq(s, x + 1, y) \o SubSeq(s, y + 1, z) = SubSeq(s, x + 1, z)
        <4>. SUFFICES ASSUME NEW x \in 0 .. Len(s), NEW y \in 0 .. Len(s), NEW z \in 0 .. Len(s),
                             x <= y, y <= z
                      PROVE  SubSeq(s, x + 1, y) \o SubSeq(s, y + 1, z) = SubSeq(s, x + 1, z)
          OBVIOUS
        <4>1. x + 1 \in 1 .. Len(s) + 1 /\ y \in (x + 1) - 1 .. Len(s) /\ z \in y .. Len(s)
          BY <1>1
        <4>. QED  BY <4>1, ConcatAdjacentSubSeq, Zenon
      <3>4. up[i] = SubSeq(s, c[b - 1] + 1, c[b + 1])
        <4>1. up[i] = SubSeq(s, c[b - 1] + 1, c[b]) \o SubSeq(s, c[b] + 1, c[b + 1])
          BY <2>3, <3>1, <3>2, Zenon
        <4>. QED  BY <2>3, <3>1, <3>3, <4>1, Zenon
      <3>5. c[b - 1] <= c[b + 1]
        <4>1. \A x, y, z \in 0 .. Len(s) : x <= y /\ y <= z => x <= z
          BY <1>1
        <4>. QED  BY <2>3, <3>1, <4>1
      <3>6. up[i] \in Seq(Nat)
        <4>1. \A x, y \in Seq(Nat) : x \o y \in Seq(Nat)
          OBVIOUS
        <4>. QED  BY <2>3, <3>1, <3>2, <4>1
      <3>7. at(i) = b + 1
        BY <2>1, <2>4
      <3>. QED  BY <2>1, <3>4, <3>5, <3>6, <3>7
    <2>5. CASE ~(b + 1 <= L)
      <3>1. up[i] = nodes[b] /\ at(i) = b
        BY <2>1, <2>2, <2>5
      <3>. QED  BY <2>1, <2>3, <3>1
    <2>. QED  BY <2>4, <2>5
  <1>5. up \in Seq(Seq(Nat)) /\ Len(up) = m
    <2>1. \A i \in 1 .. m : up[i] \in Seq(Nat)
      BY <1>4
    <2>2. up = [i \in 1 .. m |-> up[i]]
      <3>1. up = [i \in 1 .. m |-> [j \in 1 .. m |-> IF 2 * j <= L
                                     THEN Internal(nodes[2 * j - 1], nodes[2 * j])
                                     ELSE nodes[2 * j - 1]][i]]
        BY <1>3
      <3>. QED  BY <1>3, <3>1
    <2>3. \A f, S : f = [i \in 1 .. m |-> f[i]] /\ (\A i \in 1 .. m : f[i] \in S)
                   => f \in Seq(S) /\ Len(f) = m
      BY SMTT(30), <1>2
    <2>. QED  BY <2>1, <2>2, <2>3
  <1>6. /\ d \in [0 .. m -> 0 .. Len(s)] /\ d[0] = 0 /\ d[m] = Len(s)
        /\ \A i \in 1 .. m : d[i - 1] = c[at(i - 1)] /\ d[i] = c[at(i)]
    <2>1. /\ \A j \in 0 .. m : at(j) \in 0 .. L
          /\ at(0) = 0 /\ at(m) = L
          /\ 0 \in 0 .. m /\ m \in 0 .. m
          /\ \A i \in 1 .. m : i - 1 \in 0 .. m /\ i \in 0 .. m
      <3>1. \A j \in 0 .. m : at(j) \in 0 .. L
        BY <1>1, <1>2
      <3>2. at(0) = 0
        BY <1>1
      <3>3. at(m) = L
        BY <1>1, <1>2
      <3>. HIDE DEF at
      <3>. QED  BY <1>2, <3>1, <3>2, <3>3
    <2>. HIDE DEF at
    <2>. QED  BY <1>1, <2>1
  <1>7. IsPieces(up, s, d)
    <2>. HIDE DEF d, at
    <2>. QED  BY <1>2, <1>4, <1>5, <1>6 DEF IsPieces
  <1>. QED  BY <1>5, <1>7 DEF up, m, L

\* Of a sequence of leaves that is not empty one node is left in the end, which has all of
\* them in their order.
LEMMA LevelsKeepOrder ==
  ASSUME NEW s \in Seq(Nat), s # <<>>
  PROVE  Levels([i \in DOMAIN s |-> LeafNode(s[i])])[Len(s)][1] = s
  <1>. DEFINE nodes == [i \in DOMAIN s |-> LeafNode(s[i])]
              n == Len(s)
              lv == Levels(nodes)
              T == {k \in Nat : k <= n =>
                      /\ \E c : IsPieces(lv[k], s, c)
                      /\ Len(lv[k]) = 1 \/ Len(lv[k]) + k <= n}
  <1>1. n \in Nat /\ n >= 1 /\ DOMAIN s = 1 .. n
    OBVIOUS
  <1>2. /\ nodes \in Seq(Seq(Nat)) /\ Len(nodes) = n
        /\ \A i \in 1 .. n : nodes[i] = <<s[i]>>
    BY <1>1 DEF LeafNode
  <1>. HIDE DEF nodes
  <1>3. lv[0] = nodes /\ \A k \in 1 .. n : lv[k] = PairUp(lv[k - 1])
    BY <1>1, <1>2, LevelsAre
  <1>. HIDE DEF lv
  <1>4. 0 \in T
    <2>. DEFINE c == [i \in 0 .. n |-> i]
    <2>1. c \in [0 .. n -> 0 .. n] /\ c[0] = 0 /\ c[n] = n
      BY <1>1
    <2>2. ASSUME NEW i \in 1 .. n
          PROVE  c[i - 1] <= c[i] /\ nodes[i] = SubSeq(s, c[i - 1] + 1, c[i])
      <3>1. c[i - 1] = i - 1 /\ c[i] = i
        BY <1>1
      <3>2. SubSeq(s, i, i) = <<s[i]>>
        <4>1. Len(SubSeq(s, i, i)) = 1 /\ SubSeq(s, i, i) \in Seq(Nat)
          BY <1>1
        <4>2. SubSeq(s, i, i)[1] = s[i]
          BY <1>1
        <4>3. \A t \in Seq(Nat) : Len(t) = 1 => t = <<t[1]>>
          OBVIOUS
        <4>. QED  BY <4>1, <4>2, <4>3
      <3>3. (i - 1) + 1 = i
        OBVIOUS
      <3>. HIDE DEF c
      <3>. QED  BY <1>2, <3>1, <3>2, <3>3
    <2>3. IsPieces(nodes, s, c)
      <3>. HIDE DEF c
      <3>. QED  BY <1>1, <1>2, <2>1, <2>2 DEF IsPieces
    <2>. QED  BY <1>1, <1>2, <1>3, <2>3
  <1>5. ASSUME NEW k \in Nat, k \in T
        PROVE  k + 1 \in T
    <2>. SUFFICES ASSUME k + 1 <= n
                  PROVE  /\ \E c : IsPieces(lv[k + 1], s, c)
                         /\ Len(lv[k + 1]) = 1 \/ Len(lv[k + 1]) + (k + 1) <= n
      <3>1. k + 1 \in Nat
        OBVIOUS
      <3>. QED  BY <3>1, Zenon
    <2>1. PICK c : IsPieces(lv[k], s, c)
      BY <1>1, <1>5
    <2>2. Len(lv[k]) = 1 \/ Len(lv[k]) + k <= n
      BY <1>1, <1>5
    <2>3. lv[k + 1] = PairUp(lv[k])
      <3>1. k + 1 \in 1 .. n /\ (k + 1) - 1 = k
        BY <1>1
      <3>. QED  BY <1>3, <3>1
    <2>4. /\ Len(lv[k + 1]) = (Len(lv[k]) + 1) \div 2
          /\ \E d : IsPieces(lv[k + 1], s, d)
      BY <2>1, <2>3, PairUpPieces
    <2>5. Len(lv[k]) \in Nat /\ Len(lv[k]) >= 1
      BY <2>1 DEF IsPieces
    <2>6. \A a, b, e \in Nat : /\ a >= 1 /\ e = (a + 1) \div 2
                             /\ (a = 1 \/ a + k <= b)
                             => e = 1 \/ e + (k + 1) <= b
      OBVIOUS
    <2>7. Len(lv[k + 1]) \in Nat
      <3>1. lv[k + 1] \in Seq(Seq(Nat))
        BY <2>4, Zenon DEF IsPieces
      <3>. QED  BY <3>1
    <2>. QED  BY <1>1, <2>2, <2>4, <2>5, <2>6, <2>7
  <1>6. n \in T
    <2>. HIDE DEF T
    <2>1. Nat \subseteq T
      BY <1>4, <1>5, SetInduction, Zenon
    <2>. QED  BY <1>1, <2>1
  <1>7. PICK c : IsPieces(lv[n], s, c)
    BY <1>1, <1>6
  <1>8. Len(lv[n]) = 1
    <2>1. Len(lv[n]) \in Nat /\ Len(lv[n]) >= 1
      BY <1>7 DEF IsPieces
    <2>2. Len(lv[n]) = 1 \/ Len(lv[n]) + n <= n
      BY <1>1, <1>6
    <2>. QED  BY <1>1, <2>1, <2>2
  <1>9. lv[n][1] = SubSeq(s, 1, n)
    <2>1. 1 \in 1 .. Len(lv[n]) /\ 1 - 1 = 0
      BY <1>8
    <2>2. lv[n][1] = SubSeq(s, c[0] + 1, c[1]) /\ c[0] = 0 /\ c[1] = n
      BY <1>7, <1>8, <2>1 DEF IsPieces
    <2>3. 0 + 1 = 1
      OBVIOUS
    <2>. QED  BY <2>2, <2>3
  <1>10. SubSeq(s, 1, n) = s
    BY <1>1
  <1>. QED  BY <1>9, <1>10 DEF lv, nodes

-----------------------------------------------------------------------------
(***************************************************************************)
(* The leaves in the order of their keys, and the root that is built of    *)
(* them.                                                                   *)
(***************************************************************************)
Sorts(s, S) == s \in Seq(S) /\ Increasing(s) /\ Range(s) = S

\* Up to a bound, every set of events can be read in order: the greatest comes last.
LEMMA SortedUpTo ==
  \A m \in Nat : \A S \in SUBSET (1 .. m) : \E s : Sorts(s, S)
  <1>. DEFINE T == {m \in Nat : \A S \in SUBSET (1 .. m) : \E s : Sorts(s, S)}
  <1>1. 0 \in T
    <2>1. Sorts(<<>>, {})
      BY DEF Sorts, Increasing, Range
    <2>2. \A S \in SUBSET (1 .. 0) : S = {}
      OBVIOUS
    <2>. QED  BY <2>1, <2>2
  <1>2. ASSUME NEW m \in Nat, m \in T
        PROVE  m + 1 \in T
    <2>. SUFFICES ASSUME NEW S \in SUBSET (1 .. m + 1)
                  PROVE  \E s : Sorts(s, S)
      <3>1. m + 1 \in Nat
        OBVIOUS
      <3>. QED  BY <3>1
    <2>1. CASE m + 1 \notin S
      <3>1. S \in SUBSET (1 .. m)
        BY <2>1
      <3>. QED  BY <1>2, <3>1
    <2>2. CASE m + 1 \in S
      <3>. DEFINE R == S \ {m + 1}
      <3>1. R \in SUBSET (1 .. m)
        OBVIOUS
      <3>2. PICK s : Sorts(s, R)
        BY <1>2, <3>1
      <3>. DEFINE t == Append(s, m + 1)
                  n == Len(s)
      <3>3. s \in Seq(S) /\ n \in Nat /\ DOMAIN s = 1 .. n /\ \A i \in 1 .. n : s[i] \in R
        BY <3>2 DEF Sorts
      <3>4. /\ t \in Seq(S) /\ DOMAIN t = 1 .. n + 1
            /\ \A i \in 1 .. n : t[i] = s[i]
            /\ t[n + 1] = m + 1
        BY <2>2, <3>3
      <3>. HIDE DEF t, n
      <3>5. Increasing(t)
        <4>. SUFFICES ASSUME NEW i \in 1 .. n + 1, NEW j \in 1 .. n + 1, i < j
                      PROVE  t[i] < t[j]
          BY <3>4 DEF Increasing
        <4>1. CASE j = n + 1
          <5>1. i \in 1 .. n
            BY <3>3, <4>1
          <5>2. s[i] \in 1 .. m
            BY <3>1, <3>3, <5>1
          <5>. QED  BY <3>4, <4>1, <5>1, <5>2
        <4>2. CASE j # n + 1
          <5>1. i \in 1 .. n /\ j \in 1 .. n
            BY <3>3, <4>2
          <5>2. s[i] < s[j]
            BY <3>2, <3>3, <5>1 DEF Sorts, Increasing
          <5>. QED  BY <3>4, <5>1, <5>2
        <4>. QED  BY <4>1, <4>2
      <3>6. Range(t) = S
        <4>1. Range(s) = R
          BY <3>2 DEF Sorts
        <4>2. \A e \in R : \E i \in 1 .. n : s[i] = e
          BY <3>3, <4>1 DEF Range
        <4>3. \A e \in S : \E i \in 1 .. n + 1 : t[i] = e
          <5>1. n + 1 \in 1 .. n + 1 /\ \A i \in 1 .. n : i \in 1 .. n + 1
            BY <3>3
          <5>. QED  BY <3>4, <4>2, <5>1
        <4>4. \A i \in 1 .. n + 1 : t[i] \in S
          <5>1. \A u \in Seq(S) : \A i \in DOMAIN u : u[i] \in S
            OBVIOUS
          <5>. QED  BY <3>4, <5>1
        <4>. QED  BY <3>4, <4>3, <4>4 DEF Range
      <3>. QED  BY <3>4, <3>5, <3>6 DEF Sorts
    <2>. QED  BY <2>1, <2>2
  <1>. HIDE DEF T
  <1>3. Nat \subseteq T
    BY <1>1, <1>2, SetInduction, Zenon
  <1>. QED  BY <1>3 DEF T

\* Such a sequence is as long as there are events.
LEMMA SortedIsBijection ==
  ASSUME NEW S \in SUBSET Events, NEW s, Sorts(s, S)
  PROVE  Len(s) = Cardinality(S)
  <1>1. s \in Seq(S) /\ Len(s) \in Nat /\ DOMAIN s = 1 .. Len(s) /\ S \subseteq Nat
    BY DEF Sorts, Events
  <1>2. s \in Bijection(1 .. Len(s), S)
    <2>1. s \in [1 .. Len(s) -> S]
      BY <1>1
    <2>2. \A i, j \in 1 .. Len(s) : s[i] = s[j] => i = j
      <3>. SUFFICES ASSUME NEW i \in 1 .. Len(s), NEW j \in 1 .. Len(s), i # j
                    PROVE  s[i] # s[j]
        OBVIOUS
      <3>1. s[i] \in Nat /\ s[j] \in Nat
        <4>1. s[i] \in S /\ s[j] \in S
          BY <1>1
        <4>. QED  BY <1>1, <4>1
      <3>2. i < j \/ j < i
        OBVIOUS
      <3>. QED  BY <1>1, <3>1, <3>2 DEF Sorts, Increasing
    <2>3. \A e \in S : \E i \in 1 .. Len(s) : s[i] = e
      BY <1>1 DEF Sorts, Range
    <2>. QED  BY <2>1, <2>2, <2>3 DEF Bijection, Injection, Surjection, IsInjective, Range
  <1>. QED  BY <1>1, <1>2, FS_CountingElements DEF ExistsBijection

LEMMA InOrderIs ==
  ASSUME NEW S \in SUBSET Events
  PROVE  Sorts(InOrder(S), S) /\ Len(InOrder(S)) = Cardinality(S)
  <1>1. PICK s : Sorts(s, S)
    <2>1. MaxEvents \in Nat /\ S \in SUBSET (1 .. MaxEvents)
      BY AuditAssumption DEF Events
    <2>. QED  BY <2>1, SortedUpTo, Zenon
  <1>2. Len(s) = Cardinality(S) /\ s \in [1 .. Cardinality(S) -> S]
    <2>1. Len(s) = Cardinality(S) /\ s \in Seq(S)
      BY <1>1, SortedIsBijection DEF Sorts
    <2>2. s \in [1 .. Len(s) -> S]
      BY <2>1
    <2>. QED  BY <2>1, <2>2, Zenon
  <1>3. /\ InOrder(S) \in [1 .. Cardinality(S) -> S]
        /\ Increasing(InOrder(S)) /\ Range(InOrder(S)) = S
    BY <1>1, <1>2, Zenon DEF Sorts, InOrder
  <1>4. Cardinality(S) \in Nat
    <2>1. Len(s) \in Nat
      BY <1>1 DEF Sorts
    <2>. QED  BY <1>2, <2>1
  <1>5. \A n \in Nat : \A f \in [1 .. n -> S] : f \in Seq(S) /\ Len(f) = n
    OBVIOUS
  <1>. QED  BY <1>3, <1>4, <1>5, Zenon DEF Sorts

\* The root that build_tree_from_leaves makes has the leaves in the order of their keys.
LEMMA BuildTreeIs ==
  ASSUME NEW S \in SUBSET Events, S # {}
  PROVE  Sorts(BuildTree(S), S)
  <1>. DEFINE s == InOrder(S)
              nodes == [i \in DOMAIN s |-> LeafNode(s[i])]
  <1>1. Sorts(s, S)
    BY InOrderIs
  <1>2. s \in Seq(Nat) /\ s # <<>> /\ Len(s) \in Nat /\ DOMAIN s = 1 .. Len(s)
    <2>1. s \in Seq(S) /\ Range(s) = S
      BY <1>1 DEF Sorts
    <2>2. S \subseteq Nat
      BY DEF Events
    <2>. HIDE DEF s
    <2>3. Range(<<>>) = {}
      BY DEF Range
    <2>4. s # <<>>
      BY <2>1, <2>3
    <2>5. Len(s) \in Nat /\ s = [i \in 1 .. Len(s) |-> s[i]] /\ \A i \in 1 .. Len(s) : s[i] \in Nat
      BY <2>1, <2>2
    <2>6. s \in Seq(Nat)
      BY <2>5
    <2>. QED  BY <2>4, <2>6
  <1>3. Len(nodes) = Len(s)
    <2>. HIDE DEF s
    <2>. QED  BY <1>2
  <1>4. BuildTree(S) = Levels(nodes)[Len(nodes)][1]
    BY DEF BuildTree
  <1>5. Levels(nodes)[Len(s)][1] = s
    BY <1>2, LevelsKeepOrder
  <1>. HIDE DEF s, nodes
  <1>6. BuildTree(S) = s
    BY <1>3, <1>4, <1>5
  <1>. QED  BY <1>1, <1>6

-----------------------------------------------------------------------------
(***************************************************************************)
(* The Merkle adapter: the windows that are closed come before the current *)
(* one, unless a delete has failed, so that a rotation never replaces a    *)
(* root.                                                                   *)
(***************************************************************************)
WindowsOK ==
  /\ start <= now
  /\ pc \in {"rotate", "clear"} => start < now
  /\ used["delete"] = 0 =>
       \A w \in Times : roots[w] # None => w < start \/ (w = start /\ pc = "clear")

\* The other adapter has an event while it is at work.
TxEventOK ==
  /\ tx \in [at : {"recv", "submit", "subscribe", "wait"}, event : Events \cup {None}]
  /\ tx.at = "recv" <=> tx.event = None

MerkleOK == HandlerOK /\ WindowsOK /\ TxEventOK

\* merkle_tree.rs, build_tree_from_leaves: the root has every leaf of the window once
\* and in the order of their keys, however many levels there are.
THEOREM RootIs ==
  ASSUME NEW S \in SUBSET Events, S # {}
  PROVE  /\ BuildTree(S) \in Node /\ BuildTree(S) # None /\ BuildTree(S) # <<>>
         /\ Increasing(BuildTree(S)) /\ EventsOf(BuildTree(S)) = S
  <1>. DEFINE r == BuildTree(S)
  <1>1. r \in Seq(S) /\ Increasing(r) /\ Range(r) = S
    BY BuildTreeIs DEF Sorts
  <1>. HIDE DEF r
  <1>2. r \in Seq(Events)
    BY <1>1, SeqMonotonic
  <1>3. r # None
    BY <1>2, AuditAssumption
  <1>4. EventsOf(r) = S
    BY <1>1, <1>3 DEF EventsOf, Range
  <1>5. r # <<>>
    <2>1. Range(<<>>) = {}
      BY DEF Range
    <2>. QED  BY <1>1, <2>1
  <1>. QED  BY <1>1, <1>2, <1>3, <1>4, <1>5 DEF Node, r

\* A thing that is counted has happened.
LEMMA SpendKeeps ==
  ASSUME used \in [Budgets -> Nat], NEW b \in Budgets, Spend(b)
  PROVE  /\ used' \in [Budgets -> Nat]
         /\ \A a \in Budgets : used'[a] = 0 => used[a] = 0 /\ a # b
  BY DEF Spend

LEMMA MerkleInit == AdaptersInit => MerkleOK
  <1>. SUFFICES ASSUME AdaptersInit
                PROVE  MerkleOK
    OBVIOUS
  <1>1. 0 \in Times /\ 0 \in 0 .. MaxEvents
    BY AuditAssumption DEF Times
  <1>2. TypeOK
    <2>1. <<>> \in Seq(Events)
      OBVIOUS
    <2>2. now \in Times /\ start \in Times /\ pending \in Seq(Events) /\ triggered \in 0 .. MaxEvents
      BY <1>1, <2>1 DEF AdaptersInit, Init
    <2>3. roots \in [Times -> Node \cup {None}] /\ used \in [Budgets -> Nat]
      BY DEF AdaptersInit, Init
    <2>4. sending \in [Tasks -> Events \cup {None}]
      BY DEF AdaptersInit, Init
    <2>. QED  BY <2>2, <2>3, <2>4 DEF AdaptersInit, Init, TypeOK
  <1>3. HandlerOK
    BY <1>2 DEF AdaptersInit, Init, HandlerOK
  <1>4. WindowsOK
    BY <1>1 DEF AdaptersInit, Init, WindowsOK
  <1>5. TxEventOK
    BY DEF AdaptersInit, TxEventOK, Receiving
  <1>. QED  BY <1>3, <1>4, <1>5 DEF MerkleOK

\* A step that leaves the handler and the tree alone.
LEMMA TreeIdle ==
  ASSUME HandlerOK, WindowsOK, UNCHANGED <<now, handler, database, start>>,
         UNCHANGED <<fresh, cut>>,
         pending' \in Seq(Events), sending' \in [Tasks -> Events \cup {None}],
         triggered' \in 0 .. MaxEvents, dropped' \subseteq Events,
         used' \in [Budgets -> Nat], used'["delete"] = 0 => used["delete"] = 0
  PROVE  HandlerOK' /\ WindowsOK' /\ Recorded' = Recorded
  <1>1. UNCHANGED <<now, pc, event, todo, leaves, roots, start, fresh, cut>>
    BY DEF handler, database
  <1>2. TypeOK'
    BY <1>1 DEF HandlerOK, TypeOK
  <1>3. HandlerOK'
    BY <1>1, <1>2 DEF HandlerOK
  <1>4. WindowsOK'
    BY <1>1 DEF WindowsOK
  <1>5. Recorded' = Recorded
    BY <1>1 DEF Recorded, InRoots
  <1>. QED  BY <1>3, <1>4, <1>5

\* The channel loses its first event.
LEMMA ChannelTail ==
  ASSUME TypeOK, pending # <<>>
  PROVE  Tail(pending) \in Seq(Events) /\ Head(pending) \in Events
  BY DEF TypeOK

\* A step of the tree keeps the invariant and what is recorded.
TreeOK == /\ HandlerOK' /\ WindowsOK'
          /\ used["delete"] = 0 => Recorded \subseteq Recorded'

LEMMA TreeRecv ==
  ASSUME HandlerOK, WindowsOK, Recv
  PROVE  TreeOK
  <1>1. /\ UNCHANGED <<now, sending, triggered, todo, leaves, roots, start, used>>
        /\ UNCHANGED <<dropped, fresh, cut>>
        /\ pc = "recv" /\ event' = Head(pending) /\ pending' = Tail(pending)
        /\ pc' = IF now - start >= Window THEN "rotate" ELSE "leaf"
    BY DEF Recv, database, history
  <1>2. Head(pending) \in Events /\ Tail(pending) \in Seq(Events) /\ event' # None
    BY <1>1, ChannelTail, AuditAssumption DEF Recv, HandlerOK
  <1>3. TypeOK' /\ pc' \in {"rotate", "leaf"}
    BY <1>1, <1>2 DEF HandlerOK, TypeOK
  <1>4. HandlerOK'
    BY <1>1, <1>2, <1>3 DEF HandlerOK
  <1>5. pc' = "rotate" => start < now
    <2>1. now \in Nat /\ start \in Nat /\ Window \in Nat /\ Window >= 1
      BY AuditAssumption DEF HandlerOK, TypeOK, Times
    <2>2. \A x, y, z \in Nat : x - y >= z /\ z >= 1 => y < x
      OBVIOUS
    <2>. QED  BY <1>1, <2>1, <2>2
  <1>6. WindowsOK'
    BY <1>1, <1>3, <1>5 DEF WindowsOK
  <1>7. Recorded' = Recorded
    BY <1>1 DEF Recorded, InRoots
  <1>. QED  BY <1>4, <1>6, <1>7 DEF TreeOK

LEMMA TreeFail ==
  ASSUME HandlerOK, WindowsOK, Fail, event # None,
         UNCHANGED <<now, channel, database, start>>,
         used' \in [Budgets -> Nat], used'["delete"] = 0 => used["delete"] = 0,
         used'["delete"] = 0 => pc # "clear",
         fresh' \in BOOLEAN, cut' \in BOOLEAN
  PROVE  HandlerOK' /\ WindowsOK' /\ Recorded' = Recorded
  <1>1. UNCHANGED <<now, pending, sending, triggered, leaves, roots, start>>
    BY DEF channel, database
  <1>2. pc' = "recv" /\ event' = None /\ todo' = {} /\ dropped' = dropped \cup {event}
    BY DEF Fail, Return
  <1>3. TypeOK'
    BY <1>1, <1>2 DEF HandlerOK, TypeOK
  <1>4. HandlerOK'
    BY <1>2, <1>3 DEF HandlerOK
  <1>5. WindowsOK'
    BY <1>1, <1>2 DEF WindowsOK
  <1>6. Recorded' = Recorded
    BY <1>1 DEF Recorded, InRoots
  <1>. QED  BY <1>4, <1>5, <1>6

LEMMA TreeRotate ==
  ASSUME HandlerOK, WindowsOK, Rotate
  PROVE  TreeOK
  <1>1. /\ pc = "rotate" /\ UNCHANGED <<now, channel, leaves, start, used, fresh, cut>>
        /\ event # None /\ start < now /\ TypeOK
    BY DEF Rotate, HandlerOK, WindowsOK
  <1>2. CASE leaves = {}
    <2>1. Fail /\ UNCHANGED database
      BY <1>1, <1>2 DEF Rotate, database
    <2>2. used' \in [Budgets -> Nat] /\ fresh' \in BOOLEAN /\ cut' \in BOOLEAN
      BY <1>1 DEF TypeOK
    <2>. QED  BY <1>1, <2>1, <2>2, TreeFail DEF TreeOK
  <1>3. CASE leaves # {}
    <2>1. /\ roots' = [roots EXCEPT ![start] = BuildTree(leaves)]
          /\ pc' = "clear" /\ todo' = leaves /\ UNCHANGED <<event, dropped>>
          /\ UNCHANGED <<now, pending, sending, triggered, leaves, start, used, fresh, cut>>
      BY <1>1, <1>3 DEF Rotate, channel
    <2>2. /\ BuildTree(leaves) \in Node /\ BuildTree(leaves) # None
          /\ EventsOf(BuildTree(leaves)) = leaves
      BY <1>1, <1>3, RootIs DEF TypeOK
    <2>3. /\ start \in Times /\ roots'[start] = BuildTree(leaves)
          /\ \A w \in Times : w # start => roots'[w] = roots[w]
          /\ roots' \in [Times -> Node \cup {None}]
      BY <1>1, <2>1, <2>2 DEF TypeOK
    <2>4. TypeOK'
      BY <1>1, <2>1, <2>3 DEF TypeOK
    <2>5. HandlerOK'
      BY <1>1, <2>1, <2>2, <2>3, <2>4 DEF HandlerOK
    <2>6. WindowsOK'
      BY <1>1, <2>1, <2>3 DEF WindowsOK
    <2>7. used["delete"] = 0 => roots[start] = None
      <3>1. start \in Times /\ ~(start < start)
        BY <1>1 DEF TypeOK, Times
      <3>. QED  BY <1>1, <3>1 DEF WindowsOK
    <2>8. used["delete"] = 0 => Recorded \subseteq Recorded'
      <3>. SUFFICES ASSUME used["delete"] = 0, NEW e \in InRoots
                    PROVE  e \in InRoots'
        BY <2>1 DEF Recorded
      <3>1. PICK w \in Times : e \in EventsOf(roots[w])
        BY DEF InRoots
      <3>2. w # start
        BY <2>7, <3>1 DEF EventsOf
      <3>3. e \in EventsOf(roots'[w])
        BY <2>3, <3>1, <3>2
      <3>. QED  BY <3>3 DEF InRoots
    <2>. QED  BY <2>5, <2>6, <2>8 DEF TreeOK
  <1>. QED  BY <1>2, <1>3

LEMMA TreeClear ==
  ASSUME HandlerOK, WindowsOK, Clear
  PROVE  TreeOK
  <1>1. /\ UNCHANGED <<now, pending, sending, triggered, pc, event, roots, start, used>>
        /\ UNCHANGED <<dropped, fresh, cut>>
        /\ pc = "clear" /\ todo = leaves /\ leaves \subseteq EventsOf(roots[start])
        /\ leaves' = leaves \ {First(todo)} /\ todo' = todo \ {First(todo)}
        /\ TypeOK /\ start \in Times
    BY DEF Clear, channel, history, HandlerOK, TypeOK
  <1>2. TypeOK'
    BY <1>1 DEF TypeOK
  <1>3. HandlerOK'
    BY <1>1, <1>2 DEF HandlerOK
  <1>4. WindowsOK'
    BY <1>1 DEF WindowsOK
  <1>5. InRoots' = InRoots /\ leaves \subseteq InRoots
    BY <1>1 DEF InRoots
  <1>. QED  BY <1>3, <1>4, <1>5 DEF TreeOK, Recorded

LEMMA TreeNewWindow ==
  ASSUME HandlerOK, WindowsOK, NewWindow
  PROVE  TreeOK
  <1>1. /\ UNCHANGED <<now, pending, sending, triggered, event, todo, leaves, roots, used>>
        /\ UNCHANGED <<dropped, fresh, cut>>
        /\ pc = "clear" /\ start' = now /\ pc' = "leaf" /\ TypeOK /\ start < now
    BY DEF NewWindow, channel, database, history, HandlerOK, WindowsOK
  <1>2. TypeOK'
    BY <1>1 DEF TypeOK
  <1>3. HandlerOK'
    BY <1>1, <1>2 DEF HandlerOK
  <1>4. WindowsOK'
    <2>1. now \in Nat /\ start \in Nat /\ \A w \in Times : w \in Nat
      BY <1>1 DEF TypeOK, Times
    <2>. QED  BY <1>1, <2>1 DEF WindowsOK
  <1>5. Recorded' = Recorded
    BY <1>1 DEF Recorded, InRoots
  <1>. QED  BY <1>3, <1>4, <1>5 DEF TreeOK

LEMMA TreePutLeaf ==
  ASSUME HandlerOK, WindowsOK, PutLeaf
  PROVE  TreeOK
  <1>1. /\ UNCHANGED <<now, pending, sending, triggered, roots, start, used, dropped, cut>>
        /\ pc = "leaf" /\ leaves' = leaves \cup {event} /\ fresh' = FALSE
        /\ pc' = "recv" /\ event' = None /\ todo' = {} /\ TypeOK /\ event # None
    BY DEF PutLeaf, Return, channel, HandlerOK
  <1>2. TypeOK'
    BY <1>1 DEF TypeOK
  <1>3. HandlerOK'
    BY <1>1, <1>2 DEF HandlerOK
  <1>4. WindowsOK'
    BY <1>1 DEF WindowsOK
  <1>5. Recorded' = Recorded \cup {event}
    BY <1>1 DEF Recorded, InRoots
  <1>. QED  BY <1>3, <1>4, <1>5 DEF TreeOK

LEMMA TreeTick ==
  ASSUME HandlerOK, WindowsOK, Tick
  PROVE  TreeOK
  <1>1. /\ UNCHANGED <<pending, sending, triggered, pc, event, todo, leaves, roots>>
        /\ UNCHANGED <<start, used, dropped, fresh, cut>>
        /\ now < MaxTime /\ now' = now + 1 /\ TypeOK
    BY DEF Tick, channel, handler, database, history, HandlerOK
  <1>2. now \in Nat /\ start \in Nat /\ now' \in Times
    BY <1>1, AuditAssumption DEF TypeOK, Times
  <1>3. TypeOK'
    BY <1>1, <1>2 DEF TypeOK
  <1>4. HandlerOK'
    BY <1>1, <1>3 DEF HandlerOK
  <1>5. WindowsOK'
    BY <1>1, <1>2 DEF WindowsOK
  <1>6. Recorded' = Recorded
    BY <1>1 DEF Recorded, InRoots
  <1>. QED  BY <1>4, <1>5, <1>6 DEF TreeOK

LEMMA TreeSenders ==
  ASSUME HandlerOK, WindowsOK, NEW t \in Tasks, Trigger(t) \/ Sent(t)
  PROVE  TreeOK
  <1>1. /\ UNCHANGED <<now, handler, database, start>> /\ UNCHANGED <<fresh, cut>>
        /\ dropped' = dropped /\ used' = used /\ TypeOK
    BY DEF Trigger, Sent, history, HandlerOK
  <1>2. pending' \in Seq(Events) /\ triggered' \in 0 .. MaxEvents
    <2>1. CASE Trigger(t)
      <3>1. triggered + 1 \in Events /\ triggered + 1 \in 0 .. MaxEvents
        BY <1>1, <2>1, AuditAssumption DEF Trigger, TypeOK, Events
      <3>. QED  BY <1>1, <2>1, <3>1 DEF Trigger, TypeOK
    <2>2. CASE Sent(t)
      BY <1>1, <2>2 DEF Sent, TypeOK
    <2>. QED  BY <2>1, <2>2
  <1>3. sending' \in [Tasks -> Events \cup {None}]
    <2>1. triggered + 1 \in Events \/ ~Trigger(t)
      BY <1>1, AuditAssumption DEF Trigger, TypeOK, Events
    <2>. QED  BY <1>1, <2>1 DEF Trigger, Sent, TypeOK
  <1>. QED  BY <1>1, <1>2, <1>3, TreeIdle DEF TreeOK, TypeOK

LEMMA TreeFaults ==
  ASSUME HandlerOK, WindowsOK, PutFails \/ DeleteFails \/ Restart
  PROVE  TreeOK
  <1>0. TypeOK /\ used \in [Budgets -> Nat]
    BY DEF HandlerOK, TypeOK
  <1>1. CASE PutFails
    <2>1. /\ pc # "recv" /\ pc # "clear" /\ Spend("put") /\ Fail
          /\ UNCHANGED <<now, channel, database, start>> /\ cut' = cut
          /\ fresh' = (fresh \/ pc = "leaf")
      BY <1>1 DEF PutFails
    <2>2. used' \in [Budgets -> Nat] /\ (used'["delete"] = 0 => used["delete"] = 0)
      BY <1>0, <2>1, SpendKeeps DEF Budgets
    <2>3. event # None /\ fresh' \in BOOLEAN /\ cut' \in BOOLEAN
      BY <1>0, <2>1 DEF HandlerOK, TypeOK
    <2>. QED  BY <2>1, <2>2, <2>3, TreeFail DEF TreeOK
  <1>2. CASE DeleteFails
    <2>1. /\ pc = "clear" /\ Spend("delete") /\ Fail /\ cut' = TRUE /\ fresh' = fresh
          /\ UNCHANGED <<now, channel, database, start>>
      BY <1>2 DEF DeleteFails
    <2>2. used' \in [Budgets -> Nat] /\ used'["delete"] # 0
      BY <1>0, <2>1, SpendKeeps DEF Budgets
    <2>3. event # None /\ fresh' \in BOOLEAN /\ cut' \in BOOLEAN
      BY <1>0, <2>1 DEF HandlerOK, TypeOK
    <2>. QED  BY <2>1, <2>2, <2>3, TreeFail DEF TreeOK
  <1>3. CASE Restart
    <2>1. /\ Spend("crash") /\ pending' = <<>> /\ sending' = [t \in Tasks |-> None]
          /\ pc' = "recv" /\ event' = None /\ todo' = {}
          /\ start' = now /\ fresh' = TRUE /\ cut' = (cut \/ pc = "clear")
          /\ UNCHANGED <<now, triggered, leaves, roots, dropped>>
      BY <1>3 DEF Restart, Return, database
    <2>2. used' \in [Budgets -> Nat] /\ (used'["delete"] = 0 => used["delete"] = 0)
      BY <1>0, <2>1, SpendKeeps DEF Budgets
    <2>3. TypeOK'
      <3>1. <<>> \in Seq(Events)
        OBVIOUS
      <3>2. cut' \in BOOLEAN
        BY <1>0, <2>1 DEF TypeOK
      <3>. QED  BY <1>0, <2>1, <2>2, <3>1, <3>2 DEF TypeOK
    <2>4. HandlerOK'
      BY <2>1, <2>3 DEF HandlerOK
    <2>5. WindowsOK'
      <3>1. now \in Nat /\ start \in Nat /\ \A w \in Times : w \in Nat
        BY <1>0 DEF TypeOK, Times
      <3>2. used["delete"] = 0 => \A w \in Times : roots[w] # None => w < now
        BY <3>1 DEF WindowsOK
      <3>. QED  BY <2>1, <2>2, <3>1, <3>2 DEF WindowsOK
    <2>6. Recorded' = Recorded
      BY <2>1 DEF Recorded, InRoots
    <2>. QED  BY <2>4, <2>5, <2>6 DEF TreeOK
  <1>. QED  BY <1>1, <1>2, <1>3

\* All the steps of the Merkle adapter and of the senders.
LEMMA TreeStep ==
  ASSUME HandlerOK, WindowsOK, Next
  PROVE  TreeOK
  BY TreeTick, TreeSenders, TreeRecv, TreeRotate, TreeClear, TreeNewWindow, TreePutLeaf,
     TreeFaults DEF Next, HandlerStep

\* A step of process_event of the Substrate adapter: the handler has an event until it
\* is done, and an error is printed for one of those.
LEMMA TxStep ==
  ASSUME MerkleOK, SubstrateStep \/ SubstrateFault
  PROVE  /\ TxEventOK' /\ pending' \in Seq(Events) /\ dropped' \subseteq Events
         /\ sending' \in [Tasks -> Events \cup {None}] /\ triggered' = triggered
         /\ UNCHANGED merkle /\ now' = now
         /\ used' \in [Budgets -> Nat]
         /\ \A b \in Budgets : used'[b] = 0 => used[b] = 0
  <1>0. /\ pending \in Seq(Events) /\ dropped \subseteq Events
        /\ sending \in [Tasks -> Events \cup {None}] /\ used \in [Budgets -> Nat]
        /\ tx.at # "recv" => tx.event \in Events
    BY DEF MerkleOK, HandlerOK, TypeOK, TxEventOK
  <1>1. triggered' = triggered /\ UNCHANGED merkle /\ now' = now
    BY DEF SubstrateStep, TakeEvent, Submit, Subscribe, Found, SubstrateFault, Block,
           SubmitFails, WaitFails, BlockLost, Restarted, channel
  <1>2. used' = used \/ \E b \in Budgets : Spend(b)
    BY DEF SubstrateStep, TakeEvent, Submit, Subscribe, Found, SubstrateFault, Block,
           SubmitFails, WaitFails, BlockLost, Restarted, Budgets
  <1>3. used' \in [Budgets -> Nat] /\ \A b \in Budgets : used'[b] = 0 => used[b] = 0
    BY <1>0, <1>2, SpendKeeps
  <1>4. Done => TxEventOK'
    BY DEF Done, Receiving, TxEventOK
  <1>5. UNCHANGED tx => TxEventOK'
    BY DEF MerkleOK, TxEventOK
  <1>6. /\ TxEventOK' /\ pending' \in Seq(Events) /\ dropped' \subseteq Events
        /\ sending' \in [Tasks -> Events \cup {None}]
    <2>1. CASE TakeEvent
      <3>1. /\ tx.at = "recv" /\ pending # <<>> /\ pending' = Tail(pending) /\ sending' = sending
            /\ \/ tx' = [at |-> "submit", event |-> Head(pending)] /\ dropped' = dropped
               \/ tx' = tx /\ dropped' = dropped \cup {Head(pending)}
        BY <2>1 DEF TakeEvent
      <3>2. Tail(pending) \in Seq(Events) /\ Head(pending) \in Events
        BY <3>1, ChannelTail DEF MerkleOK, HandlerOK
      <3>3. TxEventOK'
        BY <1>5, <3>1, <3>2, AuditAssumption DEF TxEventOK
      <3>. QED  BY <1>0, <3>1, <3>2, <3>3
    <2>2. CASE Submit \/ Subscribe
      <3>1. /\ UNCHANGED <<pending, dropped, sending>> /\ tx.at # "recv"
            /\ tx' = [tx EXCEPT !.at = "subscribe"] \/ tx' = [tx EXCEPT !.at = "wait"]
        BY <2>2 DEF Submit, Subscribe, channel
      <3>2. TxEventOK'
        BY <3>1 DEF MerkleOK, TxEventOK
      <3>. QED  BY <1>0, <3>1, <3>2
    <2>3. CASE Found \/ BlockLost \/ Block
      BY <1>0, <1>4, <1>5, <2>3 DEF Found, BlockLost, Block, channel
    <2>4. CASE SubmitFails \/ WaitFails
      <3>1. UNCHANGED channel /\ tx.at # "recv" /\ Done /\ dropped' = dropped \cup {tx.event}
        BY <2>4 DEF SubmitFails, WaitFails, Failed
      <3>. QED  BY <1>0, <1>4, <3>1 DEF channel
    <2>5. CASE Restarted
      <3>1. <<>> \in Seq(Events)
        OBVIOUS
      <3>2. pending' = <<>> /\ sending' = [t \in Tasks |-> None] /\ Done /\ dropped' = dropped
        BY <2>5 DEF Restarted
      <3>. QED  BY <1>0, <1>4, <3>1, <3>2
    <2>. QED  BY <2>1, <2>2, <2>3, <2>4, <2>5 DEF SubstrateStep, SubstrateFault
  <1>. QED  BY <1>1, <1>3, <1>6

LEMMA MerkleSubstrate ==
  ASSUME MerkleOK, SubstrateStep \/ SubstrateFault
  PROVE  MerkleOK' /\ Recorded' = Recorded
  <1>1. HandlerOK /\ WindowsOK /\ triggered \in 0 .. MaxEvents
    BY DEF MerkleOK, HandlerOK, TypeOK
  <1>2. "delete" \in Budgets
    BY DEF Budgets
  <1>3. UNCHANGED <<now, handler, database, start>> /\ UNCHANGED <<fresh, cut>>
    BY TxStep DEF merkle
  <1>. QED  BY <1>1, <1>2, <1>3, TxStep, TreeIdle DEF MerkleOK

LEMMA MerkleStepOK ==
  MerkleOK /\ [AdaptersNext]_adapters
    => MerkleOK' /\ (used["delete"] = 0 => Recorded \subseteq Recorded')
  <1>. SUFFICES ASSUME MerkleOK, [AdaptersNext]_adapters
                PROVE  MerkleOK' /\ (used["delete"] = 0 => Recorded \subseteq Recorded')
    OBVIOUS
  <1>1. CASE adapter = "substrate" /\ (SubstrateStep \/ SubstrateFault)
    BY <1>1, MerkleSubstrate
  <1>2. CASE Next /\ UNCHANGED substrate
    <2>1. TxEventOK'
      BY <1>2 DEF MerkleOK, TxEventOK, substrate
    <2>. QED  BY <1>2, <2>1, TreeStep DEF MerkleOK, TreeOK
  <1>3. CASE UNCHANGED adapters
    <2>1. UNCHANGED <<now, handler, database, start>> /\ UNCHANGED <<fresh, cut>>
          /\ UNCHANGED <<pending, sending, triggered, dropped, used, tx>>
      BY <1>3 DEF adapters, vars, substrate, history, channel
    <2>2. HandlerOK' /\ WindowsOK' /\ Recorded' = Recorded
      BY <2>1, TreeIdle DEF MerkleOK, HandlerOK, TypeOK
    <2>3. TxEventOK'
      BY <2>1 DEF MerkleOK, TxEventOK
    <2>. QED  BY <2>2, <2>3 DEF MerkleOK
  <1>. QED  BY <1>1, <1>2, <1>3
            DEF AdaptersNext, MerkleStep, SubstrateStep, SenderStep, Next

\* merkle_audit.rs: the types, and that the handler deletes only leaves whose events
\* are under the root that it has stored.
THEOREM HandlerAlways == AdaptersSpec => []HandlerOK
  <1>1. MerkleOK /\ [AdaptersNext]_adapters => MerkleOK'
    BY MerkleStepOK
  <1>2. MerkleOK => HandlerOK
    BY DEF MerkleOK
  <1>. QED  BY <1>1, <1>2, MerkleInit, PTL DEF AdaptersSpec

\* merkle_tree.rs: what is recorded stays recorded, through rotations, puts that fail
\* and restarts at every step of a rotation.
THEOREM RecordedAlways == AdaptersSpec => RecordedStays
  <1>1. MerkleOK /\ [AdaptersNext]_adapters => MerkleOK'
    BY MerkleStepOK
  <1>2. MerkleOK /\ [AdaptersNext]_adapters
          => [used["delete"] = 0 => Recorded \subseteq Recorded']_vars
    BY MerkleStepOK
  <1>. QED  BY <1>1, <1>2, MerkleInit, PTL DEF AdaptersSpec, RecordedStays

-----------------------------------------------------------------------------
(***************************************************************************)
(* What becomes of an event.  A step moves one at most from a place to the *)
(* next; only a restart empties the channel.                               *)
(***************************************************************************)
Placed == OnTheWay \cup Recorded \cup GivenAway \cup dropped

Undisturbed == used["crash"] = 0 /\ used["delete"] = 0

Elements(s) == {s[i] : i \in DOMAIN s}

LEMMA AppendElements ==
  ASSUME NEW S, NEW s \in Seq(S), NEW e \in S
  PROVE  Elements(Append(s, e)) = Elements(s) \cup {e}
  <1>1. /\ DOMAIN Append(s, e) = 1 .. Len(s) + 1 /\ DOMAIN s = 1 .. Len(s) /\ Len(s) \in Nat
        /\ \A i \in 1 .. Len(s) : Append(s, e)[i] = s[i]
        /\ Append(s, e)[Len(s) + 1] = e
    OBVIOUS
  <1>2. /\ \A n \in Nat : n + 1 \in 1 .. n + 1
        /\ \A n \in Nat : \A i \in 1 .. n : i \in 1 .. n + 1
        /\ \A n \in Nat : \A i \in 1 .. n + 1 : i = n + 1 \/ i \in 1 .. n
    OBVIOUS
  <1>. DEFINE t == Append(s, e)
  <1>. HIDE DEF t
  <1>3. \A x \in Elements(t) : x \in Elements(s) \cup {e}
    BY <1>1, <1>2 DEF Elements, t
  <1>4. \A x \in Elements(s) \cup {e} : x \in Elements(t)
    BY <1>1, <1>2 DEF Elements, t
  <1>. QED  BY <1>3, <1>4 DEF t

LEMMA TailElements ==
  ASSUME NEW S, NEW s \in Seq(S), s # <<>>
  PROVE  Elements(s) = Elements(Tail(s)) \cup {Head(s)}
  <1>1. /\ DOMAIN s = 1 .. Len(s) /\ Len(s) \in Nat /\ Len(s) >= 1
        /\ DOMAIN Tail(s) = 1 .. Len(s) - 1
        /\ \A i \in 1 .. Len(s) - 1 : Tail(s)[i] = s[i + 1]
        /\ Head(s) = s[1]
    OBVIOUS
  <1>2. /\ \A n \in Nat : n >= 1 => 1 \in 1 .. n
        /\ \A n \in Nat : \A i \in 1 .. n - 1 : i + 1 \in 1 .. n
        /\ \A n \in Nat : \A i \in 1 .. n : i = 1 \/ (i - 1 \in 1 .. n - 1 /\ (i - 1) + 1 = i)
    OBVIOUS
  <1>. DEFINE t == Tail(s)
  <1>. HIDE DEF t
  <1>3. ASSUME NEW i \in DOMAIN s
        PROVE  s[i] \in Elements(t) \cup {Head(s)}
    <2>1. CASE i = 1
      BY <1>1, <2>1
    <2>2. CASE i # 1
      <3>1. i - 1 \in DOMAIN t /\ (i - 1) + 1 = i
        BY <1>1, <1>2, <2>2 DEF t
      <3>2. t[i - 1] = s[i]
        BY <1>1, <3>1 DEF t
      <3>. QED  BY <3>1, <3>2 DEF Elements
    <2>. QED  BY <2>1, <2>2
  <1>4. \A x \in Elements(t) \cup {Head(s)} : x \in Elements(s)
    BY <1>1, <1>2 DEF Elements, t
  <1>. QED  BY <1>3, <1>4 DEF t, Elements

\* The channel goes on to the handler that takes an event, with what it does with it.
LEMMA PlacedTaken ==
  ASSUME TypeOK, pending # <<>>
  PROVE  Elements(pending) = Elements(Tail(pending)) \cup {Head(pending)}
  BY TailElements DEF TypeOK

LEMMA PlacedHandler ==
  ASSUME MerkleOK, HandlerStep, UNCHANGED substrate, Undisturbed
  PROVE  Placed' = Placed
  <1>0. /\ UNCHANGED <<tx, submitted>> /\ HandlerOK /\ WindowsOK /\ TypeOK
        /\ Elements(submitted)' = Elements(submitted)
    BY DEF substrate, chain, MerkleOK, HandlerOK, Elements
  <1>1. CASE Recv
    <2>1. /\ pc = "recv" /\ pending # <<>> /\ event' = Head(pending) /\ pending' = Tail(pending)
          /\ UNCHANGED <<leaves, roots, dropped>>
      BY <1>1 DEF Recv, database, history
    <2>2. event = None /\ event' # None
      BY <1>0, <2>1, ChannelTail, AuditAssumption DEF HandlerOK
    <2>3. Elements(pending) = Elements(pending)' \cup {event'}
      BY <1>0, <2>1, PlacedTaken DEF Elements
    <2>4. InRoots' = InRoots
      BY <2>1 DEF InRoots
    <2>5. ({event, tx.event} \ {None})' = ({event, tx.event} \ {None}) \cup {event'}
      BY <1>0, <2>2
    <2>. QED  BY <1>0, <2>1, <2>3, <2>4, <2>5 DEF Placed, OnTheWay, InWork, GivenAway, Recorded,
                                                  Elements
  <1>2. CASE Rotate
    <2>0. UNCHANGED <<pending, leaves>> /\ pc = "rotate" /\ event # None
      BY <1>0, <1>2 DEF Rotate, channel, HandlerOK
    <2>1. CASE leaves = {}
      <3>1. event' = None /\ dropped' = dropped \cup {event} /\ roots' = roots
        BY <1>2, <2>1 DEF Rotate, Fail, Return
      <3>2. InRoots' = InRoots
        BY <3>1 DEF InRoots
      <3>. QED  BY <1>0, <2>0, <3>1, <3>2 DEF Placed, OnTheWay, InWork, GivenAway, Recorded
    <2>2. CASE leaves # {}
      <3>1. /\ roots' = [roots EXCEPT ![start] = BuildTree(leaves)]
            /\ UNCHANGED <<event, dropped>>
        BY <1>2, <2>2 DEF Rotate
      <3>2. EventsOf(BuildTree(leaves)) = leaves
        BY <1>0, <2>2, RootIs DEF TypeOK
      <3>3. start \in Times /\ roots[start] = None
        <4>1. start \in Times /\ ~(start < start)
          BY <1>0 DEF TypeOK, Times
        <4>. QED  BY <1>0, <2>0, <4>1 DEF WindowsOK, Undisturbed
      <3>4. /\ roots'[start] = BuildTree(leaves)
            /\ \A w \in Times : w # start => roots'[w] = roots[w]
            /\ EventsOf(roots[start]) = {}
        BY <1>0, <3>1, <3>3 DEF TypeOK, EventsOf
      <3>5. \A e \in InRoots' : e \in InRoots \cup leaves
        BY <3>2, <3>4 DEF InRoots
      <3>6. \A e \in InRoots \cup leaves : e \in InRoots'
        BY <3>2, <3>3, <3>4 DEF InRoots
      <3>7. InRoots' = InRoots \cup leaves
        BY <3>5, <3>6
      <3>. QED  BY <1>0, <2>0, <3>1, <3>7 DEF Placed, OnTheWay, InWork, GivenAway, Recorded
    <2>. QED  BY <2>1, <2>2
  <1>3. CASE Clear
    <2>1. /\ UNCHANGED <<pending, event, roots, dropped>> /\ pc = "clear"
          /\ leaves' = leaves \ {First(todo)}
          /\ leaves \subseteq EventsOf(roots[start]) /\ start \in Times
      BY <1>0, <1>3 DEF Clear, channel, history, HandlerOK, TypeOK
    <2>2. InRoots' = InRoots /\ leaves \subseteq InRoots
      BY <2>1 DEF InRoots
    <2>3. leaves' \cup InRoots' = leaves \cup InRoots
      BY <2>1, <2>2
    <2>. QED  BY <1>0, <2>1, <2>3 DEF Placed, OnTheWay, InWork, GivenAway, Recorded
  <1>4. CASE NewWindow
    <2>1. UNCHANGED <<pending, event, leaves, roots, dropped>>
      BY <1>4 DEF NewWindow, channel, database, history
    <2>. QED  BY <1>0, <2>1 DEF Placed, OnTheWay, InWork, GivenAway, Recorded, InRoots
  <1>5. CASE PutLeaf
    <2>1. /\ UNCHANGED <<pending, roots, dropped>> /\ pc = "leaf"
          /\ leaves' = leaves \cup {event} /\ event' = None
      BY <1>5 DEF PutLeaf, channel, Return
    <2>2. event # None /\ InRoots' = InRoots
      BY <1>0, <2>1 DEF HandlerOK, InRoots
    <2>. QED  BY <1>0, <2>1, <2>2 DEF Placed, OnTheWay, InWork, GivenAway, Recorded
  <1>. QED  BY <1>1, <1>2, <1>3, <1>4, <1>5 DEF HandlerStep

\* A transaction more.
LEMMA PlacedSubmit ==
  ASSUME OrderOK, tx.at = "submit", submitted' = Append(submitted, tx.event)
  PROVE  GivenAway' = GivenAway \cup {tx.event}
  <1>1. submitted \in Seq(Nat) /\ tx.event \in Nat
    BY DEF OrderOK, ChainOK, TxOK
  <1>2. Elements(submitted') = Elements(submitted) \cup {tx.event}
    BY <1>1, AppendElements
  <1>. QED  BY <1>2 DEF GivenAway, Elements

LEMMA PlacedProcess ==
  ASSUME MerkleOK, OrderOK, SubstrateStep \/ SubstrateFault, ~Restarted
  PROVE  Placed' = Placed
  <1>0. UNCHANGED <<event, leaves, roots>> /\ Recorded' = Recorded
    BY TxStep, MerkleSubstrate DEF merkle, handler, database
  <1>1. /\ tx.at = "recv" <=> tx.event = None
        /\ tx.at \in {"subscribe", "wait"} => tx.event \in GivenAway
    <2>1. submitted \in Seq(Nat)
      BY DEF OrderOK, ChainOK
    <2>2. submitted # <<>> => Len(submitted) \in DOMAIN submitted
      BY <2>1
    <2>. QED  BY <2>2 DEF MerkleOK, TxEventOK, OrderOK, SubmittedInOrder, GivenAway
  <1>2. Done => tx'.event = None
    BY DEF Done, Receiving
  <1>3. CASE TakeEvent
    <2>1. /\ tx.at = "recv" /\ pending # <<>> /\ pending' = Tail(pending)
          /\ submitted' = submitted
          /\ \/ tx' = [at |-> "submit", event |-> Head(pending)] /\ dropped' = dropped
             \/ tx' = tx /\ dropped' = dropped \cup {Head(pending)}
      BY <1>3 DEF TakeEvent, chain
    <2>2. Elements(pending) = Elements(Tail(pending)) \cup {Head(pending)}
      BY <2>1, PlacedTaken DEF MerkleOK, HandlerOK
    <2>3. Head(pending) # None
      BY <2>1, ChannelTail, AuditAssumption DEF MerkleOK, HandlerOK
    <2>4. GivenAway' = GivenAway
      BY <2>1 DEF GivenAway
    <2>5. Elements(pending) = Elements(pending)' \cup {Head(pending)}
      BY <2>1, <2>2 DEF Elements
    <2>6. CASE tx'.event = Head(pending) /\ dropped' = dropped
      BY <1>0, <1>1, <2>1, <2>3, <2>4, <2>5, <2>6 DEF Placed, OnTheWay, InWork, Elements
    <2>7. CASE tx' = tx /\ dropped' = dropped \cup {Head(pending)}
      BY <1>0, <1>1, <2>1, <2>4, <2>5, <2>7 DEF Placed, OnTheWay, InWork, Elements
    <2>. QED  BY <2>1, <2>6, <2>7
  <1>4. CASE Submit
    <2>1. /\ tx.at = "submit" /\ submitted' = Append(submitted, tx.event)
          /\ tx' = [tx EXCEPT !.at = "subscribe"] /\ UNCHANGED <<pending, dropped>>
      BY <1>4 DEF Submit, channel
    <2>2. tx'.event = tx.event /\ tx.event # None
      BY <1>1, <2>1 DEF MerkleOK, TxEventOK
    <2>3. GivenAway' = GivenAway \cup {tx.event}
      BY <2>1, PlacedSubmit
    <2>. QED  BY <1>0, <2>1, <2>2, <2>3 DEF Placed, OnTheWay, InWork
  <1>5. CASE Subscribe \/ Block \/ (BlockLost /\ UNCHANGED tx)
    <2>1. tx'.event = tx.event /\ UNCHANGED <<pending, dropped, submitted>>
      BY <1>5 DEF Subscribe, Block, BlockLost, channel, chain, MerkleOK, TxEventOK
    <2>. QED  BY <1>0, <2>1 DEF Placed, OnTheWay, InWork, GivenAway
  <1>6. CASE Found \/ (BlockLost /\ Done)
    <2>1. tx.at = "wait" /\ Done /\ UNCHANGED <<pending, dropped, submitted>>
      BY <1>6 DEF Found, BlockLost, channel, chain
    <2>. QED  BY <1>0, <1>1, <1>2, <2>1 DEF Placed, OnTheWay, InWork, GivenAway
  <1>7. CASE SubmitFails \/ WaitFails
    <2>1. /\ tx.at # "recv" /\ Done /\ dropped' = dropped \cup {tx.event} /\ pending' = pending
          /\ \/ submitted' = submitted
             \/ tx.at = "submit" /\ submitted' = Append(submitted, tx.event)
      BY <1>7 DEF SubmitFails, WaitFails, Failed, channel, chain
    <2>2. GivenAway' = GivenAway \/ GivenAway' = GivenAway \cup {tx.event}
      BY <2>1, PlacedSubmit DEF GivenAway
    <2>. QED  BY <1>0, <1>1, <1>2, <2>1, <2>2 DEF Placed, OnTheWay, InWork
  <1>. QED  BY <1>3, <1>4, <1>5, <1>6, <1>7 DEF SubstrateStep, SubstrateFault, BlockLost

LEMMA PlacedTrigger ==
  ASSUME OrderOK, NEW t \in Tasks, Trigger(t), UNCHANGED substrate
  PROVE  Placed' = Placed \cup {triggered + 1} /\ 1 .. triggered' = 1 .. triggered \cup {triggered + 1}
  <1>1. /\ pending' = Append(pending, triggered + 1) /\ triggered' = triggered + 1
        /\ UNCHANGED <<event, leaves, roots, dropped, tx, submitted>>
    BY DEF Trigger, handler, database, history, substrate, chain
  <1>2. pending \in Seq(Nat) /\ triggered \in Nat
    BY DEF OrderOK, QueueOK
  <1>3. Elements(pending') = Elements(pending) \cup {triggered + 1}
    BY <1>1, <1>2, AppendElements
  <1>4. 1 .. triggered' = 1 .. triggered \cup {triggered + 1}
    BY <1>1, <1>2
  <1>. QED  BY <1>1, <1>3, <1>4
            DEF Placed, OnTheWay, InWork, GivenAway, Recorded, InRoots, Elements

\* The steps that are not those of an adapter, and the puts that fail.
LEMMA PlacedOther ==
  ASSUME MerkleOK, UNCHANGED substrate,
         Tick \/ PutFails \/ UNCHANGED vars \/ \E t \in Tasks : Sent(t)
  PROVE  Placed' = Placed /\ triggered' = triggered
  <1>0. UNCHANGED <<tx, submitted, leaves, roots, pending, triggered>>
    BY DEF substrate, chain, Tick, PutFails, vars, Sent, channel, handler, database, history
  <1>1. CASE UNCHANGED <<event, dropped>>
    BY <1>0, <1>1 DEF Placed, OnTheWay, InWork, GivenAway, Recorded, InRoots
  <1>2. CASE PutFails
    <2>1. event # None /\ event' = None /\ dropped' = dropped \cup {event}
      BY <1>2 DEF PutFails, Fail, Return, MerkleOK, HandlerOK
    <2>. QED  BY <1>0, <2>1 DEF Placed, OnTheWay, InWork, GivenAway, Recorded, InRoots
  <1>. QED  BY <1>1, <1>2 DEF Tick, vars, Sent, handler, history

AccountedOK == MerkleOK /\ OrderOK /\ EveryEventIsAccounted

LEMMA AccountedStep == AccountedOK /\ [AdaptersNext]_adapters => EveryEventIsAccounted'
  <1>. SUFFICES ASSUME AccountedOK, [AdaptersNext]_adapters, Undisturbed'
                PROVE  1 .. triggered' = Placed'
    BY DEF EveryEventIsAccounted, Undisturbed, Placed, OnTheWay, InWork, GivenAway, Recorded, InRoots
  <1>0. MerkleOK /\ OrderOK /\ (Undisturbed => 1 .. triggered = Placed)
    BY DEF AccountedOK, EveryEventIsAccounted, Undisturbed, Placed
  <1>1. used \in [Budgets -> Nat] /\ "crash" \in Budgets /\ "delete" \in Budgets /\ "put" \in Budgets
    BY <1>0 DEF MerkleOK, HandlerOK, TypeOK, Budgets
  <1>2. ~Restart /\ ~Restarted /\ ~DeleteFails
    BY <1>1, SpendKeeps DEF Restart, Restarted, DeleteFails, Undisturbed
  <1>3. CASE adapter = "substrate" /\ (SubstrateStep \/ SubstrateFault)
    <2>1. Undisturbed
      BY <1>0, <1>1, <1>3, TxStep DEF Undisturbed
    <2>2. Placed' = Placed /\ triggered' = triggered
      BY <1>0, <1>2, <1>3, PlacedProcess, TxStep
    <2>. QED  BY <1>0, <2>1, <2>2
  <1>4. CASE HandlerStep /\ UNCHANGED substrate
    <2>1. UNCHANGED <<used, triggered>>
      BY <1>4 DEF HandlerStep, Recv, Rotate, Clear, NewWindow, PutLeaf, channel
    <2>2. Undisturbed
      BY <2>1 DEF Undisturbed
    <2>. QED  BY <1>0, <1>4, <2>1, <2>2, PlacedHandler
  <1>5. CASE UNCHANGED substrate /\ \E t \in Tasks : Trigger(t)
    <2>1. Undisturbed
      BY <1>5 DEF Undisturbed, Trigger
    <2>. QED  BY <1>0, <1>5, <2>1, PlacedTrigger
  <1>6. CASE UNCHANGED substrate /\ (Tick \/ PutFails \/ UNCHANGED vars \/ \E t \in Tasks : Sent(t))
    <2>1. used' = used \/ Spend("put")
      BY <1>6 DEF Tick, PutFails, vars, Sent
    <2>2. Undisturbed
      BY <1>1, <2>1, SpendKeeps DEF Undisturbed
    <2>. QED  BY <1>0, <1>6, <2>2, PlacedOther
  <1>7. UNCHANGED adapters => UNCHANGED substrate /\ UNCHANGED vars
    BY DEF adapters
  <1>. QED  BY <1>2, <1>3, <1>4, <1>5, <1>6, <1>7
            DEF AdaptersNext, MerkleStep, SubstrateStep, SenderStep

\* Of both adapters: as long as the server does not stop and no delete fails, no event
\* gets lost between the channel, the handler, the database or the chain, and the
\* errors that are printed.
THEOREM AccountedAlways == AdaptersSpec => []EveryEventIsAccounted
  <1>1. AdaptersInit => EveryEventIsAccounted
    <2>. SUFFICES ASSUME AdaptersInit
                  PROVE  1 .. triggered = Placed
      BY DEF EveryEventIsAccounted, Placed
    <2>1. InRoots = {}
      BY DEF AdaptersInit, Init, InRoots, EventsOf
    <2>2. 1 .. 0 = {}
      OBVIOUS
    <2>. QED  BY <2>1, <2>2 DEF AdaptersInit, Init, Receiving, Placed, OnTheWay, InWork, GivenAway,
                                Recorded
  <1>2. AdaptersInit => AccountedOK
    BY <1>1, MerkleInit, OrderInit DEF AccountedOK
  <1>3. AccountedOK /\ [AdaptersNext]_adapters => AccountedOK'
    BY MerkleStepOK, OrderStep, AccountedStep DEF AccountedOK
  <1>4. AccountedOK => EveryEventIsAccounted
    BY DEF AccountedOK
  <1>. QED  BY <1>2, <1>3, <1>4, PTL DEF AdaptersSpec

-----------------------------------------------------------------------------
(***************************************************************************)
(* The order of what is recorded.  The events go from the channel through  *)
(* the handler to the leaves and on to the roots of later and later        *)
(* windows, and never past one another.                                    *)
(***************************************************************************)
RootsOK ==
  /\ \A w \in Times : roots[w] # None => roots[w] # <<>> /\ Increasing(roots[w])
  /\ \A v, w \in Times : v < w =>
       \A e \in EventsOf(roots[v]), f \in EventsOf(roots[w]) : e < f

RecordOK ==
  /\ pc # "clear" => \A e \in InRoots, f \in leaves : e < f
  /\ \A e \in Recorded :
       /\ event # None => e < event
       /\ e <= triggered
       /\ \A i \in DOMAIN pending : e < pending[i]
  /\ event # None =>
       /\ event <= triggered
       /\ \A i \in DOMAIN pending : event < pending[i]

OrderedOK == ~cut => used["delete"] = 0 /\ RootsOK /\ RecordOK

\* What the handler has in its hands.
LEMMA OrderedTypes ==
  ASSUME MerkleOK, OrderOK
  PROVE  /\ leaves \subseteq Nat /\ InRoots \subseteq Nat /\ Recorded \subseteq Nat
         /\ event # None => event \in Nat
         /\ triggered \in Nat /\ pending \in Seq(Nat) /\ Increasing(pending)
         /\ \A i \in DOMAIN pending : pending[i] \in Nat /\ pending[i] <= triggered
         /\ \A w \in Times : EventsOf(roots[w]) \subseteq Nat
         /\ start \in Times
  <1>1. /\ TypeOK /\ Events \subseteq Nat /\ triggered \in Nat /\ pending \in Seq(Nat)
        /\ Increasing(pending) /\ \A i \in DOMAIN pending : pending[i] <= triggered
    BY DEF MerkleOK, HandlerOK, OrderOK, QueueOK, Events
  <1>2. ASSUME NEW w \in Times
        PROVE  EventsOf(roots[w]) \subseteq Nat
    <2>1. roots[w] \in Seq(Events) \/ roots[w] = None
      BY <1>1 DEF TypeOK, Node
    <2>2. \A s \in Seq(Events) : \A i \in DOMAIN s : s[i] \in Events
      OBVIOUS
    <2>. QED  BY <1>1, <2>1, <2>2 DEF EventsOf
  <1>3. InRoots \subseteq Nat
    BY <1>2 DEF InRoots
  <1>4. leaves \subseteq Nat /\ start \in Times /\ (event # None => event \in Nat)
    BY <1>1 DEF TypeOK
  <1>. QED  BY <1>1, <1>2, <1>3, <1>4 DEF Recorded

LEMMA OrderedInit == AdaptersInit => OrderedOK
  <1>. SUFFICES ASSUME AdaptersInit
                PROVE  OrderedOK
    OBVIOUS
  <1>1. /\ \A w \in Times : roots[w] = None
        /\ leaves = {} /\ used["delete"] = 0 /\ event = None
    BY DEF AdaptersInit, Init, Budgets
  <1>2. \A w \in Times : EventsOf(roots[w]) = {}
    BY <1>1 DEF EventsOf
  <1>3. InRoots = {} /\ Recorded = {}
    BY <1>1, <1>2 DEF InRoots, Recorded
  <1>. QED  BY <1>1, <1>2, <1>3 DEF OrderedOK, RootsOK, RecordOK

\* The handler and the database do not change, and the channel keeps the order.
LEMMA OrderedIdle ==
  ASSUME OrderedOK, UNCHANGED <<pc, event, leaves, roots, cut>>,
         used'["delete"] = used["delete"], triggered \in Nat,
         Recorded \subseteq Nat, event # None => event \in Nat,
         triggered' \in {triggered, triggered + 1},
         \A j \in DOMAIN pending' :
           \/ \E i \in DOMAIN pending : pending'[j] = pending[i]
           \/ pending'[j] = triggered + 1
  PROVE  OrderedOK'
  <1>. SUFFICES ASSUME ~cut
                PROVE  used'["delete"] = 0 /\ RootsOK' /\ RecordOK'
    BY DEF OrderedOK
  <1>1. used["delete"] = 0 /\ RootsOK /\ RecordOK
    BY DEF OrderedOK
  <1>2. InRoots' = InRoots /\ Recorded' = Recorded /\ RootsOK'
    BY <1>1 DEF InRoots, Recorded, RootsOK
  <1>3. ASSUME NEW e \in Nat, e <= triggered, \A i \in DOMAIN pending : e < pending[i]
        PROVE  e <= triggered' /\ \A j \in DOMAIN pending' : e < pending'[j]
    BY <1>3
  <1>4. RecordOK'
    BY <1>1, <1>2, <1>3 DEF RecordOK
  <1>. QED  BY <1>1, <1>2, <1>4

LEMMA OrderedRecv ==
  ASSUME MerkleOK, OrderOK, OrderedOK, Recv
  PROVE  OrderedOK'
  <1>. SUFFICES ASSUME ~cut'
                PROVE  used'["delete"] = 0 /\ RootsOK' /\ RecordOK'
    BY DEF OrderedOK
  <1>1. /\ pending # <<>> /\ event' = Head(pending) /\ pending' = Tail(pending) /\ pc = "recv"
        /\ UNCHANGED <<triggered, leaves, roots, used, cut>>
    BY DEF Recv, database, history
  <1>2. used["delete"] = 0 /\ RootsOK /\ RecordOK
    BY <1>1 DEF OrderedOK
  <1>3. InRoots' = InRoots /\ Recorded' = Recorded /\ RootsOK'
    BY <1>1, <1>2 DEF InRoots, Recorded, RootsOK
  <1>4. /\ Head(pending) = pending[1] /\ 1 \in DOMAIN pending
        /\ \A i \in DOMAIN Tail(pending) :
             i + 1 \in DOMAIN pending /\ Tail(pending)[i] = pending[i + 1]
    <2>1. pending \in Seq(Nat)
      BY OrderedTypes
    <2>. QED  BY <1>1, <2>1
  <1>5. /\ Head(pending) <= triggered
        /\ \A i \in DOMAIN Tail(pending) : Head(pending) < Tail(pending)[i]
    BY <1>1, OrderTail
  <1>. QED  BY <1>1, <1>2, <1>3, <1>4, <1>5 DEF RecordOK

LEMMA OrderedFail ==
  ASSUME OrderedOK, pc # "clear", event' = None,
         UNCHANGED <<pending, triggered, leaves, roots, cut>>,
         used'["delete"] = used["delete"]
  PROVE  OrderedOK'
  <1>. SUFFICES ASSUME ~cut
                PROVE  used'["delete"] = 0 /\ RootsOK' /\ RecordOK'
    BY DEF OrderedOK
  <1>1. used["delete"] = 0 /\ RootsOK /\ RecordOK
    BY DEF OrderedOK
  <1>2. InRoots' = InRoots /\ Recorded' = Recorded /\ RootsOK'
    BY <1>1 DEF InRoots, Recorded, RootsOK
  <1>. QED  BY <1>1, <1>2 DEF RecordOK

\* The root of the window has what came after the roots that there were.
LEMMA OrderedRotate ==
  ASSUME MerkleOK, OrderOK, OrderedOK, Rotate
  PROVE  OrderedOK'
  <1>1. CASE leaves = {}
    <2>1. /\ pc # "clear" /\ event' = None /\ UNCHANGED used
          /\ UNCHANGED <<pending, triggered, leaves, roots, cut>>
      BY <1>1 DEF Rotate, Fail, Return, channel
    <2>. QED  BY <2>1, OrderedFail
  <1>2. CASE leaves # {}
    <2>. SUFFICES ASSUME ~cut
                  PROVE  used'["delete"] = 0 /\ RootsOK' /\ RecordOK'
      BY DEF OrderedOK, Rotate
    <2>1. /\ roots' = [roots EXCEPT ![start] = BuildTree(leaves)] /\ pc' = "clear" /\ pc = "rotate"
          /\ UNCHANGED <<event, pending, triggered, leaves, used, cut>>
      BY <1>2 DEF Rotate, channel
    <2>2. used["delete"] = 0 /\ RootsOK /\ RecordOK /\ leaves \subseteq Events
      BY DEF OrderedOK, MerkleOK, HandlerOK, TypeOK
    <2>3. /\ BuildTree(leaves) # <<>> /\ BuildTree(leaves) # None /\ Increasing(BuildTree(leaves))
          /\ EventsOf(BuildTree(leaves)) = leaves
      BY <1>2, <2>2, RootIs
    <2>4. /\ start \in Times /\ roots'[start] = BuildTree(leaves)
          /\ \A w \in Times : w # start => roots'[w] = roots[w]
      BY <2>1 DEF MerkleOK, HandlerOK, TypeOK
    <2>5. /\ \A w \in Times : roots[w] # None => w < start
          /\ \A w \in Times : ~(w < start) => EventsOf(roots[w]) = {}
      BY <2>1, <2>2 DEF MerkleOK, WindowsOK, EventsOf
    <2>6. \A e \in InRoots, f \in leaves : e < f
      BY <2>1, <2>2 DEF RecordOK
    <2>7. RootsOK'
      <3>1. \A w \in Times : roots'[w] # None => roots'[w] # <<>> /\ Increasing(roots'[w])
        BY <2>2, <2>3, <2>4 DEF RootsOK
      <3>2. ASSUME NEW v \in Times, NEW w \in Times, v < w,
                   NEW e \in EventsOf(roots'[v]), NEW f \in EventsOf(roots'[w])
            PROVE  e < f
        <4>1. CASE v # start /\ w # start
          BY <2>2, <2>4, <3>2, <4>1 DEF RootsOK
        <4>2. CASE w = start
          <5>1. v # start
            BY <3>2, <4>2 DEF Times
          <5>2. e \in InRoots
            BY <2>4, <3>2, <5>1 DEF InRoots
          <5>. QED  BY <2>3, <2>4, <2>6, <3>2, <4>2, <5>2
        <4>3. CASE v = start
          <5>1. w # start /\ ~(w < start)
            BY <2>4, <3>2, <4>3 DEF Times
          <5>. QED  BY <2>4, <2>5, <3>2, <5>1
        <4>. QED  BY <4>1, <4>2, <4>3
      <3>3. \A v, w \in Times : v < w =>
              \A e \in EventsOf(roots'[v]), f \in EventsOf(roots'[w]) : e < f
        BY <3>2
      <3>4. EventsOf(roots[start])' = EventsOf(roots'[start'])
        BY DEF EventsOf
      <3>. QED  BY <3>1, <3>3 DEF RootsOK, EventsOf
    <2>8. \A e \in InRoots' : e \in InRoots \cup leaves
      BY <2>3, <2>4 DEF InRoots, EventsOf
    <2>9. \A e \in Recorded' : e \in Recorded
      BY <2>1, <2>8 DEF Recorded
    <2>10. RecordOK'
      BY <2>1, <2>2, <2>9 DEF RecordOK
    <2>. QED  BY <2>1, <2>2, <2>7, <2>10
  <1>. QED  BY <1>1, <1>2

LEMMA OrderedClear ==
  ASSUME MerkleOK, OrderedOK, Clear
  PROVE  OrderedOK'
  <1>. SUFFICES ASSUME ~cut
                PROVE  used'["delete"] = 0 /\ RootsOK' /\ RecordOK'
    BY DEF OrderedOK, Clear, history
  <1>1. /\ leaves' \subseteq leaves /\ pc = "clear"
        /\ UNCHANGED <<event, pc, pending, triggered, roots, used, cut>>
    BY DEF Clear, channel, history
  <1>2. used["delete"] = 0 /\ RootsOK /\ RecordOK
    BY DEF OrderedOK
  <1>3. InRoots' = InRoots /\ RootsOK' /\ \A e \in Recorded' : e \in Recorded
    BY <1>1, <1>2 DEF InRoots, Recorded, RootsOK
  <1>. QED  BY <1>1, <1>2, <1>3 DEF RecordOK

LEMMA OrderedNewWindow ==
  ASSUME MerkleOK, OrderedOK, NewWindow
  PROVE  OrderedOK'
  <1>. SUFFICES ASSUME ~cut
                PROVE  used'["delete"] = 0 /\ RootsOK' /\ RecordOK'
    BY DEF OrderedOK, NewWindow, history
  <1>1. /\ leaves = {} /\ UNCHANGED <<event, pending, triggered, leaves, roots, used, cut>>
    BY DEF NewWindow, channel, database, history, MerkleOK, HandlerOK
  <1>2. used["delete"] = 0 /\ RootsOK /\ RecordOK
    BY DEF OrderedOK
  <1>3. InRoots' = InRoots /\ RootsOK' /\ Recorded' = Recorded
    BY <1>1, <1>2 DEF InRoots, Recorded, RootsOK
  <1>. QED  BY <1>1, <1>2, <1>3 DEF RecordOK

\* The leaf of an event comes after those that there are.
LEMMA OrderedPutLeaf ==
  ASSUME MerkleOK, OrderedOK, PutLeaf
  PROVE  OrderedOK'
  <1>. SUFFICES ASSUME ~cut
                PROVE  used'["delete"] = 0 /\ RootsOK' /\ RecordOK'
    BY DEF OrderedOK, PutLeaf
  <1>1. /\ pc = "leaf" /\ event # None /\ leaves' = leaves \cup {event} /\ event' = None
        /\ UNCHANGED <<pending, triggered, roots, used, cut>>
    BY DEF PutLeaf, Return, channel, MerkleOK, HandlerOK
  <1>2. used["delete"] = 0 /\ RootsOK /\ RecordOK
    BY DEF OrderedOK
  <1>3. InRoots' = InRoots /\ RootsOK' /\ Recorded' = Recorded \cup {event}
    BY <1>1, <1>2 DEF InRoots, Recorded, RootsOK
  <1>4. \A e \in InRoots : e < event
    BY <1>1, <1>2 DEF RecordOK, Recorded
  <1>. QED  BY <1>1, <1>2, <1>3, <1>4 DEF RecordOK

\* A restart empties the channel; one in the middle of a rotation cuts it off.
LEMMA OrderedRestart ==
  ASSUME MerkleOK, OrderedOK, Restart
  PROVE  OrderedOK'
  <1>. SUFFICES ASSUME ~cut'
                PROVE  used'["delete"] = 0 /\ RootsOK' /\ RecordOK'
    BY DEF OrderedOK
  <1>1. /\ ~cut /\ pc # "clear" /\ event' = None /\ pending' = <<>>
        /\ UNCHANGED <<triggered, leaves, roots>> /\ Spend("crash")
    BY DEF Restart, Return, database
  <1>2. used["delete"] = 0 /\ RootsOK /\ RecordOK
    BY <1>1 DEF OrderedOK
  <1>3. used'["delete"] = 0
    BY <1>1, <1>2 DEF Spend, MerkleOK, HandlerOK, TypeOK, Budgets
  <1>4. InRoots' = InRoots /\ RootsOK' /\ Recorded' = Recorded
    BY <1>1, <1>2 DEF InRoots, Recorded, RootsOK
  <1>. QED  BY <1>1, <1>2, <1>3, <1>4 DEF RecordOK

LEMMA OrderedSubstrate ==
  ASSUME MerkleOK, OrderOK, OrderedOK, SubstrateStep \/ SubstrateFault
  PROVE  OrderedOK'
  <1>1. /\ UNCHANGED <<pc, event, leaves, roots, cut>> /\ triggered' = triggered
        /\ triggered \in Nat /\ Recorded \subseteq Nat /\ (event # None => event \in Nat)
    BY TxStep, OrderedTypes DEF merkle, handler, database
  <1>2. used'["delete"] = used["delete"]
    <2>1. used' = used \/ Spend("put") \/ Spend("crash")
      BY DEF SubstrateStep, TakeEvent, Submit, Subscribe, Found, SubstrateFault, Block,
             SubmitFails, WaitFails, BlockLost, Restarted
    <2>2. used \in [Budgets -> Nat] /\ "delete" \in Budgets
      BY DEF MerkleOK, HandlerOK, TypeOK, Budgets
    <2>. QED  BY <2>1, <2>2 DEF Spend
  <1>3. \A j \in DOMAIN pending' : \E i \in DOMAIN pending : pending'[j] = pending[i]
    <2>1. \/ pending' = pending \/ pending' = <<>>
          \/ pending # <<>> /\ pending' = Tail(pending)
      BY DEF SubstrateStep, TakeEvent, Submit, Subscribe, Found, SubstrateFault, Block,
             SubmitFails, WaitFails, BlockLost, Restarted, channel
    <2>2. pending \in Seq(Nat)
      BY OrderedTypes
    <2>3. pending # <<>> => \A j \in DOMAIN Tail(pending) :
            j + 1 \in DOMAIN pending /\ Tail(pending)[j] = pending[j + 1]
      BY <2>2
    <2>. QED  BY <2>1, <2>3
  <1>. QED  BY <1>1, <1>2, <1>3, OrderedIdle

LEMMA OrderedSenders ==
  ASSUME MerkleOK, OrderOK, OrderedOK, NEW t \in Tasks, Trigger(t) \/ Sent(t)
  PROVE  OrderedOK'
  <1>1. /\ UNCHANGED <<pc, event, leaves, roots, cut, used>> /\ triggered \in Nat
        /\ Recorded \subseteq Nat /\ (event # None => event \in Nat) /\ pending \in Seq(Nat)
    BY OrderedTypes DEF Trigger, Sent, handler, database, history
  <1>2. \/ UNCHANGED <<pending, triggered>>
        \/ pending' = Append(pending, triggered + 1) /\ triggered' = triggered + 1
    BY DEF Trigger, Sent
  <1>3. \A j \in DOMAIN Append(pending, triggered + 1) :
          \/ j \in DOMAIN pending /\ Append(pending, triggered + 1)[j] = pending[j]
          \/ Append(pending, triggered + 1)[j] = triggered + 1
    BY <1>1
  <1>4. \A j \in DOMAIN pending' :
          \/ \E i \in DOMAIN pending : pending'[j] = pending[i]
          \/ pending'[j] = triggered + 1
    BY <1>2, <1>3
  <1>. QED  BY <1>1, <1>2, <1>4, OrderedIdle

LEMMA OrderedFaults ==
  ASSUME MerkleOK, OrderedOK, PutFails \/ DeleteFails
  PROVE  OrderedOK'
  <1>1. CASE PutFails
    <2>1. /\ pc # "clear" /\ event' = None /\ Spend("put")
          /\ UNCHANGED <<pending, triggered, leaves, roots, cut>>
      BY <1>1 DEF PutFails, Fail, Return, channel, database
    <2>2. used'["delete"] = used["delete"]
      BY <2>1 DEF Spend, MerkleOK, HandlerOK, TypeOK, Budgets
    <2>. QED  BY <2>1, <2>2, OrderedFail
  <1>2. CASE DeleteFails
    BY <1>2 DEF DeleteFails, OrderedOK
  <1>. QED  BY <1>1, <1>2

OrderedInv == MerkleOK /\ OrderOK /\ OrderedOK

LEMMA OrderedStep == OrderedInv /\ [AdaptersNext]_adapters => OrderedOK'
  <1>. SUFFICES ASSUME OrderedInv, [AdaptersNext]_adapters
                PROVE  OrderedOK'
    OBVIOUS
  <1>0. MerkleOK /\ OrderOK /\ OrderedOK
    BY DEF OrderedInv
  <1>1. CASE HandlerStep
    BY <1>0, <1>1, OrderedRecv, OrderedRotate, OrderedClear, OrderedNewWindow, OrderedPutLeaf
       DEF HandlerStep
  <1>2. CASE Tick \/ UNCHANGED adapters
    <2>1. UNCHANGED <<pc, event, leaves, roots, cut, used, pending, triggered>>
      BY <1>2 DEF Tick, adapters, vars, channel, handler, database, history
    <2>. QED  BY <1>0, <2>1, OrderedTypes, OrderedIdle
  <1>. QED  BY <1>0, <1>1, <1>2, OrderedSubstrate, OrderedSenders, OrderedFaults, OrderedRestart
            DEF AdaptersNext, MerkleStep, SubstrateStep, SenderStep

LEMMA WindowsOrdered == OrderedInv => WindowsInOrder
  <1>. SUFFICES ASSUME OrderedInv, ~cut
                PROVE  /\ VerifyHistoricalConsistency
                       /\ \A w \in Times : roots[w] # None => Increasing(roots[w])
                       /\ \A v, w \in Times : v < w =>
                            \A e \in EventsOf(roots[v]), f \in EventsOf(roots[w]) : e < f
                       /\ pc # "clear" => \A e \in InRoots, f \in leaves : e < f
                       /\ \A i \in DOMAIN pending : \A e \in Recorded : e < pending[i]
    BY DEF WindowsInOrder
  <1>1. RootsOK /\ RecordOK /\ MerkleOK /\ OrderOK
    BY DEF OrderedInv, OrderedOK
  <1>2. ASSUME NEW w \in Times, roots[w] # None
        PROVE  \E e \in Nat : e \in EventsOf(roots[w])
    <2>1. roots[w] \in Seq(Events) /\ roots[w] # <<>>
      BY <1>1, <1>2 DEF RootsOK, MerkleOK, HandlerOK, TypeOK, Node
    <2>2. \A s \in Seq(Events) : s # <<>> => 1 \in DOMAIN s /\ s[1] \in Events
      OBVIOUS
    <2>3. 1 \in DOMAIN roots[w] /\ roots[w][1] \in Nat
      BY <2>1, <2>2 DEF Events
    <2>. QED  BY <1>2, <2>3 DEF EventsOf
  <1>3. ASSUME NEW v \in Times, NEW w \in Times, v < w, roots[v] # None, roots[w] # None
        PROVE  roots[v] # roots[w]
    <2>1. PICK e \in Nat : e \in EventsOf(roots[v])
      BY <1>2, <1>3
    <2>2. e \in EventsOf(roots[w]) => e < e
      BY <1>1, <1>3, <2>1 DEF RootsOK
    <2>. QED  BY <2>1, <2>2
  <1>4. VerifyHistoricalConsistency
    BY <1>3 DEF VerifyHistoricalConsistency
  <1>. QED  BY <1>1, <1>4 DEF RootsOK, RecordOK

\* merkle_tree.rs: as long as no rotation was cut off, a root has the events of its
\* window once and in order, the windows follow each other as their events do, and the
\* audit reader finds the log consistent.
THEOREM WindowsAlways == AdaptersSpec => []WindowsInOrder
  <1>1. AdaptersInit => OrderedInv
    BY MerkleInit, OrderInit, OrderedInit DEF OrderedInv
  <1>2. OrderedInv /\ [AdaptersNext]_adapters => OrderedInv'
    BY MerkleStepOK, OrderStep, OrderedStep DEF OrderedInv
  <1>. QED  BY <1>1, <1>2, WindowsOrdered, PTL DEF AdaptersSpec
=============================================================================
