--------------------------- MODULE SubstrateAudit ---------------------------
(***************************************************************************)
(* The two audit adapters that a server can be built with, behind the      *)
(* same channel: that of AuditLog, and the one that sends every event to   *)
(* a Substrate chain as a transaction and waits for a finalized block.     *)
(*                                                                         *)
(*   src/src/audit_adapters/substrate_based_audit.rs                       *)
(*                                                                         *)
(* The chain is external: the transactions of an account are finalized in  *)
(* the order in which they were submitted, in blocks that may as well have *)
(* events of others for the same pallet.                                   *)
(***************************************************************************)
EXTENDS AuditLog

CONSTANT
  Fitting    \* the events "disassembled" and "reassembled" of a length that the
             \* pallet takes; any other one is an error

ASSUME FittingAssumption == Fitting \subseteq Events

VARIABLES
  adapter,   \* the adapter that the server was built with
  tx,        \* where process_event of the Substrate adapter is, and with which event
  submitted, \* the transactions that the node has got, by their events
  final,     \* how many of them are finalized
  latest,    \* has the latest finalized block an event of the pallet
  ready      \* has a block come from the subscription that has one

chain     == <<submitted, final, latest>>
substrate == <<adapter, tx, chain, ready>>
merkle    == <<handler, database, start, fresh, cut>>

Receiving == [at |-> "recv", event |-> None]

AdaptersInit ==
  /\ Init
  /\ adapter \in {"merkle", "substrate"}
  /\ tx = Receiving
  /\ submitted = <<>> /\ final = 0
  /\ latest = FALSE /\ ready = FALSE

-----------------------------------------------------------------------------
(***************************************************************************)
(* process_event.                                                          *)
(***************************************************************************)

\* Mutant of Done: the event is sent again.
DoneAgain ==
  /\ tx' = IF tx.event = None THEN Receiving ELSE [tx EXCEPT !.at = "submit"]
  /\ ready' = FALSE

\* process_event returns, and the handler goes on with the next event.
Done == tx' = Receiving /\ ready' = FALSE

\* process_event returns with an error, which is printed.
Failed == Done /\ dropped' = dropped \cup {tx.event}

\* Mutant of TakeEvent: nobody waits for the event before.
TakeAnother ==
  /\ pending # <<>>
  /\ pending' = Tail(pending)
  /\ tx' = [at |-> "submit", event |-> Head(pending)]
  /\ UNCHANGED <<now, sending, triggered, merkle, used, dropped, adapter, chain, ready>>

\* validate_input_lengths and the match of the type come before the first await.
TakeEvent ==
  /\ tx.at = "recv" /\ pending # <<>>
  /\ pending' = Tail(pending)
  /\ LET e == Head(pending)
     IN  IF e \in Fitting
         THEN tx' = [at |-> "submit", event |-> e] /\ UNCHANGED dropped
         ELSE dropped' = dropped \cup {e} /\ UNCHANGED tx
  /\ UNCHANGED <<now, sending, triggered, merkle, used, adapter, chain, ready>>

\* sign_and_submit_default.
Submit ==
  /\ tx.at = "submit"
  /\ submitted' = Append(submitted, tx.event)
  /\ tx' = [tx EXCEPT !.at = "subscribe"]
  /\ UNCHANGED <<now, channel, merkle, used, dropped, adapter, final, latest, ready>>

\* subscribe_finalized: the first block is the latest one or the one after it.
Subscribe ==
  /\ tx.at = "subscribe"
  /\ ready' \in {FALSE, latest}
  /\ tx' = [tx EXCEPT !.at = "wait"]
  /\ UNCHANGED <<now, channel, merkle, used, dropped, adapter, chain>>

\* A block with an event of the pallet ends the wait, whichever event that is.
Found ==
  /\ tx.at = "wait" /\ ready
  /\ Done
  /\ UNCHANGED <<now, channel, merkle, used, dropped, adapter, chain>>

-----------------------------------------------------------------------------
(***************************************************************************)
(* The chain, calls of the node that fail, and a restart.                  *)
(***************************************************************************)

\* The next block is finalized, with some of the transactions that the node has
\* got, and maybe with events of others.
Block ==
  /\ \E n \in final .. Len(submitted), others \in BOOLEAN :
       /\ final' = n
       /\ latest' = (n > final \/ others)
  /\ ready' = (ready \/ (tx.at = "wait" /\ latest'))
  /\ UNCHANGED <<now, channel, merkle, used, dropped, adapter, tx, submitted>>

\* The node may have got a transaction although the call has failed.
SubmitFails ==
  /\ tx.at = "submit"
  /\ Spend("put")
  /\ submitted' \in {submitted, Append(submitted, tx.event)}
  /\ Failed
  /\ UNCHANGED <<now, channel, merkle, adapter, final, latest>>

\* The subscription fails, or a block of it.
WaitFails ==
  /\ tx.at \in {"subscribe", "wait"}
  /\ Spend("put")
  /\ Failed
  /\ UNCHANGED <<now, channel, merkle, adapter, chain>>

\* The events of a block that cannot be read are passed over, and a subscription
\* that ends is no error.
BlockLost ==
  /\ tx.at = "wait"
  /\ Spend("put")
  /\ Done \/ (ready' = FALSE /\ UNCHANGED tx)
  /\ UNCHANGED <<now, channel, merkle, dropped, adapter, chain>>

\* What is in the channel is gone, and the transactions go on without the server.
Restarted ==
  /\ Spend("crash")
  /\ pending' = <<>>
  /\ sending' = [t \in Tasks |-> None]
  /\ Done
  /\ UNCHANGED <<now, triggered, merkle, dropped, adapter, chain>>

-----------------------------------------------------------------------------
MerkleStep    == adapter = "merkle" /\ HandlerStep /\ UNCHANGED substrate
SubstrateStep == adapter = "substrate" /\ (TakeEvent \/ Submit \/ Subscribe \/ Found)
SenderStep(t) == Sent(t) /\ UNCHANGED substrate

SubstrateFault == Block \/ SubmitFails \/ WaitFails \/ BlockLost \/ Restarted

AdaptersNext ==
  \/ \E t \in Tasks : Trigger(t) /\ UNCHANGED substrate
  \/ \E t \in Tasks : SenderStep(t)
  \/ MerkleStep
  \/ adapter = "merkle" /\ (Tick \/ PutFails \/ DeleteFails \/ Restart) /\ UNCHANGED substrate
  \/ SubstrateStep
  \/ adapter = "substrate" /\ SubstrateFault

adapters == <<vars, substrate>>

AdaptersSpec == AdaptersInit /\ [][AdaptersNext]_adapters

\* The runtime runs the handler and the senders that have room.
FairAdapters ==
  /\ AdaptersSpec
  /\ WF_adapters(MerkleStep) /\ WF_adapters(SubstrateStep)
  /\ \A t \in Tasks : WF_adapters(SenderStep(t))

-----------------------------------------------------------------------------
(***************************************************************************)
(* Properties.                                                             *)
(***************************************************************************)

\* An event is submitted to the chain once and where it belongs, whatever calls fail
\* and however often the server stops: the transactions are in the order in which the
\* events were triggered, and the handler waits for the last of them.
SubmittedInOrder ==
  /\ Increasing(submitted)
  /\ tx.at \in {"subscribe", "wait"} =>
       submitted # <<>> /\ tx.event = submitted[Len(submitted)]
  /\ tx.at = "submit" => \A i \in DOMAIN submitted : submitted[i] < tx.event

\* What has become of the events: of each adapter, where an event can be.
InWork    == {event, tx.event} \ {None}
OnTheWay  == {pending[i] : i \in DOMAIN pending} \cup InWork
GivenAway == {submitted[i] : i \in DOMAIN submitted}   \* the node has it, final or not

\* As long as the server does not stop and no delete of a leaf has failed, no event
\* gets lost without a word: one that was triggered is on its way, recorded in the
\* database, or given to the node of the chain, or an error was printed for it. After
\* a failed delete the root of what is left over may replace the one that was stored
\* (merkle_tree.rs:116 and :123), and its events are gone without a word. That what
\* the node was given becomes final is the chain's part.
EveryEventIsAccounted ==
  used["crash"] = 0 /\ used["delete"] = 0 =>
    1 .. triggered = OnTheWay \cup Recorded \cup GivenAway \cup dropped

\* The chain goes on, with events of the pallet, while the handler waits for one.
ChainGoesOn == []<>(tx.at # "wait" \/ ready)

\* A sender that waits for room in the channel returns, unless it is the chain that
\* the handler waits for and that stands still: there is no timeout.
SendersGoOn == ChainGoesOn => SendersReturn

\* substrate_based_audit.rs:163: "Exit after finding our event".  Then the handler
\* takes the next event only when the one before is final or has failed.
WaitsForItsOwn ==
  [][tx.at = "wait" /\ tx' = Receiving /\ used' = used => final = Len(submitted)]_adapters
=============================================================================
