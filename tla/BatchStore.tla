------------------------------ MODULE BatchStore ------------------------------
(***************************************************************************)
(* What the write path of SharesFS promises, without its tasks, its locks  *)
(* and its steps.  Writes are collected in batches.  A batch is closed to  *)
(* new writers once (sealed); the writers that have it already may add to  *)
(* it still.  A sealed batch becomes the content of a path as a whole: the *)
(* content is the image of a prefix of the batch, and the prefix holds at  *)
(* least what had been added when the batch was sealed.  It does so at     *)
(* most once, and a batch may be lost before.                              *)
(*                                                                         *)
(* It is not promised that a write that was answered is stored, nor that   *)
(* the content that was there before is kept: handle_write starts an empty *)
(* batch for a file that has none (src/src/sharesfs/writing.rs:40).        *)
(***************************************************************************)
EXTENDS ChannelBuffer

CONSTANTS Channels, Paths, None

VARIABLES
  batch,     \* the chunks added to a batch, in order
  fate,      \* "open", "sealed", "stored" or "lost"
  sealed,    \* number of chunks when it was sealed
  content    \* what is stored under a path: an image, or None

vars == <<batch, fate, sealed, content>>

Init ==
  /\ batch = [c \in Channels |-> <<>>]
  /\ fate = [c \in Channels |-> "open"]
  /\ sealed = [c \in Channels |-> 0]
  /\ content = [p \in Paths |-> None]

\* Any chunk, to a batch in any state.
Add(c) ==
  /\ Len(batch'[c]) = Len(batch[c]) + 1
  /\ batch' = [batch EXCEPT ![c] = Append(@, batch'[c][Len(batch'[c])])]
  /\ UNCHANGED <<fate, sealed, content>>

Seal(c) ==
  /\ fate[c] = "open"
  /\ fate' = [fate EXCEPT ![c] = "sealed"]
  /\ sealed' = [sealed EXCEPT ![c] = Len(batch[c])]
  /\ UNCHANGED <<batch, content>>

Publish(c, p) ==
  /\ fate[c] = "sealed"
  /\ fate' = [fate EXCEPT ![c] = "stored"]
  /\ \E k \in sealed[c] .. Len(batch[c]) :
       content' = [content EXCEPT ![p] = ImageOf(batch[c], k)]
  /\ UNCHANGED <<batch, sealed>>

Lose(C) ==
  /\ \A c \in C : fate[c] # "stored"
  /\ fate' = [c \in Channels |-> IF c \in C THEN "lost" ELSE fate[c]]
  /\ UNCHANGED <<batch, sealed, content>>

Delete(p) ==
  /\ content' = [content EXCEPT ![p] = None]
  /\ UNCHANGED <<batch, fate, sealed>>

Next ==
  \/ \E c \in Channels : Add(c) \/ Seal(c) \/ \E p \in Paths : Publish(c, p)
  \/ \E C \in SUBSET Channels : Lose(C)
  \/ \E p \in Paths : Delete(p)

Spec == Init /\ [][Next]_vars
=============================================================================
