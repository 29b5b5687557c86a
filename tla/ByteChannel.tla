---------------------------- MODULE ByteChannel ----------------------------
(***************************************************************************)
(* The byte-bounded channel of                                             *)
(* crates/pjs-core/src/infrastructure/bounded_channel.rs as a value: a     *)
(* tokio mpsc queue of at most item_capacity envelopes and a semaphore of  *)
(* max_queued_bytes permits, of which every envelope carries its share.    *)
(***************************************************************************)
EXTENDS Integers, Sequences, SequencesExt, FiniteSetsExt, Totals

CONSTANTS
  item_capacity,       \* bound on queued messages
  max_queued_bytes     \* byte budget of the channel

ASSUME ChannelAssumption ==
  item_capacity \in Nat \ {0} /\ max_queued_bytes \in Nat

(* free is what the semaphore has not handed to an envelope. *)
NewChannel == [queue |-> <<>>, free |-> max_queued_bytes, open |-> TRUE]

permits_for_Exact(payload_len) == payload_len  \* mutant: an empty payload is free

(* A zero-length payload is charged one byte.  (The clamp to u32 is out of *)
(* reach of the budgets the server configures.)                            *)
permits_for(payload_len) == IF payload_len < 1 THEN 1 ELSE payload_len

Envelope(value, payload_len) ==
  [value |-> value, len |-> payload_len, permit |-> permits_for(payload_len)]

NeverFits_Unchecked(payload_len) == FALSE  \* mutant: no upfront rejection

(* A payload that no amount of waiting would let in. *)
NeverFits(payload_len) == permits_for(payload_len) > max_queued_bytes

HasSlot(ch) == Len(ch.queue) < item_capacity

Enqueue(ch, envelope) == [ch EXCEPT !.queue = Append(@, envelope)]

(***************************************************************************)
(* try_send: rejected when the payload never fits, when the free permits   *)
(* do not cover it, when the queue is full or when the receiver is gone; a *)
(* rejected envelope returns its permits.                                  *)
(***************************************************************************)
CanTrySend(ch, payload_len) ==
  /\ ~NeverFits(payload_len)
  /\ permits_for(payload_len) <= ch.free
  /\ ch.open
  /\ HasSlot(ch)

try_send(ch, value, payload_len) ==
  [Enqueue(ch, Envelope(value, payload_len)) EXCEPT !.free = @ - permits_for(payload_len)]

(* The permits that a sequence of envelopes holds. *)
PermitsOf(envelopes) == Total([i \in DOMAIN envelopes |-> envelopes[i].permit])

=============================================================================
