------------------------- MODULE ByteBoundedChannel -------------------------
(***************************************************************************)
(* Concurrent senders, cancellation and a receiver over one byte-bounded   *)
(* channel: ByteBoundedSender::send and try_send, Envelope::into_inner and *)
(* split of crates/pjs-core/src/infrastructure/bounded_channel.rs, on      *)
(* tokio's semaphore and mpsc queue.                                       *)
(*                                                                         *)
(* tokio's semaphore is fair: permits that are returned go to the waiter   *)
(* at the head of the queue, in part if they do not cover its request, and *)
(* nobody overtakes it.  chan.free counts what is not in an envelope, the  *)
(* part promised to the head included, so it is what a newcomer sees only  *)
(* when nobody waits.                                                      *)
(***************************************************************************)
EXTENDS ByteChannel

CONSTANTS
  Sender,        \* clones of the sending half
  Payload,       \* payload lengths
  MaxHeld        \* envelopes and permits the receiver keeps at once

VARIABLES
  chan,          \* queue, free permits, receiver alive
  waiting,       \* FIFO of sends in acquire_many
  granted,       \* sends that hold their permits and not yet a slot
  stalled,       \* FIFO of sends waiting for a slot
  held           \* envelopes the receiver took and has not dropped

vars == <<chan, waiting, granted, stalled, held>>

Init ==
  /\ chan = NewChannel
  /\ waiting = <<>>
  /\ granted = {}
  /\ stalled = <<>>
  /\ held = <<>>

(* A call under way: of send, or of try_send, which never waits. *)
Call(s, len, waits) == [sender |-> s, envelope |-> Envelope(s, len), waits |-> waits]

Pending == ToSet(waiting) \union granted \union ToSet(stalled)

Sending(s) == \E c \in Pending : c.sender = s

-----------------------------------------------------------------------------
(* The semaphore. *)

Envelopes(calls) == [i \in DOMAIN calls |-> calls[i].envelope]

Need(calls, k) == PermitsOf(Envelopes(SubSeq(calls, 1, k)))

(* How many calls, from the head, n permits satisfy. *)
Satisfied(calls, n) == Max({k \in 0..Len(calls) : Need(calls, k) <= n})

(* n permits return to the semaphore of ch, for which calls are waiting;   *)
(* kept are the calls that already have theirs.                            *)
Release(ch, calls, kept, n) ==
  LET free == ch.free + n
      k == Satisfied(calls, free)
  IN  /\ chan' = [ch EXCEPT !.free = free - Need(calls, k)]
      /\ waiting' = SubSeq(calls, k + 1, Len(calls))
      /\ granted' = kept \union ToSet(SubSeq(calls, 1, k))

-----------------------------------------------------------------------------
(* Senders. *)

(* The first half of try_send: no permit is to be had while anybody waits. *)
TrySend(s, len) ==
  /\ ~Sending(s)
  /\ ~NeverFits(len)
  /\ waiting = <<>>
  /\ permits_for(len) <= chan.free
  /\ chan' = [chan EXCEPT !.free = @ - permits_for(len)]
  /\ granted' = granted \union {Call(s, len, FALSE)}
  /\ UNCHANGED <<waiting, stalled, held>>

(* The first half of send: acquire_many joins the queue of the semaphore,  *)
(* which serves it at once if it can.                                      *)
Send(s, len) ==
  /\ ~Sending(s)
  /\ ~NeverFits(len)
  /\ Release(chan, Append(waiting, Call(s, len, TRUE)), granted, 0)
  /\ UNCHANGED <<stalled, held>>

(* The second half: the mpsc queue takes the envelope, or lets a send wait *)
(* for a slot, or refuses the call, which gives its permits back.          *)
Push(c) ==
  /\ c \in granted
  /\ \/ /\ chan.open /\ HasSlot(chan)
        /\ chan' = Enqueue(chan, c.envelope)
        /\ granted' = granted \ {c}
        /\ UNCHANGED <<waiting, stalled>>
     \/ /\ chan.open /\ ~HasSlot(chan) /\ c.waits
        /\ stalled' = Append(stalled, c)
        /\ granted' = granted \ {c}
        /\ UNCHANGED <<chan, waiting>>
     \/ /\ ~chan.open \/ (~HasSlot(chan) /\ ~c.waits)
        /\ Release(chan, waiting, granted \ {c}, c.envelope.permit)
        /\ UNCHANGED stalled
  /\ UNCHANGED held

NotOf(s, c) == c.sender # s

(* The future of a send is dropped: what it holds returns to the budget,   *)
(* and what was set aside for it goes to the next in line.                 *)
CancelSend(s) ==
  LET mine == {c \in granted \union ToSet(stalled) : c.sender = s}
      permits == SumSet({c.envelope.permit : c \in mine})
  IN  /\ \E c \in Pending : c.sender = s /\ c.waits
      /\ Release(chan, SelectSeq(waiting, LAMBDA c : NotOf(s, c)), granted \ mine, permits)
      /\ stalled' = SelectSeq(stalled, LAMBDA c : NotOf(s, c))
      /\ UNCHANGED held

-----------------------------------------------------------------------------
(* The receiver. *)

(* recv: the slot goes to the first call that waits for one. *)
Recv ==
  /\ chan.open
  /\ chan.queue # <<>>
  /\ Len(held) < MaxHeld
  /\ held' = Append(held, Head(chan.queue))
  /\ chan' = [chan EXCEPT !.queue =
                Tail(@) \o (IF stalled = <<>> THEN <<>> ELSE <<Head(stalled).envelope>>)]
  /\ stalled' = IF stalled = <<>> THEN <<>> ELSE Tail(stalled)
  /\ UNCHANGED <<waiting, granted>>

(* An Envelope, or the BudgetPermit split left, is dropped. *)
DropHeld(i) ==
  /\ i \in DOMAIN held
  /\ Release(chan, waiting, granted, held[i].permit)
  /\ held' = RemoveAt(held, i)
  /\ UNCHANGED stalled

(* The receiving half is dropped: the queue is emptied, and the calls that *)
(* wait for a slot return an error.                                        *)
CloseReceiver ==
  /\ chan.open
  /\ Release([chan EXCEPT !.queue = <<>>, !.open = FALSE], waiting, granted,
             PermitsOf(chan.queue) + PermitsOf(Envelopes(stalled)))
  /\ stalled' = <<>>
  /\ UNCHANGED held

-----------------------------------------------------------------------------

Next ==
  \/ \E s \in Sender :
       \/ \E len \in Payload : TrySend(s, len) \/ Send(s, len)
       \/ CancelSend(s)
  \/ \E c \in granted : Push(c)
  \/ Recv
  \/ \E i \in 1..MaxHeld : DropHeld(i)
  \/ CloseReceiver

(***************************************************************************)
(* The runtime polls a sender that was woken; the receiving loops of the   *)
(* server take the next message and, once a write ends or times out, drop  *)
(* its permit.  No sender is obliged to send and no receiver to go away.   *)
(***************************************************************************)
Fairness ==
  /\ \A s \in Sender : WF_vars(\E c \in granted : c.sender = s /\ Push(c))
  /\ WF_vars(Recv)
  /\ WF_vars(DropHeld(1))

Spec == Init /\ [][Next]_vars /\ Fairness

-----------------------------------------------------------------------------

(* Types of the channel's parts. *)
TypeOK ==
  /\ chan.free \in 0..max_queued_bytes
  /\ Len(chan.queue) <= item_capacity
  /\ Len(held) <= MaxHeld
  /\ \A c \in Pending : c.sender \in Sender /\ c.envelope.len \in Payload

(***************************************************************************)
(* No byte of the budget is lost or minted by a cancelled send, a refused  *)
(* one, a receiver that goes away or a permit kept past receipt; and what  *)
(* is queued or held never exceeds max_queued_bytes, nor can empty         *)
(* messages escape the accounting.                                         *)
(***************************************************************************)
BudgetConserved ==
  LET Lens(envelopes) ==
        MapThenSumSet(LAMBDA i : Max({1, envelopes[i].len}), DOMAIN envelopes)
  IN  chan.free + Lens(chan.queue) + Lens(held) + Lens(Envelopes(stalled))
        + Lens(Envelopes(SetToSeq(granted))) = max_queued_bytes

(***************************************************************************)
(* A send does not wait for ever: it is accepted, refused because the      *)
(* receiver is gone, or cancelled, however large its payload.              *)
(***************************************************************************)
SendTerminates == \A s \in Sender : Sending(s) ~> ~Sending(s)

=============================================================================
