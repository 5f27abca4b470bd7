-------------------------- MODULE PreparedPipeline --------------------------
(* run_prepared_batch_pipeline of lexongraph-streaming-indexer (v3): one       *)
(* thread reads the batches of a partition and prepares them, the calling      *)
(* thread trains or classifies with them, and a bounded channel lies between.  *)
(* Either side may fail at any batch; a cancellation is seen by each side at   *)
(* its next batch.  The call returns only after the producer was joined.       *)
EXTENDS Naturals, Sequences

CONSTANTS
    Batches,        \* the batches of the partition: next_batch until it has none
    Lookahead       \* V3_PREPARED_BATCH_LOOKAHEAD, the capacity of the channel

PipelineAssumption == Batches \in Nat /\ Lookahead \in Nat \ {0}

VARIABLES
    producer,       \* "read", "send", "done", or the error it returns
    made,           \* the batches prepared so far: the next to send is the last
    channel,        \* prepared batches in the channel
    consumer,       \* "recv", or what ended the loop: "ok" or an error
    consumed,       \* progress: the batches committed
    receiver,       \* the receiver has not been dropped
    cancelled,      \* the cancellation handle of the caller
    returned        \* the result of the call, "none" before

vars == <<producer, made, channel, consumer, consumed, receiver, cancelled, returned>>

Errors == {"failed", "cancelled"}

Init ==
    /\ producer = "read" /\ made = 0
    /\ channel = <<>>
    /\ consumer = "recv" /\ consumed = 0
    /\ receiver = TRUE
    /\ cancelled = FALSE
    /\ returned = "none"

Cancel ==
    /\ ~cancelled /\ returned = "none"
    /\ cancelled' = TRUE
    /\ UNCHANGED <<producer, made, channel, consumer, consumed, receiver, returned>>

\* The producer's loop: the partition is read to its end, the handle is looked
\* at, or a batch is prepared; reading, loading and decoding may fail.
Produce ==
    /\ producer = "read"
    /\ \/ made = Batches /\ producer' = "done" /\ UNCHANGED made
       \/ made < Batches /\ cancelled /\ producer' = "cancelled" /\ UNCHANGED made
       \/ made < Batches /\ ~cancelled /\ producer' = "send" /\ made' = made + 1
       \/ producer' = "failed" /\ UNCHANGED made
    /\ UNCHANGED <<channel, consumer, consumed, receiver, cancelled, returned>>

\* Send below, for a producer that does not notice the receiver is gone.
SendWaits ==
    /\ producer = "send"
    /\ receiver /\ Len(channel) < Lookahead
    /\ channel' = Append(channel, made)
    /\ producer' = "read"
    /\ UNCHANGED <<made, consumer, consumed, receiver, cancelled, returned>>

\* The send waits for room, and fails once the receiver is gone: that is not an
\* error of the producer.
Send ==
    /\ producer = "send"
    /\ \/ /\ receiver /\ Len(channel) < Lookahead
          /\ channel' = Append(channel, made)
          /\ producer' = "read"
       \/ /\ ~receiver
          /\ producer' = "done"
          /\ UNCHANGED channel
    /\ UNCHANGED <<made, consumer, consumed, receiver, cancelled, returned>>

\* A batch is received and committed, unless the handle or the trainer says no.
Consume ==
    /\ consumer = "recv" /\ channel # <<>>
    /\ channel' = Tail(channel)
    /\ \/ cancelled /\ consumer' = "cancelled" /\ UNCHANGED consumed
       \/ ~cancelled /\ consumed' = consumed + 1 /\ UNCHANGED consumer
       \/ ~cancelled /\ consumer' = "failed" /\ UNCHANGED consumed
    /\ UNCHANGED <<producer, made, receiver, cancelled, returned>>

\* recv on a channel that is empty and whose sender is gone.
Disconnected == channel = <<>> /\ producer \in {"done"} \cup Errors

ConsumeEnds ==
    /\ consumer = "recv" /\ Disconnected
    /\ consumer' = "ok"
    /\ UNCHANGED <<producer, made, channel, consumed, receiver, cancelled, returned>>

DropReceiver ==
    /\ consumer # "recv" /\ receiver
    /\ receiver' = FALSE
    /\ channel' = <<>>
    /\ UNCHANGED <<producer, made, consumer, consumed, cancelled, returned>>

\* Outcome below, for a call that looks at the consumer's result only.
OutcomeOfConsumer == consumer

\* consumer_result?; producer_result.
Outcome == IF consumer # "ok" THEN consumer ELSE IF producer = "done" THEN "ok" ELSE producer

\* The producer thread is joined.
Join == ~receiver /\ producer \in {"done"} \cup Errors

Return ==
    /\ Join /\ returned = "none"
    /\ returned' = Outcome
    /\ UNCHANGED <<producer, made, channel, consumer, consumed, receiver, cancelled>>

Next ==
    \/ Cancel
    \/ Produce \/ Send
    \/ Consume \/ ConsumeEnds \/ DropReceiver \/ Return

\* Both threads run; the caller need not cancel.
Fairness == WF_vars(Produce \/ Send) /\ WF_vars(Consume \/ ConsumeEnds \/ DropReceiver \/ Return)

Spec == Init /\ [][Next]_vars /\ Fairness

-----------------------------------------------------------------------------

\* A successful call has committed every batch of the partition, whichever side
\* stopped first; and the producer is never further ahead of the committed
\* batches than the channel's capacity and the two batches in hand.
PipelineExact ==
    /\ returned = "ok" => consumed = Batches
    /\ made <= consumed + Lookahead + 2

\* The call returns: neither thread waits for the other for ever, in particular
\* not a producer in front of a full channel whose consumer has failed.
PipelineReturns == <>(returned # "none")

-----------------------------------------------------------------------------
(* The inductive invariant.                                                 *)

TypeOK ==
    /\ producer \in {"read", "send", "done"} \cup Errors
    /\ consumer \in {"recv", "ok"} \cup Errors
    /\ made \in 0 .. Batches /\ consumed \in Nat
    /\ channel \in Seq(Nat) /\ Len(channel) <= Lookahead
    /\ receiver \in BOOLEAN /\ cancelled \in BOOLEAN
    /\ returned \in {"none", "ok"} \cup Errors

\* The batch that the producer waits to send.
InHand == IF producer = "send" THEN 1 ELSE 0

\* Every prepared batch is committed, in the channel or in hand, while the
\* receiver lives; the one that ended the consumer's loop is in none of these.
Conserved ==
    /\ consumer = "recv" => made = consumed + Len(channel) + InHand
    /\ consumer \in Errors /\ receiver => made = consumed + 1 + Len(channel) + InHand
    /\ consumer \in Errors /\ ~receiver =>
          /\ producer = "read" => made <= consumed + 1 + Lookahead
          /\ made <= consumed + 2 + Lookahead
    /\ consumer = "ok" => made = consumed

\* A producer that is done has read the partition to its end, unless the consumer
\* failed; the consumer's loop ends well only after the producer's.
Ended ==
    /\ producer = "done" /\ consumer \in {"recv", "ok"} => made = Batches
    /\ consumer = "ok" => producer \in {"done"} \cup Errors
    /\ ~receiver => consumer # "recv"
    /\ returned = "ok" => consumer = "ok" /\ producer = "done"
    /\ returned # "none" => ~receiver /\ producer \in {"done"} \cup Errors

PipelineInv == TypeOK /\ Conserved /\ Ended
=============================================================================
