----------------------------- MODULE EventStream -----------------------------
(***************************************************************************)
(* The audit event stream: the publisher, the JetStream stream             *)
(* audit_events, the consumers of the registry, the dead letters and the   *)
(* workers that replay and count them.                                     *)
(*                                                                         *)
(* Every adapter names its durable consumer after the stream, so all of    *)
(* them pull from ONE durable, and a message goes to one of them.  The     *)
(* durable has AckPolicy::None: delivered is settled for the server, and   *)
(* what a client drops is gone.  Dead letters go to <subject>.DLQ, which   *)
(* the stream's own filter audit.events.v1.> matches and from which the    *)
(* unfiltered durable delivers them again.                                 *)
(*                                                                         *)
(* A subject is an event (tenant and type) with or without the suffix; the *)
(* order of messages in the stream is the order of "stream".               *)
(***************************************************************************)
EXTENDS Naturals, Sequences, FiniteSets

CONSTANTS
    Events,      \* audit events the service publishes, each once
    Rebases,     \* those of type RebaseApplied; the others are approvals
    Complete,    \* those whose payload carries what the consumers require
    InScope,     \* those of the adapters' tenant scope (all, if none is set)
    Adapters,    \* registered consumers
    FullConsumer,\* INTENT_API_NATS_FULL_CONSUMER: dead letters are published
    Replayable,  \* events whose dead letters the replay worker's filter matches
    MaxPrefetch, \* bound: messages a pull request brings at a time
    MaxPerPoll,  \* MAX_MESSAGES_PER_POLL, max_replay and max_peek
    MaxStream,   \* bound: messages in the stream
    MaxFaults    \* bound: failed calls, crashes, shutdowns

Consumers == {"checkpoint_creator", "snapshot_creator", "notifier"}

ASSUME StreamAssumption ==
    /\ Rebases \subseteq Events /\ Complete \subseteq Events /\ InScope \subseteq Events
    /\ Replayable \subseteq Events /\ Adapters \subseteq Consumers
    /\ FullConsumer \in BOOLEAN
    /\ {MaxPrefetch, MaxPerPoll} \subseteq Nat \ {0} /\ {MaxStream, MaxFaults} \subseteq Nat

VARIABLES
    stream,     \* messages stored, in order
    fate,       \* history: what became of each in the shared durable
    cursor,     \* last message the shared durable delivered
    loop,       \* where each adapter's poll loop is
    buffer,     \* messages delivered to an adapter and not taken yet
    hand,       \* the message an adapter failed on, before its dead letter
    processed,  \* messages_processed of the poll under way
    shutdown,   \* the registry's watch channel
    unpublished,\* events still to be published
    effects,    \* checkpoints, snapshots and notifications made of an event
    doubtful,   \* history: stores that took effect and answered with an error
    replays,    \* history: messages the replay worker published
    rcursor,    \* last message the replay worker's durable went past
    rbuffer,    \* dead letters it holds, to be replayed oldest first
    rleft,      \* replays left in its poll; 0 between polls
    pcursor,    \* last message the metrics worker's durable delivered
    gauge,      \* intent_api_dlq_messages_current
    faults

adaptervars == <<loop, buffer, hand, processed, shutdown>>
effectvars == <<effects, doubtful>>
replayvars == <<replays, rcursor, rbuffer, rleft>>
peekvars == <<pcursor, gauge>>
vars == <<stream, fate, cursor, adaptervars, unpublished, effectvars, replayvars,
          peekvars, faults>>

\* orig: the header Nats-Orig-Subject - none, the event's subject, or that with .DLQ.
Message == [event : Events, dlq : BOOLEAN, orig : {"none", "subject", "dlq"}]

Fates == {"pending", "consumed", "rejected", "dead_lettered", "failed", "dropped"}

StreamTypeOK ==
    /\ stream \in Seq(Message) /\ fate \in Seq(Fates) /\ Len(fate) = Len(stream)
    /\ {cursor, rcursor, pcursor} \subseteq 0..Len(stream)
    /\ loop \in [Adapters -> {"poll", "open", "dead_letter", "stopped"}]
    /\ buffer \in [Adapters -> Seq(Nat)] /\ hand \in [Adapters -> Nat]
    /\ processed \in [Adapters -> 0..MaxPerPoll]
    /\ shutdown \in BOOLEAN /\ unpublished \subseteq Events
    /\ {effects, doubtful, replays} \subseteq [Events -> Nat]
    /\ rbuffer \subseteq 1..Len(stream) /\ rleft \in 0..MaxPerPoll
    /\ gauge \in 0..MaxPerPoll /\ faults \in 0..MaxFaults

Init ==
    /\ stream = <<>> /\ fate = <<>> /\ cursor = 0
    /\ loop = [a \in Adapters |-> "poll"]
    /\ buffer = [a \in Adapters |-> <<>>]
    /\ hand = [a \in Adapters |-> 0]
    /\ processed = [a \in Adapters |-> 0]
    /\ shutdown = FALSE /\ unpublished = Events
    /\ effects = [e \in Events |-> 0] /\ doubtful = [e \in Events |-> 0]
    /\ replays = [e \in Events |-> 0] /\ rcursor = 0 /\ rbuffer = {} /\ rleft = 0
    /\ pcursor = 0 /\ gauge = 0 /\ faults = 0

Fault == faults < MaxFaults /\ faults' = faults + 1

\* A message enters the stream.
Store(m) == stream' = Append(stream, m) /\ fate' = Append(fate, "pending")

HasRoom == Len(stream) < MaxStream

Dropped(ms) == [i \in DOMAIN fate |-> IF i \in ms THEN "dropped" ELSE fate[i]]

Held(a) == {buffer[a][k] : k \in DOMAIN buffer[a]} \union ({hand[a]} \ {0})

-----------------------------------------------------------------------------
(* The publisher. *)

\* publish_audit_event: a NATS core publish, which the server does not
\* acknowledge.  An attempt of publish_with_retry that timed out has queued
\* nothing, so of its two attempts at most one is stored.
Publish(e) ==
    /\ e \in unpublished /\ HasRoom
    /\ unpublished' = unpublished \ {e}
    /\ Store([event |-> e, dlq |-> FALSE, orig |-> "none"])
    /\ UNCHANGED <<cursor, adaptervars, effectvars, replayvars, peekvars, faults>>

\* Connecting failed, or both attempts did, or the message was lost on its
\* way: PublishResult::Skipped or nothing, and the caller goes on.
PublishSkipped(e) ==
    /\ e \in unpublished /\ Fault
    /\ unpublished' = unpublished \ {e}
    /\ UNCHANGED <<stream, fate, cursor, adaptervars, effectvars, replayvars, peekvars>>

-----------------------------------------------------------------------------
(* The poll loop of an adapter. *)

\* messages(): a new pull request, a new buffer.
OpenPoll(a) ==
    /\ loop[a] = "poll" /\ ~shutdown
    /\ cursor < Len(stream)
    /\ \E n \in 1..MaxPrefetch :
        /\ cursor + n <= Len(stream)
        /\ buffer' = [buffer EXCEPT ![a] = [k \in 1..n |-> cursor + k]]
        /\ cursor' = cursor + n
    /\ processed' = [processed EXCEPT ![a] = 0]
    /\ loop' = [loop EXCEPT ![a] = "open"]
    /\ UNCHANGED <<stream, fate, hand, shutdown, unpublished, effectvars, replayvars,
                   peekvars, faults>>

\* Mutant: the durable is the adapter's own, at its own place in the stream.
DeliverAgain(a) ==
    /\ loop[a] = "open" /\ cursor > 0 /\ Len(buffer[a]) < MaxPrefetch
    /\ buffer' = [buffer EXCEPT ![a] = Append(@, cursor)]
    /\ UNCHANGED <<stream, fate, cursor, loop, hand, processed, shutdown, unpublished,
                   effectvars, replayvars, peekvars, faults>>

\* The request is still open: the server delivers what arrives.
Deliver(a) ==
    /\ loop[a] = "open" /\ cursor < Len(stream) /\ Len(buffer[a]) < MaxPrefetch
    /\ buffer' = [buffer EXCEPT ![a] = Append(@, cursor + 1)]
    /\ cursor' = cursor + 1
    /\ UNCHANGED <<stream, fate, loop, hand, processed, shutdown, unpublished, effectvars,
                   replayvars, peekvars, faults>>

Takes(a) ==
    loop[a] = "open" /\ ~shutdown /\ processed[a] < MaxPerPoll /\ buffer[a] # <<>>

\* The subject still contains the type after .DLQ was appended.
Relevant(a, e) == IF a = "notifier" THEN e \notin Rebases ELSE e \in Rebases

Settle(a, outcome) ==
    /\ fate' = [fate EXCEPT ![Head(buffer[a])] = outcome]
    /\ buffer' = [buffer EXCEPT ![a] = Tail(@)]
    /\ processed' = [processed EXCEPT ![a] = @ + 1]
    /\ UNCHANGED <<stream, cursor, loop, hand, shutdown, unpublished, replayvars, peekvars>>

\* process_one: another tenant's event, or none of the consumer's types.
PassOver(a) ==
    /\ Takes(a)
    /\ LET e == stream[Head(buffer[a])].event IN
        /\ e \notin InScope \/ ~Relevant(a, e)
        /\ Settle(a, IF e \notin InScope THEN "rejected" ELSE "consumed")
    /\ UNCHANGED <<effectvars, faults>>

\* The checkpoint, snapshot or notification is stored: one more for the event.
Made(e) == effects' = [effects EXCEPT ![e] = @ + 1]

\* Mutant: the effect precedes the check of the answer, and the dead letter both.
ConsumeTwice(a) ==
    /\ Takes(a)
    /\ LET e == stream[Head(buffer[a])].event IN
        /\ e \in InScope \intersect Complete /\ Relevant(a, e)
        /\ Made(e)
        /\ hand' = [hand EXCEPT ![a] = Head(buffer[a])]
    /\ buffer' = [buffer EXCEPT ![a] = Tail(@)]
    /\ loop' = [loop EXCEPT ![a] = "dead_letter"]
    /\ UNCHANGED <<stream, fate, cursor, processed, shutdown, unpublished, doubtful, faults,
                   replayvars, peekvars>>

\* The consumer made its checkpoint, snapshot or notification.
Consume(a) ==
    /\ Takes(a)
    /\ LET e == stream[Head(buffer[a])].event IN
        /\ e \in InScope \intersect Complete /\ Relevant(a, e)
        /\ Made(e)
    /\ Settle(a, "consumed")
    /\ UNCHANGED <<doubtful, faults>>

\* The consumer returned Failed: a field is missing, or the store answered
\* with an error (its insert done or not; the notifier's store cannot fail).
ConsumeFailed(a) ==
    /\ Takes(a)
    /\ LET e == stream[Head(buffer[a])].event IN
        /\ e \in InScope /\ Relevant(a, e)
        /\ IF e \notin Complete THEN UNCHANGED <<effectvars, faults>>
           ELSE /\ a # "notifier" /\ Fault
                /\ \/ UNCHANGED effectvars
                   \/ /\ Made(e)
                      /\ doubtful' = [doubtful EXCEPT ![e] = @ + 1]
    /\ IF FullConsumer
       THEN /\ hand' = [hand EXCEPT ![a] = Head(buffer[a])]
            /\ buffer' = [buffer EXCEPT ![a] = Tail(@)]
            /\ loop' = [loop EXCEPT ![a] = "dead_letter"]
            /\ UNCHANGED <<stream, fate, cursor, processed, shutdown, unpublished,
                           replayvars, peekvars>>
       ELSE Settle(a, "failed")

\* derive_dlq_subject: a dead letter's subject is kept.
DeadLetterOf(m) ==
    [event |-> m.event, dlq |-> TRUE, orig |-> IF m.dlq THEN "dlq" ELSE "subject"]

\* publish_to_dlq, its result ignored, then the ack, which changes nothing.
DeadLetter(a) ==
    /\ loop[a] = "dead_letter"
    /\ \/ /\ HasRoom
          /\ stream' = Append(stream, DeadLetterOf(stream[hand[a]]))
          /\ fate' = Append([fate EXCEPT ![hand[a]] = "dead_lettered"], "pending")
          /\ UNCHANGED faults
       \/ /\ Fault
          /\ fate' = [fate EXCEPT ![hand[a]] = "failed"]
          /\ UNCHANGED stream
    /\ hand' = [hand EXCEPT ![a] = 0]
    /\ processed' = [processed EXCEPT ![a] = @ + 1]
    /\ loop' = [loop EXCEPT ![a] = "open"]
    /\ UNCHANGED <<cursor, buffer, shutdown, unpublished, effectvars, replayvars, peekvars>>

\* Mutant: a full poll is not ended.
EndPollBusy(a) ==
    /\ loop[a] \in {"poll", "open"}
    /\ \/ shutdown
       \/ loop[a] = "open" /\ buffer[a] = <<>>
    /\ fate' = Dropped(Held(a))
    /\ buffer' = [buffer EXCEPT ![a] = <<>>]
    /\ loop' = [loop EXCEPT ![a] = IF shutdown THEN "stopped" ELSE "poll"]
    /\ UNCHANGED <<stream, cursor, hand, processed, shutdown, unpublished, effectvars,
                   replayvars, peekvars, faults>>

\* The poll ends, at its limit or for want of messages, and its stream is
\* dropped with what it holds; or the shutdown was seen, which ends the loop.
EndPoll(a) ==
    /\ loop[a] \in {"poll", "open"}
    /\ \/ shutdown
       \/ loop[a] = "open" /\ (processed[a] = MaxPerPoll \/ buffer[a] = <<>>)
    /\ fate' = Dropped(Held(a))
    /\ buffer' = [buffer EXCEPT ![a] = <<>>]
    /\ loop' = [loop EXCEPT ![a] = IF shutdown THEN "stopped" ELSE "poll"]
    /\ UNCHANGED <<stream, cursor, hand, processed, shutdown, unpublished, effectvars,
                   replayvars, peekvars, faults>>

\* ConsumerRegistryHandle::shutdown.
Shutdown ==
    /\ ~shutdown /\ Fault /\ shutdown' = TRUE
    /\ UNCHANGED <<stream, fate, cursor, loop, buffer, hand, processed, unpublished,
                   effectvars, replayvars, peekvars>>

\* The process starts again, after a crash or when every loop has stopped.
Restart ==
    /\ \/ (\A a \in Adapters : loop[a] = "stopped") /\ UNCHANGED faults
       \/ Fault
    /\ fate' = Dropped(UNION {Held(a) : a \in Adapters})
    /\ loop' = [a \in Adapters |-> "poll"]
    /\ buffer' = [a \in Adapters |-> <<>>]
    /\ hand' = [a \in Adapters |-> 0]
    /\ processed' = [a \in Adapters |-> 0]
    /\ shutdown' = FALSE /\ rbuffer' = {} /\ rleft' = 0
    /\ UNCHANGED <<stream, cursor, unpublished, effectvars, replays, rcursor, peekvars>>

-----------------------------------------------------------------------------
(* The DLQ workers. *)

Matches(i) == stream[i].dlq /\ stream[i].event \in Replayable

\* replay_dlq_subject: a durable of its own, explicit acks and max_deliver 1:
\* what it delivers it never delivers again, replayed or not.
ReplayPoll ==
    /\ rleft = 0
    /\ \E last \in rcursor..Len(stream) :
        LET found == {i \in (rcursor + 1)..last : Matches(i)} IN
        /\ found # {} /\ Cardinality(found) <= MaxPrefetch
        /\ rcursor' = last
        /\ rbuffer' = found
    /\ rleft' = MaxPerPoll
    /\ UNCHANGED <<stream, fate, cursor, adaptervars, unpublished, effectvars, replays,
                   peekvars, faults>>

\* replay_from_dlq publishes to the subject in the header, then acks.
Replay ==
    /\ rleft > 0 /\ HasRoom
    /\ \E i \in rbuffer :
        LET m == stream[i] IN
        /\ \A j \in rbuffer : i <= j
        /\ Store([m EXCEPT !.dlq = m.orig = "dlq"])
        /\ replays' = [replays EXCEPT ![m.event] = @ + 1]
        /\ rbuffer' = rbuffer \ {i}
    /\ rleft' = rleft - 1
    /\ UNCHANGED <<cursor, adaptervars, unpublished, effectvars, rcursor, peekvars, faults>>

\* The limit, no more messages, or (a fault) a failed replay, which breaks the poll.
ReplayEnd ==
    /\ \/ rleft > 0 /\ rbuffer = {} /\ UNCHANGED faults
       \/ rleft > 0 /\ rbuffer # {} /\ Fault
       \/ rleft = 0 /\ rbuffer # {} /\ UNCHANGED faults
    /\ rbuffer' = {} /\ rleft' = 0
    /\ UNCHANGED <<stream, fate, cursor, adaptervars, unpublished, effectvars, replays,
                   rcursor, peekvars>>

\* collect_and_emit_metrics: the peek has no filter and its durable, which is
\* kept, delivers a message once.
Peek ==
    /\ \E n \in 0..MaxPerPoll :
        /\ pcursor + n <= Len(stream) /\ (n < MaxPerPoll => pcursor + n = Len(stream))
        /\ pcursor' = pcursor + n
        /\ gauge' = n
    /\ UNCHANGED <<stream, fate, cursor, adaptervars, unpublished, effectvars, replayvars,
                   faults>>

-----------------------------------------------------------------------------
AdapterStep(a) ==
    \/ OpenPoll(a) \/ PassOver(a) \/ Consume(a) \/ ConsumeFailed(a) \/ DeadLetter(a)
    \/ EndPoll(a)

Next ==
    \/ \E e \in Events : Publish(e) \/ PublishSkipped(e)
    \/ \E a \in Adapters : AdapterStep(a) \/ Deliver(a)
    \/ Shutdown \/ Restart
    \/ ReplayPoll \/ Replay \/ ReplayEnd \/ Peek

\* The spawned poll loops are polled.
Fairness == \A a \in Adapters : WF_vars(AdapterStep(a))

Spec == Init /\ [][Next]_vars /\ Fairness

-----------------------------------------------------------------------------
(* Properties. *)

\* An event has at most one effect, whatever fails and whoever takes it, but
\* for stores that took effect without saying so and for replays: failing
\* leaves one copy behind, in place of the one that failed.
EffectsBounded ==
    \A e \in Events : effects[e] <= 1 + doubtful[e] + replays[e]

\* A message is in at most one place, and only while it is unsettled.
OneHolder ==
    /\ \A a, b \in Adapters : a # b => Held(a) \intersect Held(b) = {}
    /\ \A a \in Adapters : \A i \in Held(a) : i <= cursor /\ fate[i] = "pending"
    /\ \A i \in DOMAIN stream :
        (fate[i] = "pending" /\ i <= cursor) => \E a \in Adapters : i \in Held(a)

Pending(i) == i \in DOMAIN fate /\ fate[i] = "pending"

\* Every message stored is settled - taken, dead-lettered or dropped - unless
\* the consumers are shut down.
EveryMessageSettles ==
    \A i \in 1..MaxStream :
        Pending(i) ~> (~Pending(i) \/ shutdown)

\* "acks on Failed/Retryable to prevent infinite redelivery", "max_deliver=3":
\* not so in the full-consumer path, where a dead letter is delivered again.
HandledThrice ==
    \A e \in Events : Cardinality({i \in DOMAIN stream :
        stream[i].event = e /\ fate[i] \in {"dead_lettered", "consumed"}}) <= 3

=============================================================================
