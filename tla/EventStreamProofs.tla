-------------------------- MODULE EventStreamProofs --------------------------
(***************************************************************************)
(* Proofs about EventStream, for any events, adapters and bounds.  The     *)
(* shared durable splits the stream at its cursor: what lies ahead is      *)
(* pending, and what lies behind and is pending is with one adapter, once  *)
(* (Holders).  Hence a message is settled at most once, and what an event  *)
(* may still bring about is counted by its pending messages (Counted).     *)
(***************************************************************************)
EXTENDS EventStream, FiniteSetTheorems, SequenceTheorems, TLAPS

In(s) == {s[k] : k \in DOMAIN s}
Distinct(s) == \A k, l \in DOMAIN s : s[k] = s[l] => k = l

\* Where an adapter is and what it has.
Place(a) ==
    /\ loop[a] = "dead_letter" <=> hand[a] # 0
    /\ loop[a] \in {"poll", "stopped"} => buffer[a] = <<>>
    /\ loop[a] = "dead_letter" => processed[a] < MaxPerPoll
    /\ Distinct(buffer[a]) /\ hand[a] \notin In(buffer[a])

Holders ==
    /\ \A a, b \in Adapters : a # b => Held(a) \intersect Held(b) = {}
    /\ \A a \in Adapters : \A i \in Held(a) : i \in 1..cursor /\ fate[i] = "pending"
    /\ \A i \in 1..Len(stream) :
        fate[i] = "pending" => i > cursor \/ \E a \in Adapters : i \in Held(a)
    /\ \A i \in 1..Len(stream) : i > cursor => fate[i] = "pending"

\* The messages of an event that an adapter may still take, and the one unpublished.
Waiting(e) == {i \in 1..Len(stream) : stream[i].event = e /\ fate[i] = "pending"}
Unsent(e) == IF e \in unpublished THEN 1 ELSE 0

Counted == \A e \in Events :
    effects[e] + Cardinality(Waiting(e)) + Unsent(e) <= 1 + doubtful[e] + replays[e]

Places == \A a \in Adapters : Place(a)

Inductive == StreamTypeOK /\ Places /\ Holders /\ Counted

-----------------------------------------------------------------------------
(* Sequences without repetition. *)

\* Taking the first element takes it from the whole.
LEMMA TailOf ==
    ASSUME NEW s \in Seq(Nat), s # <<>>, Distinct(s)
    PROVE  /\ Tail(s) \in Seq(Nat) /\ Distinct(Tail(s))
           /\ Head(s) \in In(s) /\ Head(s) \in Nat /\ In(Tail(s)) = In(s) \ {Head(s)}
<1>1. /\ Tail(s) \in Seq(Nat) /\ Head(s) = s[1] /\ 1 \in DOMAIN s /\ Len(Tail(s)) = Len(s) - 1
      /\ DOMAIN s = 1..Len(s) /\ DOMAIN Tail(s) = 1..(Len(s) - 1) /\ Len(s) \in Nat /\ Len(s) > 0
  OBVIOUS
<1>2. \A k \in 1..(Len(s) - 1) : Tail(s)[k] = s[k + 1]
  OBVIOUS
<1>3. Distinct(Tail(s))
  BY <1>1, <1>2 DEF Distinct
<1>4. ASSUME NEW x \in In(Tail(s)) PROVE x \in In(s) /\ x # Head(s)
  <2>1. PICK k \in 1..(Len(s) - 1) : x = s[k + 1]
    BY <1>1, <1>2 DEF In
  <2>2. k + 1 \in DOMAIN s /\ k + 1 # 1
    BY <1>1
  <2>3. QED
    BY <1>1, <2>1, <2>2 DEF In, Distinct
<1>5. ASSUME NEW x \in In(s), x # Head(s) PROVE x \in In(Tail(s))
  <2>1. PICK k \in 1..Len(s) : x = s[k]
    BY <1>1 DEF In
  <2>2. k # 1 /\ k - 1 \in 1..(Len(s) - 1)
    BY <1>1, <1>5, <2>1
  <2>3. x = Tail(s)[k - 1]
    BY <1>2, <2>1, <2>2
  <2>4. QED
    BY <1>1, <2>2, <2>3 DEF In
<1>6. Head(s) \in In(s)
  BY <1>1 DEF In
<1>7. QED
  BY <1>1, <1>3, <1>4, <1>5, <1>6

\* A new element is one more.
LEMMA AppendOf ==
    ASSUME NEW s \in Seq(Nat), NEW n \in Nat, n \notin In(s), Distinct(s)
    PROVE  /\ Append(s, n) \in Seq(Nat) /\ Distinct(Append(s, n))
           /\ In(Append(s, n)) = In(s) \union {n}
<1>1. /\ Append(s, n) \in Seq(Nat) /\ DOMAIN s = 1..Len(s) /\ Len(s) \in Nat
      /\ DOMAIN Append(s, n) = 1..(Len(s) + 1)
      /\ Append(s, n)[Len(s) + 1] = n /\ \A k \in 1..Len(s) : Append(s, n)[k] = s[k]
  OBVIOUS
<1>2. \A k \in 1..Len(s) : s[k] # n
  BY <1>1 DEF In
<1>3. Distinct(Append(s, n))
  BY <1>1, <1>2 DEF Distinct
<1>4. In(Append(s, n)) \subseteq In(s) \union {n}
  BY <1>1 DEF In
<1>5. In(s) \union {n} \subseteq In(Append(s, n))
  <2>1. n \in In(Append(s, n))
    <3>1. Len(s) + 1 \in DOMAIN Append(s, n)
      BY <1>1
    <3>2. QED
      BY <1>1, <3>1 DEF In
  <2>2. ASSUME NEW k \in 1..Len(s) PROVE s[k] \in In(Append(s, n))
    <3>1. k \in DOMAIN Append(s, n) /\ s[k] = Append(s, n)[k]
      BY <1>1
    <3>2. QED
      BY <3>1 DEF In
  <2>3. QED
    BY <1>1, <2>1, <2>2 DEF In
<1>6. QED
  BY <1>1, <1>3, <1>4, <1>5

-----------------------------------------------------------------------------
(* Messages are settled, and messages enter. *)

\* The messages of gone, which were with adapters, are settled; the stream may grow.
Taken(gone) ==
    /\ cursor' = cursor /\ \A b \in Adapters : Held(b)' = Held(b) \ gone
    /\ gone \subseteq UNION {Held(b) : b \in Adapters}
    /\ Len(stream) <= Len(stream')
    /\ \A i \in 1..Len(stream) :
        /\ stream'[i] = stream[i]
        /\ fate'[i] = "pending" <=> fate[i] = "pending" /\ i \notin gone
    /\ \A i \in (Len(stream) + 1)..Len(stream') : fate'[i] = "pending"

\* Settling takes a message from its only holder.
LEMMA TakenHolders ==
    ASSUME StreamTypeOK, StreamTypeOK', Holders, NEW gone, Taken(gone)
    PROVE  Holders'
<1>1. /\ Len(stream) \in Nat /\ Len(stream') \in Nat /\ Len(stream) <= Len(stream')
      /\ cursor \in 0..Len(stream) /\ cursor' = cursor
  BY DEF StreamTypeOK, Taken
<1>2. \A b \in Adapters : Held(b)' = Held(b) \ gone
  BY DEF Taken
<1>3. \A a, b \in Adapters : a # b => Held(a)' \intersect Held(b)' = {}
  BY <1>2 DEF Holders
<1>4. \A a \in Adapters : \A i \in Held(a)' : i \in 1..cursor' /\ fate'[i] = "pending"
  <2> TAKE a \in Adapters
  <2> TAKE i \in Held(a)'
  <2>1. i \in Held(a) /\ i \notin gone
    BY <1>2
  <2>2. i \in 1..cursor /\ fate[i] = "pending"
    BY <2>1 DEF Holders
  <2>3. i \in 1..Len(stream)
    BY <1>1, <2>2
  <2>4. QED
    BY <1>1, <2>1, <2>2, <2>3 DEF Taken
<1>5. ASSUME NEW i \in 1..Len(stream'), fate'[i] = "pending"
      PROVE  i > cursor' \/ \E a \in Adapters : i \in Held(a)'
  <2>1. CASE i \in 1..Len(stream)
    <3>1. fate[i] = "pending" /\ i \notin gone
      BY <1>5, <2>1 DEF Taken
    <3>2. i > cursor \/ \E a \in Adapters : i \in Held(a)
      BY <2>1, <3>1 DEF Holders
    <3>3. QED
      BY <1>1, <1>2, <3>1, <3>2
  <2>2. CASE i \notin 1..Len(stream)
    BY <1>1, <2>2
  <2>3. QED
    BY <2>1, <2>2
<1>6. ASSUME NEW i \in 1..Len(stream'), i > cursor' PROVE fate'[i] = "pending"
  <2>1. CASE i \in 1..Len(stream)
    <3>1. fate[i] = "pending"
      BY <1>1, <1>6, <2>1 DEF Holders
    <3>2. i \notin gone
      <4>1. \A b \in Adapters : i \notin Held(b)
        BY <1>1, <1>6 DEF Holders
      <4>2. QED
        BY <4>1 DEF Taken
    <3>3. QED
      BY <2>1, <3>1, <3>2 DEF Taken
  <2>2. CASE i \notin 1..Len(stream)
    BY <1>1, <2>2 DEF Taken
  <2>3. QED
    BY <2>1, <2>2
<1>7. QED
  BY <1>3, <1>4, <1>5, <1>6 DEF Holders

\* What is waiting of an event is a finite set.
LEMMA WaitingFinite ==
    ASSUME StreamTypeOK, NEW e
    PROVE  IsFiniteSet(Waiting(e)) /\ Cardinality(Waiting(e)) \in Nat
<1>1. Len(stream) \in Nat
  BY DEF StreamTypeOK
<1>2. IsFiniteSet(1..Len(stream))
  BY <1>1, FS_Interval
<1>3. Waiting(e) \subseteq 1..Len(stream)
  BY DEF Waiting
<1>4. QED
  BY <1>2, <1>3, FS_Subset, FS_CardinalityType

\* What waits after messages were settled and others came.
LEMMA TakenWaiting ==
    ASSUME StreamTypeOK, StreamTypeOK', NEW gone, Taken(gone), NEW e
    PROVE  Waiting(e)' = (Waiting(e) \ gone)
                         \union {i \in (Len(stream) + 1)..Len(stream') : stream'[i].event = e}
<1>1. Len(stream) \in Nat /\ Len(stream') \in Nat /\ Len(stream) <= Len(stream')
  BY DEF StreamTypeOK, Taken
<1>2. \A i \in 1..Len(stream) : i \in Waiting(e)' <=> i \in Waiting(e) /\ i \notin gone
  BY <1>1 DEF Taken, Waiting
<1>3. \A i \in (Len(stream) + 1)..Len(stream') : i \in Waiting(e)' <=> stream'[i].event = e
  BY <1>1 DEF Taken, Waiting
<1>4. Waiting(e) \subseteq 1..Len(stream) /\ Waiting(e)' \subseteq 1..Len(stream')
  BY DEF Waiting
<1>5. 1..Len(stream') = (1..Len(stream)) \union ((Len(stream) + 1)..Len(stream'))
  BY <1>1
<1>6. QED
  BY <1>1, <1>2, <1>3, <1>4, <1>5

\* The durable delivers to an adapter what lies next.
LEMMA DeliveredHolders ==
    ASSUME StreamTypeOK, Holders, NEW a \in Adapters, NEW n \in Nat,
           cursor + n <= Len(stream), cursor' = cursor + n, UNCHANGED <<stream, fate>>,
           Held(a)' = Held(a) \union ((cursor + 1)..(cursor + n)),
           \A b \in Adapters \ {a} : Held(b)' = Held(b)
    PROVE  Holders'
<1>1. Len(stream) \in Nat /\ cursor \in 0..Len(stream)
  BY DEF StreamTypeOK
<1>2. \A b \in Adapters : \A i \in Held(b) : i \in 1..cursor
  BY DEF Holders
<1>3. \A b, c \in Adapters : b # c => Held(b)' \intersect Held(c)' = {}
  <2>1. ASSUME NEW b \in Adapters \ {a} PROVE Held(b)' \intersect Held(a)' = {}
    <3>1. Held(b) \intersect Held(a) = {}
      BY DEF Holders
    <3>2. Held(b) \intersect ((cursor + 1)..(cursor + n)) = {}
      BY <1>1, <1>2
    <3>3. QED
      BY <3>1, <3>2
  <2>2. \A b, c \in Adapters \ {a} : b # c => Held(b)' \intersect Held(c)' = {}
    BY DEF Holders
  <2>3. QED
    BY <2>1, <2>2
<1>4. \A b \in Adapters : \A i \in Held(b)' : i \in 1..cursor' /\ fate'[i] = "pending"
  <2>1. \A b \in Adapters : \A i \in Held(b) : i \in 1..cursor' /\ fate'[i] = "pending"
    BY <1>1, <1>2 DEF Holders
  <2>2. \A i \in (cursor + 1)..(cursor + n) : i \in 1..cursor' /\ fate'[i] = "pending"
    BY <1>1 DEF Holders
  <2>3. QED
    BY <2>1, <2>2
<1>5. ASSUME NEW i \in 1..Len(stream'), fate'[i] = "pending"
      PROVE  i > cursor' \/ \E b \in Adapters : i \in Held(b)'
  <2>1. i > cursor \/ \E b \in Adapters : i \in Held(b)
    BY <1>5 DEF Holders
  <2>2. i > cursor => i > cursor' \/ i \in Held(a)'
    BY <1>1
  <2>3. \A b \in Adapters : i \in Held(b) => i \in Held(b)'
    OBVIOUS
  <2>4. QED
    BY <2>1, <2>2, <2>3
<1>6. \A i \in 1..Len(stream') : i > cursor' => fate'[i] = "pending"
  BY <1>1 DEF Holders
<1>7. QED
  BY <1>3, <1>4, <1>5, <1>6 DEF Holders

-----------------------------------------------------------------------------
(* Types. *)

\* What an adapter has is of the stream.
LEMMA HeldInStream ==
    ASSUME StreamTypeOK, Holders, NEW a \in Adapters
    PROVE  /\ \A i \in Held(a) : i \in 1..Len(stream) /\ i <= cursor /\ fate[i] = "pending"
           /\ buffer[a] # <<>> => Head(buffer[a]) \in Held(a)
           /\ hand[a] # 0 => hand[a] \in Held(a)
<1>1. Len(stream) \in Nat /\ cursor \in 0..Len(stream) /\ buffer[a] \in Seq(Nat)
  BY DEF StreamTypeOK
<1>2. \A i \in Held(a) : i \in 1..Len(stream) /\ i <= cursor /\ fate[i] = "pending"
  BY <1>1 DEF Holders
<1>3. ASSUME buffer[a] # <<>> PROVE Head(buffer[a]) \in Held(a)
  <2>1. 1 \in DOMAIN buffer[a] /\ Head(buffer[a]) = buffer[a][1]
    BY <1>1, <1>3
  <2>2. QED
    BY <2>1 DEF Held
<1>4. QED
  BY <1>2, <1>3 DEF Held

\* A message enters the stream.
LEMMA StoreTyped ==
    ASSUME StreamTypeOK, NEW m \in Message, Store(m)
    PROVE  /\ stream' \in Seq(Message) /\ fate' \in Seq(Fates)
           /\ Len(stream') = Len(stream) + 1 /\ Len(fate') = Len(stream')
           /\ \A i \in 1..Len(stream) : stream'[i] = stream[i] /\ fate'[i] = fate[i]
           /\ stream'[Len(stream')] = m /\ fate'[Len(stream')] = "pending"
<1>1. stream \in Seq(Message) /\ fate \in Seq(Fates) /\ Len(fate) = Len(stream) /\ "pending" \in Fates
  BY DEF StreamTypeOK, Fates
<1>2. stream' = Append(stream, m) /\ fate' = Append(fate, "pending")
  BY DEF Store
<1>3. QED
  BY <1>1, <1>2

\* The stream's part of the type, which the cursors depend on.
LEMMA StreamGrown ==
    ASSUME StreamTypeOK, stream' \in Seq(Message), fate' \in Seq(Fates),
           Len(fate') = Len(stream'), Len(stream') >= Len(stream)
    PROVE  /\ {cursor, rcursor, pcursor} \subseteq 0..Len(stream')
           /\ rbuffer \subseteq 1..Len(stream')
<1>1. Len(stream) \in Nat /\ Len(stream') \in Nat
  BY DEF StreamTypeOK
<1>2. QED
  BY <1>1 DEF StreamTypeOK

\* The publisher's steps keep the types.
LEMMA PublisherTyped ==
    ASSUME StreamTypeOK, NEW e \in Events, Publish(e) \/ PublishSkipped(e)
    PROVE  StreamTypeOK'
<1>1. MaxFaults \in Nat
  BY StreamAssumption
<1>2. CASE Publish(e)
  <2> DEFINE m == [event |-> e, dlq |-> FALSE, orig |-> "none"]
  <2>1. m \in Message /\ Store(m)
    BY <1>2 DEF Publish, Message
  <2>2. /\ stream' \in Seq(Message) /\ fate' \in Seq(Fates)
        /\ Len(fate') = Len(stream') /\ Len(stream') = Len(stream) + 1
    BY <2>1, StoreTyped
  <2>3. Len(stream') >= Len(stream)
    BY <2>2 DEF StreamTypeOK
  <2>4. {cursor, rcursor, pcursor} \subseteq 0..Len(stream') /\ rbuffer \subseteq 1..Len(stream')
    BY <2>2, <2>3, StreamGrown
  <2>5. QED
    BY <1>2, <2>2, <2>4 DEF StreamTypeOK, Publish, adaptervars, effectvars, replayvars, peekvars
<1>3. CASE PublishSkipped(e)
  BY <1>1, <1>3 DEF StreamTypeOK, PublishSkipped, Fault, adaptervars, effectvars, replayvars, peekvars
<1>4. QED
  BY <1>2, <1>3

\* Settling the first message of a buffer.
LEMMA SettleTyped ==
    ASSUME StreamTypeOK, Holders, NEW a \in Adapters, Takes(a), NEW outcome \in Fates, Settle(a, outcome)
    PROVE  /\ fate' \in Seq(Fates) /\ Len(fate') = Len(fate)
           /\ buffer' \in [Adapters -> Seq(Nat)] /\ processed' \in [Adapters -> 0..MaxPerPoll]
           /\ UNCHANGED <<stream, cursor, loop, hand, shutdown, unpublished, replayvars, peekvars>>
<1>1. /\ fate \in Seq(Fates) /\ Len(fate) = Len(stream) /\ buffer \in [Adapters -> Seq(Nat)]
      /\ processed \in [Adapters -> 0..MaxPerPoll] /\ MaxPerPoll \in Nat
  BY StreamAssumption DEF StreamTypeOK
<1>2. buffer[a] # <<>> /\ processed[a] < MaxPerPoll
  BY DEF Takes
<1>3. Head(buffer[a]) \in 1..Len(fate)
  BY <1>1, <1>2, HeldInStream
<1>4. fate' = [fate EXCEPT ![Head(buffer[a])] = outcome]
  BY DEF Settle
<1>5. fate' \in Seq(Fates) /\ Len(fate') = Len(fate)
  BY <1>1, <1>3, <1>4
<1>6. Tail(buffer[a]) \in Seq(Nat)
  BY <1>1, <1>2
<1>7. buffer' \in [Adapters -> Seq(Nat)]
  BY <1>1, <1>6 DEF Settle
<1>8. processed' \in [Adapters -> 0..MaxPerPoll]
  BY <1>1, <1>2 DEF Settle
<1>9. QED
  BY <1>5, <1>7, <1>8 DEF Settle

\* The steps that open a poll or bring it messages.
LEMMA DeliveriesTyped ==
    ASSUME StreamTypeOK, NEW a \in Adapters, OpenPoll(a) \/ Deliver(a)
    PROVE  StreamTypeOK'
<1>1. /\ MaxPerPoll \in Nat /\ MaxPrefetch \in Nat /\ Len(stream) \in Nat /\ cursor \in 0..Len(stream)
      /\ buffer \in [Adapters -> Seq(Nat)] /\ processed \in [Adapters -> 0..MaxPerPoll]
  BY StreamAssumption DEF StreamTypeOK
<1>2. CASE OpenPoll(a)
  <2>1. PICK n \in 1..MaxPrefetch :
            /\ cursor + n <= Len(stream) /\ cursor' = cursor + n
            /\ buffer' = [buffer EXCEPT ![a] = [k \in 1..n |-> cursor + k]]
    BY <1>2 DEF OpenPoll
  <2>2. [k \in 1..n |-> cursor + k] \in Seq(Nat)
    BY <1>1
  <2>3. buffer' \in [Adapters -> Seq(Nat)] /\ cursor' \in 0..Len(stream)
    BY <1>1, <2>1, <2>2
  <2>4. processed' \in [Adapters -> 0..MaxPerPoll]
    BY <1>1, <1>2 DEF OpenPoll
  <2>5. QED
    BY <1>2, <2>3, <2>4 DEF StreamTypeOK, OpenPoll, effectvars, replayvars, peekvars
<1>3. CASE Deliver(a)
  <2>1. Append(buffer[a], cursor + 1) \in Seq(Nat) /\ cursor + 1 \in 0..Len(stream)
    BY <1>1, <1>3 DEF Deliver
  <2>2. buffer' \in [Adapters -> Seq(Nat)] /\ cursor' \in 0..Len(stream)
    BY <1>1, <1>3, <2>1 DEF Deliver
  <2>3. QED
    BY <1>3, <2>2 DEF StreamTypeOK, Deliver, effectvars, replayvars, peekvars
<1>4. QED
  BY <1>2, <1>3

\* The steps that take a message.
LEMMA ConsumersTyped ==
    ASSUME StreamTypeOK, Holders, NEW a \in Adapters,
           PassOver(a) \/ Consume(a) \/ ConsumeFailed(a)
    PROVE  StreamTypeOK'
<1>1. /\ MaxFaults \in Nat /\ Takes(a) /\ FullConsumer \in BOOLEAN
      /\ {effects, doubtful, replays} \subseteq [Events -> Nat]
  BY StreamAssumption DEF StreamTypeOK, PassOver, Consume, ConsumeFailed
<1>2. stream[Head(buffer[a])].event \in Events
  <2>1. Head(buffer[a]) \in 1..Len(stream) /\ stream \in Seq(Message)
    BY <1>1, HeldInStream DEF Takes, StreamTypeOK
  <2>2. stream[Head(buffer[a])] \in Message
    BY <2>1
  <2>3. QED
    BY <2>2 DEF Message
<1>3. ASSUME NEW e \in Events, Made(e) PROVE effects' \in [Events -> Nat]
  BY <1>1, <1>3 DEF Made
<1>4. CASE PassOver(a)
  <2>1. PICK outcome \in Fates : Settle(a, outcome)
    BY <1>4 DEF PassOver, Fates
  <2>2. QED
    BY <1>1, <1>4, <2>1, SettleTyped DEF StreamTypeOK, PassOver, effectvars, replayvars, peekvars
<1>5. CASE Consume(a)
  <2>1. Settle(a, "consumed") /\ "consumed" \in Fates /\ effects' \in [Events -> Nat]
    BY <1>2, <1>3, <1>5 DEF Consume, Fates
  <2>2. QED
    BY <1>1, <1>5, <2>1, SettleTyped DEF StreamTypeOK, Consume, replayvars, peekvars
<1>6. CASE ConsumeFailed(a)
  <2>1. effects' \in [Events -> Nat] /\ doubtful' \in [Events -> Nat] /\ faults' \in 0..MaxFaults
    <3> DEFINE e == stream[Head(buffer[a])].event
    <3>1. \/ UNCHANGED <<effects, doubtful, faults>>
          \/ Fault /\ UNCHANGED <<effects, doubtful>>
          \/ Fault /\ Made(e) /\ doubtful' = [doubtful EXCEPT ![e] = @ + 1]
      BY <1>6 DEF ConsumeFailed, effectvars
    <3>2. e \in Events /\ faults \in 0..MaxFaults
      BY <1>2 DEF StreamTypeOK
    <3> HIDE DEF e
    <3>3. Fault => faults' \in 0..MaxFaults
      BY <1>1, <3>2 DEF Fault
    <3>4. QED
      BY <1>1, <1>3, <3>1, <3>2, <3>3
  <2>2. CASE ~FullConsumer
    <3>1. Settle(a, "failed") /\ "failed" \in Fates
      BY <1>6, <2>2 DEF ConsumeFailed, Fates
    <3>2. QED
      BY <1>1, <2>1, <3>1, SettleTyped DEF StreamTypeOK, replayvars, peekvars
  <2>3. CASE FullConsumer
    <3>1. /\ hand' = [hand EXCEPT ![a] = Head(buffer[a])]
          /\ buffer' = [buffer EXCEPT ![a] = Tail(@)]
          /\ loop' = [loop EXCEPT ![a] = "dead_letter"]
          /\ UNCHANGED <<stream, fate, cursor, processed, shutdown, unpublished, replayvars, peekvars>>
      BY <1>6, <2>3 DEF ConsumeFailed
    <3>2. buffer[a] \in Seq(Nat) /\ buffer[a] # <<>>
      BY <1>1 DEF Takes, StreamTypeOK
    <3>3. Head(buffer[a]) \in Nat /\ Tail(buffer[a]) \in Seq(Nat)
      BY <3>2
    <3>4. /\ hand' \in [Adapters -> Nat] /\ buffer' \in [Adapters -> Seq(Nat)]
          /\ loop' \in [Adapters -> {"poll", "open", "dead_letter", "stopped"}]
      BY <3>1, <3>3 DEF StreamTypeOK
    <3>5. QED
      BY <2>1, <3>1, <3>4 DEF StreamTypeOK, replayvars, peekvars
  <2>4. QED
    BY <1>1, <2>2, <2>3
<1>7. QED
  BY <1>4, <1>5, <1>6

\* Dropping messages keeps the list of fates one.
LEMMA DroppedTyped ==
    ASSUME StreamTypeOK, NEW gone
    PROVE  /\ Dropped(gone) \in Seq(Fates) /\ Len(Dropped(gone)) = Len(fate)
           /\ \A i \in 1..Len(stream) :
                Dropped(gone)[i] = "pending" <=> fate[i] = "pending" /\ i \notin gone
<1>1. /\ fate \in Seq(Fates) /\ DOMAIN fate = 1..Len(fate) /\ Len(fate) \in Nat
      /\ Len(fate) = Len(stream) /\ "dropped" \in Fates
  BY DEF StreamTypeOK, Fates
<1>2. Dropped(gone) = [i \in 1..Len(fate) |-> IF i \in gone THEN "dropped" ELSE fate[i]]
  BY <1>1 DEF Dropped
<1>3. \A i \in 1..Len(fate) : (IF i \in gone THEN "dropped" ELSE fate[i]) \in Fates
  BY <1>1
<1>4. Dropped(gone) \in [1..Len(fate) -> Fates]
  BY <1>2, <1>3
<1>5. Dropped(gone) \in Seq(Fates) /\ Len(Dropped(gone)) = Len(fate)
  BY <1>1, <1>4
<1>6. QED
  BY <1>1, <1>2, <1>5

\* A dead letter, and the ends of polls.
LEMMA EndsTyped ==
    ASSUME StreamTypeOK, Places, Holders, NEW a \in Adapters, DeadLetter(a) \/ EndPoll(a)
    PROVE  StreamTypeOK'
<1>1. MaxFaults \in Nat /\ MaxPerPoll \in Nat /\ faults \in 0..MaxFaults
  BY StreamAssumption DEF StreamTypeOK
<1>2. CASE DeadLetter(a)
  <2>1. hand[a] # 0 /\ processed[a] < MaxPerPoll
    BY <1>2 DEF Places, Place, DeadLetter
  <2>2. hand[a] \in 1..Len(stream)
    BY <2>1, HeldInStream
  <2>3. /\ hand' \in [Adapters -> Nat] /\ processed' \in [Adapters -> 0..MaxPerPoll]
        /\ loop' \in [Adapters -> {"poll", "open", "dead_letter", "stopped"}]
    BY <1>1, <1>2, <2>1 DEF DeadLetter, StreamTypeOK
  <2>4. /\ stream \in Seq(Message) /\ stream[hand[a]] \in Message /\ Len(stream) \in Nat
        /\ fate \in Seq(Fates) /\ Len(fate) = Len(stream)
    BY <2>2 DEF StreamTypeOK
  <2>5. CASE /\ stream' = Append(stream, DeadLetterOf(stream[hand[a]]))
             /\ fate' = Append([fate EXCEPT ![hand[a]] = "dead_lettered"], "pending")
             /\ UNCHANGED faults
    <3>1. DeadLetterOf(stream[hand[a]]) \in Message
      BY <2>4 DEF DeadLetterOf, Message
    <3>2. stream' \in Seq(Message) /\ Len(stream') = Len(stream) + 1
      BY <2>4, <2>5, <3>1
    <3>3. fate' \in Seq(Fates) /\ Len(fate') = Len(fate) + 1
      <4>1. "dead_lettered" \in Fates /\ "pending" \in Fates
        BY DEF Fates
      <4>2. /\ [fate EXCEPT ![hand[a]] = "dead_lettered"] \in Seq(Fates)
            /\ Len([fate EXCEPT ![hand[a]] = "dead_lettered"]) = Len(fate)
        BY <2>2, <2>4, <4>1
      <4>3. QED
        BY <2>5, <4>1, <4>2
    <3>4. {cursor, rcursor, pcursor} \subseteq 0..Len(stream') /\ rbuffer \subseteq 1..Len(stream')
      BY <2>4, <3>2, <3>3, StreamGrown
    <3>5. QED
      BY <1>1, <1>2, <2>3, <2>4, <2>5, <3>2, <3>3, <3>4
         DEF StreamTypeOK, DeadLetter, effectvars, replayvars, peekvars
  <2>6. CASE Fault /\ fate' = [fate EXCEPT ![hand[a]] = "failed"] /\ UNCHANGED stream
    <3>1. fate' \in Seq(Fates) /\ Len(fate') = Len(fate)
      BY <2>2, <2>4, <2>6 DEF Fates
    <3>2. faults' \in 0..MaxFaults
      BY <1>1, <2>6 DEF Fault
    <3>3. QED
      BY <1>2, <2>3, <2>4, <2>6, <3>1, <3>2
         DEF StreamTypeOK, DeadLetter, effectvars, replayvars, peekvars
  <2>7. QED
    BY <1>2, <2>5, <2>6 DEF DeadLetter
<1>3. CASE EndPoll(a)
  <2>1. fate' \in Seq(Fates) /\ Len(fate') = Len(fate)
    BY <1>3, DroppedTyped DEF EndPoll
  <2>2. /\ buffer' \in [Adapters -> Seq(Nat)]
        /\ loop' \in [Adapters -> {"poll", "open", "dead_letter", "stopped"}]
    BY <1>3 DEF EndPoll, StreamTypeOK
  <2>3. QED
    BY <1>3, <2>1, <2>2 DEF StreamTypeOK, EndPoll, effectvars, replayvars, peekvars
<1>4. QED
  BY <1>2, <1>3

\* Shutdowns, restarts and the workers of the dead letters.
LEMMA WorkersTyped ==
    ASSUME StreamTypeOK, Shutdown \/ Restart \/ ReplayPoll \/ Replay \/ ReplayEnd \/ Peek
    PROVE  StreamTypeOK'
<1>1. /\ MaxFaults \in Nat /\ MaxPerPoll \in Nat /\ MaxPerPoll > 0 /\ faults \in 0..MaxFaults
      /\ Len(stream) \in Nat /\ {cursor, rcursor, pcursor} \subseteq 0..Len(stream)
      /\ rbuffer \subseteq 1..Len(stream) /\ rleft \in 0..MaxPerPoll
  BY StreamAssumption DEF StreamTypeOK
<1>2. Fault => faults' \in 0..MaxFaults
  BY <1>1 DEF Fault
<1>3. CASE Shutdown
  BY <1>2, <1>3 DEF Shutdown, StreamTypeOK, effectvars, replayvars, peekvars
<1>4. CASE Restart
  <2>1. fate' \in Seq(Fates) /\ Len(fate') = Len(fate)
    BY <1>4, DroppedTyped DEF Restart
  <2>2. /\ loop' \in [Adapters -> {"poll", "open", "dead_letter", "stopped"}]
        /\ buffer' \in [Adapters -> Seq(Nat)] /\ hand' \in [Adapters -> Nat]
        /\ processed' \in [Adapters -> 0..MaxPerPoll] /\ faults' \in 0..MaxFaults
    BY <1>1, <1>2, <1>4 DEF Restart
  <2>3. /\ shutdown' = FALSE /\ rbuffer' = {} /\ rleft' = 0
        /\ UNCHANGED <<stream, cursor, unpublished, effects, doubtful, replays, rcursor, pcursor, gauge>>
    BY <1>4 DEF Restart, effectvars, peekvars
  <2>4. rleft' \in 0..MaxPerPoll /\ rbuffer' \subseteq 1..Len(stream')
    BY <1>1, <2>3
  <2>5. shutdown' \in BOOLEAN
    BY <2>3, Zenon
  <2>6. /\ stream' \in Seq(Message) /\ fate' \in Seq(Fates) /\ Len(fate') = Len(stream')
        /\ {cursor', rcursor', pcursor'} \subseteq 0..Len(stream')
        /\ unpublished' \subseteq Events /\ gauge' \in 0..MaxPerPoll
        /\ {effects', doubtful', replays'} \subseteq [Events -> Nat]
    BY <2>1, <2>3 DEF StreamTypeOK
  <2>7. QED
    BY <2>2, <2>4, <2>5, <2>6 DEF StreamTypeOK
<1>5. CASE ReplayPoll
  <2>1. PICK last \in rcursor..Len(stream) :
            rcursor' = last /\ rbuffer' = {i \in (rcursor + 1)..last : Matches(i)}
    BY <1>5 DEF ReplayPoll
  <2>2. rcursor' \in 0..Len(stream) /\ rbuffer' \subseteq 1..Len(stream)
    BY <1>1, <2>1
  <2>3. rleft' \in 0..MaxPerPoll
    BY <1>1, <1>5 DEF ReplayPoll
  <2>4. QED
    BY <1>5, <2>2, <2>3 DEF ReplayPoll, StreamTypeOK, adaptervars, effectvars, peekvars
<1>6. CASE Replay
  <2>1. PICK i \in rbuffer :
            /\ Store([stream[i] EXCEPT !.dlq = stream[i].orig = "dlq"])
            /\ replays' = [replays EXCEPT ![stream[i].event] = @ + 1]
            /\ rbuffer' = rbuffer \ {i}
    BY <1>6 DEF Replay
  <2>2. stream[i] \in Message /\ stream \in Seq(Message)
    BY <1>1 DEF StreamTypeOK
  <2>3. [stream[i] EXCEPT !.dlq = stream[i].orig = "dlq"] \in Message
    BY <2>2 DEF Message
  <2>4. /\ stream' \in Seq(Message) /\ fate' \in Seq(Fates)
        /\ Len(fate') = Len(stream') /\ Len(stream') = Len(stream) + 1
    BY <2>1, <2>3, StoreTyped
  <2>5. {cursor, rcursor, pcursor} \subseteq 0..Len(stream') /\ rbuffer' \subseteq 1..Len(stream')
    BY <1>1, <2>1, <2>4, StreamGrown
  <2>6. replays' \in [Events -> Nat]
    <3>1. replays \in [Events -> Nat] /\ stream[i].event \in Events
      BY <2>2 DEF StreamTypeOK, Message
    <3>2. QED
      BY <2>1, <3>1
  <2>7. rleft' \in 0..MaxPerPoll
    BY <1>1, <1>6 DEF Replay
  <2>8. UNCHANGED <<loop, buffer, hand, processed, shutdown, cursor, unpublished, effects,
                    doubtful, rcursor, pcursor, gauge, faults>>
    BY <1>6 DEF Replay, adaptervars, effectvars, peekvars
  <2>9. /\ loop' \in [Adapters -> {"poll", "open", "dead_letter", "stopped"}]
        /\ buffer' \in [Adapters -> Seq(Nat)] /\ hand' \in [Adapters -> Nat]
        /\ processed' \in [Adapters -> 0..MaxPerPoll]
        /\ shutdown' \in BOOLEAN /\ unpublished' \subseteq Events
        /\ {effects', doubtful', replays'} \subseteq [Events -> Nat]
        /\ gauge' \in 0..MaxPerPoll /\ faults' \in 0..MaxFaults
    BY <2>6, <2>8 DEF StreamTypeOK
  <2>10. {cursor', rcursor', pcursor'} \subseteq 0..Len(stream')
    BY <2>5, <2>8
  <2>11. QED
    BY <2>4, <2>5, <2>7, <2>9, <2>10 DEF StreamTypeOK
<1>7. CASE ReplayEnd
  <2>1. faults' \in 0..MaxFaults /\ rbuffer' = {} /\ rleft' = 0
    BY <1>1, <1>2, <1>7 DEF ReplayEnd
  <2>2. QED
    BY <1>1, <1>7, <2>1 DEF ReplayEnd, StreamTypeOK, adaptervars, effectvars, peekvars
<1>8. CASE Peek
  <2>1. pcursor' \in 0..Len(stream) /\ gauge' \in 0..MaxPerPoll
    BY <1>1, <1>8 DEF Peek
  <2>2. QED
    BY <1>8, <2>1 DEF Peek, StreamTypeOK, adaptervars, effectvars, replayvars
<1>9. QED
  BY <1>3, <1>4, <1>5, <1>6, <1>7, <1>8

\* Every step keeps the types.
LEMMA StepTyped ==
    ASSUME StreamTypeOK, Places, Holders, Next
    PROVE  StreamTypeOK'
  BY PublisherTyped, DeliveriesTyped, ConsumersTyped, EndsTyped, WorkersTyped DEF Next, AdapterStep

-----------------------------------------------------------------------------
(* What each step does to the messages. *)

\* Only one adapter moves.
Apart(a) == \A b \in Adapters \ {a} :
    /\ loop'[b] = loop[b] /\ buffer'[b] = buffer[b]
    /\ hand'[b] = hand[b] /\ processed'[b] = processed[b]

\* The others have what they had.
LEMMA ApartKeeps ==
    ASSUME Places, NEW a \in Adapters, Apart(a)
    PROVE  \A b \in Adapters \ {a} : Place(b)' /\ Held(b)' = Held(b)
  BY DEF Apart, Places, Place, Held, In, Distinct

\* What is with one is not with another.
LEMMA MineOnly ==
    ASSUME StreamTypeOK, Holders, Places, NEW a \in Adapters, Apart(a), NEW gone \in SUBSET Held(a),
           Held(a)' = Held(a) \ gone, cursor' = cursor, Len(stream) <= Len(stream'),
           \A i \in 1..Len(stream) :
                /\ stream'[i] = stream[i]
                /\ fate'[i] = "pending" <=> fate[i] = "pending" /\ i \notin gone,
           \A i \in (Len(stream) + 1)..Len(stream') : fate'[i] = "pending"
    PROVE  Taken(gone)
<1>1. \A b \in Adapters \ {a} : Held(b)' = Held(b) /\ Held(b) \intersect gone = {}
  BY ApartKeeps DEF Holders
<1>2. \A b \in Adapters : Held(b)' = Held(b) \ gone
  BY <1>1
<1>3. QED
  BY <1>2 DEF Taken

\* A message is taken and settled.
LEMMA SettleShape ==
    ASSUME StreamTypeOK, Places, Holders, NEW a \in Adapters, Takes(a),
           NEW outcome \in Fates \ {"pending"}, Settle(a, outcome)
    PROVE  /\ Places' /\ Taken({Head(buffer[a])}) /\ stream' = stream
           /\ Head(buffer[a]) \in Held(a)
<1>1. /\ buffer[a] \in Seq(Nat) /\ buffer[a] # <<>> /\ buffer \in [Adapters -> Seq(Nat)]
      /\ processed \in [Adapters -> 0..MaxPerPoll] /\ loop[a] = "open"
      /\ fate \in Seq(Fates) /\ Len(fate) = Len(stream) /\ Len(stream) \in Nat
      /\ processed[a] < MaxPerPoll /\ Place(a)
  BY DEF StreamTypeOK, Takes, Places
<1> DEFINE h == Head(buffer[a])
<1>2. h \in Held(a) /\ h \in 1..Len(stream)
  BY <1>1, HeldInStream
<1>3. /\ fate' = [fate EXCEPT ![h] = outcome] /\ buffer' = [buffer EXCEPT ![a] = Tail(@)]
      /\ processed' = [processed EXCEPT ![a] = @ + 1]
      /\ UNCHANGED <<stream, cursor, loop, hand>>
  BY DEF Settle
<1>4. /\ Distinct(Tail(buffer[a])) /\ In(Tail(buffer[a])) = In(buffer[a]) \ {h}
  BY <1>1, TailOf DEF Place
<1>5. hand[a] = 0 /\ hand'[a] = 0 /\ buffer'[a] = Tail(buffer[a]) /\ loop'[a] = "open" /\ Apart(a)
  BY <1>1, <1>3 DEF Place, Apart
<1>6. Held(a)' = Held(a) \ {h}
  BY <1>4, <1>5 DEF Held, In
<1>7. Place(a)'
  BY <1>1, <1>4, <1>5 DEF Place
<1>8. Places'
  BY <1>5, <1>7, ApartKeeps DEF Places
<1>9. \A i \in 1..Len(stream) :
        stream'[i] = stream[i] /\ (fate'[i] = "pending" <=> fate[i] = "pending" /\ i \notin {h})
  BY <1>1, <1>2, <1>3
<1> HIDE DEF h
<1>10. Taken({h})
  <2>1. {h} \in SUBSET Held(a) /\ cursor' = cursor /\ stream' = stream
    BY <1>2, <1>3
  <2>2. (Len(stream) + 1)..Len(stream') = {} /\ Len(stream) <= Len(stream')
    BY <1>1, <2>1
  <2>3. QED
    BY <1>5, <1>6, <1>9, <2>1, <2>2, MineOnly
<1>11. QED
  BY <1>2, <1>3, <1>8, <1>10 DEF h

\* A message that failed stays in hand until its dead letter.
LEMMA InHandShape ==
    ASSUME StreamTypeOK, Places, Holders, NEW a \in Adapters, ConsumeFailed(a), FullConsumer
    PROVE  Places' /\ Taken({}) /\ stream' = stream
<1>1. /\ buffer[a] \in Seq(Nat) /\ buffer[a] # <<>> /\ buffer \in [Adapters -> Seq(Nat)]
      /\ hand \in [Adapters -> Nat] /\ loop \in [Adapters -> {"poll", "open", "dead_letter", "stopped"}]
      /\ loop[a] = "open" /\ Len(stream) \in Nat
      /\ processed[a] < MaxPerPoll /\ Place(a)
  BY DEF StreamTypeOK, ConsumeFailed, Takes, Places
<1> DEFINE h == Head(buffer[a])
<1>2. h \in Held(a) /\ h \in 1..Len(stream) /\ h # 0 /\ h \in Nat
  <2>1. h \in Held(a) /\ h \in 1..Len(stream)
    BY <1>1, HeldInStream
  <2>2. QED
    BY <1>1, <2>1
<1>3. /\ hand' = [hand EXCEPT ![a] = h] /\ buffer' = [buffer EXCEPT ![a] = Tail(@)]
      /\ loop' = [loop EXCEPT ![a] = "dead_letter"]
      /\ UNCHANGED <<stream, fate, cursor, processed>>
  BY DEF ConsumeFailed
<1>4. /\ Distinct(Tail(buffer[a])) /\ In(Tail(buffer[a])) = In(buffer[a]) \ {h} /\ h \in In(buffer[a])
  BY <1>1, TailOf DEF Place
<1>5. /\ hand[a] = 0 /\ hand'[a] = h /\ buffer'[a] = Tail(buffer[a]) /\ loop'[a] = "dead_letter"
      /\ processed'[a] = processed[a] /\ Apart(a)
  BY <1>1, <1>3 DEF Place, Apart
<1> HIDE DEF h
<1>6. Held(a)' = Held(a) \ {}
  BY <1>2, <1>4, <1>5 DEF Held, In
<1>7. Place(a)'
  BY <1>1, <1>2, <1>4, <1>5 DEF Place
<1>8. Places'
  BY <1>5, <1>7, ApartKeeps DEF Places
<1>9. Taken({})
  <2>1. {} \in SUBSET Held(a) /\ cursor' = cursor /\ stream' = stream /\ fate' = fate
    BY <1>3
  <2>2. (Len(stream) + 1)..Len(stream') = {} /\ Len(stream) <= Len(stream')
    BY <1>1, <2>1
  <2>3. QED
    BY <1>5, <1>6, <2>1, <2>2, MineOnly
<1>10. QED
  BY <1>3, <1>8, <1>9

\* The dead letter settles the message in hand and enters in its place, or not.
LEMMA DeadLetterShape ==
    ASSUME StreamTypeOK, Places, Holders, NEW a \in Adapters, DeadLetter(a)
    PROVE  /\ Places' /\ Taken({hand[a]}) /\ hand[a] \in Held(a)
           /\ \/ stream' = stream
              \/ /\ Len(stream') = Len(stream) + 1
                 /\ stream'[Len(stream')].event = stream[hand[a]].event
<1>1. /\ hand[a] # 0 /\ loop[a] = "dead_letter" /\ processed[a] < MaxPerPoll /\ Place(a)
      /\ stream \in Seq(Message) /\ fate \in Seq(Fates) /\ Len(fate) = Len(stream)
      /\ Len(stream) \in Nat /\ hand \in [Adapters -> Nat] /\ processed \in [Adapters -> 0..MaxPerPoll]
      /\ loop \in [Adapters -> {"poll", "open", "dead_letter", "stopped"}]
  BY DEF StreamTypeOK, Places, Place, DeadLetter
<1> DEFINE h == hand[a]
<1>2. h \in Held(a) /\ h \in 1..Len(stream)
  BY <1>1, HeldInStream
<1>3. /\ hand' = [hand EXCEPT ![a] = 0] /\ processed' = [processed EXCEPT ![a] = @ + 1]
      /\ loop' = [loop EXCEPT ![a] = "open"] /\ UNCHANGED <<cursor, buffer>>
  BY DEF DeadLetter
<1>4. hand'[a] = 0 /\ buffer' = buffer /\ loop'[a] = "open" /\ Apart(a)
  BY <1>1, <1>3 DEF Apart
<1>5. Held(a)' = Held(a) \ {h}
  BY <1>1, <1>4 DEF Held, Place, In
<1>6. Place(a)'
  <2>1. 0 \notin In(buffer[a])
    <3>1. In(buffer[a]) \subseteq Held(a)
      BY DEF In, Held
    <3>2. \A i \in Held(a) : i \in 1..Len(stream)
      BY HeldInStream
    <3>3. QED
      BY <1>1, <3>1, <3>2
  <2>2. QED
    BY <1>1, <1>4, <2>1 DEF Place
<1>7. Places'
  BY <1>4, <1>6, ApartKeeps DEF Places
<1>8. /\ \A i \in 1..Len(stream) :
            stream'[i] = stream[i] /\ (fate'[i] = "pending" <=> fate[i] = "pending" /\ i \notin {h})
      /\ Len(stream) <= Len(stream')
      /\ \A i \in (Len(stream) + 1)..Len(stream') : fate'[i] = "pending"
      /\ \/ stream' = stream
         \/ Len(stream') = Len(stream) + 1 /\ stream'[Len(stream')].event = stream[h].event
  <2>1. CASE /\ stream' = Append(stream, DeadLetterOf(stream[h]))
             /\ fate' = Append([fate EXCEPT ![h] = "dead_lettered"], "pending")
    <3> DEFINE settled == [fate EXCEPT ![h] = "dead_lettered"]
    <3>1. /\ settled \in Seq(Fates) /\ Len(settled) = Len(stream)
          /\ \A i \in 1..Len(stream) : settled[i] = "pending" <=> fate[i] = "pending" /\ i \notin {h}
      BY <1>1, <1>2 DEF Fates
    <3>2. fate' = Append(settled, "pending")
      BY <2>1
    <3> HIDE DEF settled, h
    <3>3. /\ DeadLetterOf(stream[h]) \in Message /\ DeadLetterOf(stream[h]).event = stream[h].event
      <4>1. stream[h] \in Message
        BY <1>1, <1>2
      <4>2. QED
        BY <4>1 DEF DeadLetterOf, Message
    <3>4. /\ Len(stream') = Len(stream) + 1 /\ stream'[Len(stream')] = DeadLetterOf(stream[h])
          /\ \A i \in 1..Len(stream) : stream'[i] = stream[i]
      BY <1>1, <2>1, <3>3
    <3>5. /\ fate'[Len(stream) + 1] = "pending"
          /\ \A i \in 1..Len(stream) : fate'[i] = settled[i]
      BY <1>1, <3>1, <3>2 DEF Fates
    <3>6. \A i \in (Len(stream) + 1)..Len(stream') : fate'[i] = "pending"
      <4>1. \A i \in (Len(stream) + 1)..Len(stream') : i = Len(stream) + 1
        BY <1>1, <3>4
      <4>2. QED
        BY <3>5, <4>1
    <3>7. QED
      BY <1>1, <3>1, <3>3, <3>4, <3>5, <3>6
  <2>2. CASE fate' = [fate EXCEPT ![h] = "failed"] /\ stream' = stream
    <3>1. (Len(stream) + 1)..Len(stream') = {} /\ Len(stream) <= Len(stream')
      BY <1>1, <2>2
    <3>2. QED
      BY <1>1, <1>2, <2>2, <3>1
  <2>3. QED
    BY <2>1, <2>2 DEF DeadLetter
<1>9. Taken({h})
  <2>1. {h} \in SUBSET Held(a) /\ cursor' = cursor
    BY <1>2, <1>3
  <2> HIDE DEF h
  <2>2. QED
    BY <1>4, <1>5, <1>8, <2>1, MineOnly
<1>10. QED
  BY <1>2, <1>7, <1>8, <1>9

\* The end of a poll drops what the adapter still had.
LEMMA EndPollShape ==
    ASSUME StreamTypeOK, Places, Holders, NEW a \in Adapters, EndPoll(a)
    PROVE  Places' /\ Taken(Held(a)) /\ stream' = stream
<1>1. /\ buffer \in [Adapters -> Seq(Nat)] /\ Len(stream) \in Nat /\ Place(a)
      /\ loop \in [Adapters -> {"poll", "open", "dead_letter", "stopped"}]
  BY DEF StreamTypeOK, Places
<1>2. /\ loop[a] \in {"poll", "open"} /\ fate' = Dropped(Held(a))
      /\ buffer' = [buffer EXCEPT ![a] = <<>>]
      /\ loop' = [loop EXCEPT ![a] = IF shutdown THEN "stopped" ELSE "poll"]
      /\ UNCHANGED <<stream, cursor, hand, processed>>
  BY DEF EndPoll
<1>3. /\ hand'[a] = 0 /\ buffer'[a] = <<>> /\ loop'[a] \in {"stopped", "poll"} /\ Apart(a)
      /\ hand[a] = 0
  BY <1>1, <1>2 DEF Place, Apart
<1>4. Held(a)' = Held(a) \ Held(a)
  BY <1>3 DEF Held
<1>5. Place(a)'
  BY <1>3 DEF Place, Distinct, In
<1>6. Places'
  BY <1>3, <1>5, ApartKeeps DEF Places
<1>7. Taken(Held(a))
  <2>1. Held(a) \in SUBSET Held(a) /\ cursor' = cursor /\ stream' = stream
    BY <1>2
  <2>2. (Len(stream) + 1)..Len(stream') = {} /\ Len(stream) <= Len(stream')
    BY <1>1, <2>1
  <2>3. \A i \in 1..Len(stream) :
            /\ stream'[i] = stream[i]
            /\ fate'[i] = "pending" <=> fate[i] = "pending" /\ i \notin Held(a)
    BY <1>2, DroppedTyped
  <2>4. QED
    BY <1>3, <1>4, <2>1, <2>2, <2>3, MineOnly
<1>8. QED
  BY <1>2, <1>6, <1>7

\* A restart drops what all of them had.
LEMMA RestartShape ==
    ASSUME StreamTypeOK, Restart
    PROVE  Places' /\ Taken(UNION {Held(a) : a \in Adapters}) /\ stream' = stream
<1> DEFINE all == UNION {Held(a) : a \in Adapters}
<1>1. /\ fate' = Dropped(all) /\ loop' = [a \in Adapters |-> "poll"]
      /\ buffer' = [a \in Adapters |-> <<>>] /\ hand' = [a \in Adapters |-> 0]
      /\ UNCHANGED <<stream, cursor>>
  BY DEF Restart
<1>2. \A b \in Adapters : loop'[b] = "poll" /\ buffer'[b] = <<>> /\ hand'[b] = 0
  BY <1>1
<1>3. Places'
  BY <1>2 DEF Places, Place, Distinct, In
<1>4. \A b \in Adapters : Held(b)' = {}
  BY <1>2 DEF Held
<1>5. \A b \in Adapters : Held(b)' = Held(b) \ all
  BY <1>4
<1> HIDE DEF all
<1>6. \A i \in 1..Len(stream) :
        stream'[i] = stream[i] /\ (fate'[i] = "pending" <=> fate[i] = "pending" /\ i \notin all)
  BY <1>1, DroppedTyped
<1>7. Len(stream) \in Nat /\ (Len(stream) + 1)..Len(stream') = {} /\ Len(stream) <= Len(stream')
  BY <1>1 DEF StreamTypeOK
<1>8. Taken(all)
  BY <1>1, <1>5, <1>6, <1>7 DEF Taken, all
<1>9. QED
  BY <1>1, <1>3, <1>8 DEF all

\* Nothing moves in the adapters, and at most one message enters.
LEMMA IdleShape ==
    ASSUME StreamTypeOK, Places, UNCHANGED <<cursor, adaptervars>>
    PROVE  /\ Places'
           /\ UNCHANGED <<stream, fate>> => Taken({})
           /\ \A m \in Message : Store(m) =>
                Taken({}) /\ Len(stream') = Len(stream) + 1 /\ stream'[Len(stream')] = m
<1>1. UNCHANGED <<loop, buffer, hand, processed>> /\ cursor' = cursor /\ Len(stream) \in Nat
  BY DEF adaptervars, StreamTypeOK
<1>2. Places'
  BY <1>1 DEF Places, Place, Distinct, In
<1>3. \A b \in Adapters : Held(b)' = Held(b) \ {}
  BY <1>1 DEF Held
<1>4. ASSUME UNCHANGED <<stream, fate>> PROVE Taken({})
  BY <1>1, <1>3, <1>4 DEF Taken
<1>5. ASSUME NEW m \in Message, Store(m)
      PROVE  Taken({}) /\ Len(stream') = Len(stream) + 1 /\ stream'[Len(stream')] = m
  <2>1. /\ Len(stream') = Len(stream) + 1 /\ stream'[Len(stream')] = m
        /\ fate'[Len(stream')] = "pending"
        /\ \A i \in 1..Len(stream) : stream'[i] = stream[i] /\ fate'[i] = fate[i]
    BY <1>5, StoreTyped
  <2>2. \A i \in (Len(stream) + 1)..Len(stream') : i = Len(stream')
    BY <1>1, <2>1
  <2>3. \A i \in (Len(stream) + 1)..Len(stream') : fate'[i] = "pending"
    BY <2>1, <2>2
  <2>4. Len(stream) <= Len(stream')
    BY <1>1, <2>1
  <2>5. Taken({})
    BY <1>1, <1>3, <2>1, <2>3, <2>4 DEF Taken
  <2>6. QED
    BY <2>1, <2>5
<1>6. QED
  BY <1>2, <1>4, <1>5

\* A delivery gives an adapter what lies next.
LEMMA DeliveryShape ==
    ASSUME StreamTypeOK, Places, Holders, NEW a \in Adapters, OpenPoll(a) \/ Deliver(a)
    PROVE  Places' /\ Holders' /\ UNCHANGED <<stream, fate>>
<1>1. /\ buffer[a] \in Seq(Nat) /\ buffer \in [Adapters -> Seq(Nat)] /\ Place(a)
      /\ loop \in [Adapters -> {"poll", "open", "dead_letter", "stopped"}]
      /\ processed \in [Adapters -> 0..MaxPerPoll]
      /\ Len(stream) \in Nat /\ cursor \in 0..Len(stream)
  BY DEF StreamTypeOK, Places
<1>2. CASE OpenPoll(a)
  <2>1. PICK n \in 1..MaxPrefetch :
            /\ cursor + n <= Len(stream) /\ cursor' = cursor + n
            /\ buffer' = [buffer EXCEPT ![a] = [k \in 1..n |-> cursor + k]]
    BY <1>2 DEF OpenPoll
  <2>2. n \in Nat
    BY StreamAssumption
  <2>3. /\ loop[a] = "poll" /\ loop' = [loop EXCEPT ![a] = "open"]
        /\ processed' = [processed EXCEPT ![a] = 0] /\ UNCHANGED <<stream, fate, hand>>
    BY <1>2 DEF OpenPoll
  <2>4. /\ hand[a] = 0 /\ buffer[a] = <<>> /\ buffer'[a] = [k \in 1..n |-> cursor + k]
        /\ loop'[a] = "open" /\ hand'[a] = 0 /\ Apart(a)
    BY <1>1, <2>1, <2>3 DEF Place, Apart
  <2>5. In(buffer'[a]) = (cursor + 1)..(cursor + n)
    <3>1. \A k \in 1..n : cursor + k \in (cursor + 1)..(cursor + n)
      BY <1>1, <2>2
    <3>2. ASSUME NEW i \in (cursor + 1)..(cursor + n) PROVE i \in In(buffer'[a])
      <4>1. i - cursor \in 1..n /\ i = cursor + (i - cursor)
        BY <1>1, <2>2
      <4>2. i - cursor \in DOMAIN buffer'[a] /\ i = buffer'[a][i - cursor]
        BY <2>4, <4>1
      <4>3. QED
        BY <4>2 DEF In
    <3>3. QED
      BY <2>4, <3>1, <3>2 DEF In
  <2>6. Distinct(buffer'[a])
    BY <1>1, <2>2, <2>4 DEF Distinct
  <2>7. Held(a)' = Held(a) \union ((cursor + 1)..(cursor + n))
    BY <2>4, <2>5 DEF Held, In
  <2>8. Place(a)'
    <3>1. 0 \notin In(buffer'[a])
      BY <1>1, <2>5
    <3>2. QED
      BY <2>4, <2>6, <3>1 DEF Place
  <2>9. QED
    BY <2>1, <2>2, <2>3, <2>4, <2>7, <2>8, ApartKeeps, DeliveredHolders DEF Places
<1>3. CASE Deliver(a)
  <2>1. /\ loop[a] = "open" /\ cursor < Len(stream) /\ cursor' = cursor + 1
        /\ buffer' = [buffer EXCEPT ![a] = Append(@, cursor + 1)]
        /\ UNCHANGED <<stream, fate, loop, hand, processed>>
    BY <1>3 DEF Deliver
  <2>2. /\ hand[a] = 0 /\ buffer'[a] = Append(buffer[a], cursor + 1)
        /\ loop'[a] = "open" /\ hand'[a] = 0 /\ Apart(a)
    BY <1>1, <2>1 DEF Place, Apart
  <2>3. cursor + 1 \notin In(buffer[a]) /\ cursor + 1 \in Nat
    <3>1. In(buffer[a]) \subseteq Held(a)
      BY DEF In, Held
    <3>2. \A i \in Held(a) : i <= cursor
      BY HeldInStream
    <3>3. QED
      BY <1>1, <3>1, <3>2
  <2>4. Distinct(buffer'[a]) /\ In(buffer'[a]) = In(buffer[a]) \union {cursor + 1}
    BY <1>1, <2>2, <2>3, AppendOf DEF Place
  <2>5. (cursor + 1)..(cursor + 1) = {cursor + 1} /\ cursor + 1 <= Len(stream) /\ 1 \in Nat
    BY <1>1, <2>1
  <2>6. Held(a)' = Held(a) \union ((cursor + 1)..(cursor + 1))
    BY <2>2, <2>4, <2>5 DEF Held, In
  <2>7. Place(a)'
    <3>1. 0 \notin In(buffer'[a])
      BY <1>1, <2>2, <2>4 DEF Place
    <3>2. QED
      BY <2>2, <2>4, <3>1 DEF Place
  <2>8. QED
    BY <2>1, <2>2, <2>5, <2>6, <2>7, ApartKeeps, DeliveredHolders DEF Places
<1>4. QED
  BY <1>2, <1>3

-----------------------------------------------------------------------------
(* What an event may still bring about. *)

\* Settling messages does not add to what waits, and of one takes one away.
LEMMA WaitingSettled ==
    ASSUME StreamTypeOK, StreamTypeOK', NEW gone, Taken(gone), stream' = stream, NEW e
    PROVE  /\ Cardinality(Waiting(e)') <= Cardinality(Waiting(e))
           /\ \A h : gone = {h} /\ h \in Waiting(e) => Cardinality(Waiting(e)') = Cardinality(Waiting(e)) - 1
<1>1. Len(stream) \in Nat /\ (Len(stream) + 1)..Len(stream') = {}
  BY DEF StreamTypeOK
<1>2. Waiting(e)' = Waiting(e) \ gone
  BY <1>1, TakenWaiting
<1>3. IsFiniteSet(Waiting(e)) /\ Cardinality(Waiting(e)) \in Nat
  BY WaitingFinite
<1>4. Cardinality(Waiting(e)') <= Cardinality(Waiting(e))
  BY <1>2, <1>3, FS_Subset
<1>5. \A h \in Waiting(e) : Cardinality(Waiting(e) \ {h}) = Cardinality(Waiting(e)) - 1
  BY <1>3, FS_RemoveElement
<1>6. QED
  BY <1>2, <1>4, <1>5

\* A message that enters is one more of its event.
LEMMA WaitingEntered ==
    ASSUME StreamTypeOK, StreamTypeOK', NEW gone, Taken(gone), Len(stream') = Len(stream) + 1, NEW e
    PROVE  Cardinality(Waiting(e)') = Cardinality(Waiting(e) \ gone)
                + (IF stream'[Len(stream')].event = e THEN 1 ELSE 0)
<1>1. Len(stream) \in Nat /\ (Len(stream) + 1)..Len(stream') = {Len(stream')}
  BY DEF StreamTypeOK
<1>2. Waiting(e)' = (Waiting(e) \ gone) \union {i \in {Len(stream')} : stream'[i].event = e}
  BY <1>1, TakenWaiting
<1>3. IsFiniteSet(Waiting(e) \ gone) /\ Cardinality(Waiting(e) \ gone) \in Nat
  BY WaitingFinite, FS_Subset, FS_CardinalityType
<1>4. Len(stream') \notin Waiting(e) \ gone
  BY <1>1 DEF Waiting
<1>5. CASE stream'[Len(stream')].event = e
  <2>1. Waiting(e)' = (Waiting(e) \ gone) \union {Len(stream')}
    BY <1>2, <1>5
  <2>2. Cardinality(Waiting(e)') = Cardinality(Waiting(e) \ gone) + 1
    BY <1>3, <1>4, <2>1, FS_AddElement
  <2>3. QED
    BY <1>5, <2>2
<1>6. CASE stream'[Len(stream')].event # e
  <2>1. Waiting(e)' = Waiting(e) \ gone
    BY <1>2, <1>6
  <2>2. QED
    BY <1>3, <1>6, <2>1
<1>7. QED
  BY <1>5, <1>6

\* What waits after a step is finite too.
LEMMA TakenFinite ==
    ASSUME StreamTypeOK', NEW e
    PROVE  Cardinality(Waiting(e)') \in Nat
<1>1. Len(stream') \in Nat
  BY DEF StreamTypeOK
<1>2. IsFiniteSet(1..Len(stream'))
  BY <1>1, FS_Interval
<1>3. Waiting(e)' \subseteq 1..Len(stream')
  BY DEF Waiting
<1>4. QED
  BY <1>2, <1>3, FS_Subset, FS_CardinalityType

\* What an adapter takes is waiting.
LEMMA HeldWaits ==
    ASSUME StreamTypeOK, Holders, NEW a \in Adapters, NEW h \in Held(a)
    PROVE  h \in Waiting(stream[h].event) /\ stream[h].event \in Events
<1>1. h \in 1..Len(stream) /\ fate[h] = "pending"
  BY HeldInStream
<1>2. stream[h] \in Message
  BY <1>1 DEF StreamTypeOK
<1>3. QED
  BY <1>1, <1>2 DEF Waiting, Message

\* Steps that make nothing, publish nothing and let nothing in.
LEMMA NothingMade ==
    ASSUME StreamTypeOK, StreamTypeOK', Counted, NEW gone, Taken(gone), stream' = stream,
           UNCHANGED <<effects, doubtful, replays>>, unpublished' \subseteq unpublished
    PROVE  Counted'
<1> SUFFICES ASSUME NEW e \in Events
             PROVE  effects[e] + Cardinality(Waiting(e)') + Unsent(e)' <= 1 + doubtful[e] + replays[e]
  BY DEF Counted
<1>1. Cardinality(Waiting(e)') <= Cardinality(Waiting(e))
  BY WaitingSettled
<1>2. /\ Cardinality(Waiting(e)) \in Nat /\ Cardinality(Waiting(e)') \in Nat
      /\ effects[e] \in Nat /\ doubtful[e] \in Nat /\ replays[e] \in Nat
  <2>1. Cardinality(Waiting(e)) \in Nat /\ Cardinality(Waiting(e)') \in Nat
    BY WaitingFinite, TakenFinite
  <2>2. QED
    BY <2>1 DEF StreamTypeOK
<1>3. Unsent(e)' <= Unsent(e) /\ Unsent(e) \in Nat /\ Unsent(e)' \in Nat
  BY DEF Unsent
<1>4. effects[e] + Cardinality(Waiting(e)) + Unsent(e) <= 1 + doubtful[e] + replays[e]
  BY DEF Counted
<1>5. QED
  BY <1>1, <1>2, <1>3, <1>4

\* The numbers that the count is made of.
LEMMA CountTyped ==
    ASSUME StreamTypeOK, StreamTypeOK', NEW e \in Events
    PROVE  /\ Cardinality(Waiting(e)) \in Nat /\ Cardinality(Waiting(e)') \in Nat
           /\ effects[e] \in Nat /\ doubtful[e] \in Nat /\ replays[e] \in Nat
           /\ Unsent(e) \in {0, 1} /\ Unsent(e)' \in {0, 1}
<1>1. Cardinality(Waiting(e)) \in Nat /\ Cardinality(Waiting(e)') \in Nat
  BY WaitingFinite, TakenFinite
<1>2. Unsent(e) \in {0, 1} /\ Unsent(e)' \in {0, 1}
  BY DEF Unsent
<1>3. QED
  BY <1>1, <1>2 DEF StreamTypeOK

\* The effect takes the place of the message it was made of.
LEMMA OneMade ==
    ASSUME StreamTypeOK, StreamTypeOK', Holders, Counted, NEW a \in Adapters, NEW h \in Held(a),
           Taken({h}), stream' = stream, Made(stream[h].event),
           UNCHANGED <<doubtful, replays, unpublished>>
    PROVE  Counted'
<1> SUFFICES ASSUME NEW e \in Events
             PROVE  effects'[e] + Cardinality(Waiting(e)') + Unsent(e)' <= 1 + doubtful[e] + replays[e]
  BY DEF Counted
<1>1. /\ Cardinality(Waiting(e)) \in Nat /\ Cardinality(Waiting(e)') \in Nat
      /\ effects[e] \in Nat /\ doubtful[e] \in Nat /\ replays[e] \in Nat
      /\ Unsent(e) \in {0, 1} /\ Unsent(e)' \in {0, 1}
  BY CountTyped
<1>2. Unsent(e)' = Unsent(e)
  BY DEF Unsent
<1>3. effects[e] + Cardinality(Waiting(e)) + Unsent(e) <= 1 + doubtful[e] + replays[e]
  BY DEF Counted
<1>4. effects'[e] = IF e = stream[h].event THEN effects[e] + 1 ELSE effects[e]
  BY DEF Made, StreamTypeOK
<1>5. CASE e = stream[h].event
  <2>1. h \in Waiting(e)
    BY <1>5, HeldWaits
  <2>2. Cardinality(Waiting(e)') = Cardinality(Waiting(e)) - 1
    BY <2>1, WaitingSettled
  <2>3. QED
    BY <1>1, <1>2, <1>3, <1>4, <1>5, <2>2
<1>6. CASE e # stream[h].event
  <2>1. Cardinality(Waiting(e)') <= Cardinality(Waiting(e))
    BY WaitingSettled
  <2>2. QED
    BY <1>1, <1>2, <1>3, <1>4, <1>6, <2>1
<1>7. QED
  BY <1>5, <1>6

\* A store that answers with an error after its insert is counted as doubtful.
LEMMA DoubtfulMade ==
    ASSUME StreamTypeOK, StreamTypeOK', Counted, NEW gone, Taken(gone), stream' = stream,
           NEW x \in Events, Made(x), doubtful' = [doubtful EXCEPT ![x] = @ + 1],
           UNCHANGED <<replays, unpublished>>
    PROVE  Counted'
<1> SUFFICES ASSUME NEW e \in Events
             PROVE  effects'[e] + Cardinality(Waiting(e)') + Unsent(e)' <= 1 + doubtful'[e] + replays[e]
  BY DEF Counted
<1>1. /\ Cardinality(Waiting(e)) \in Nat /\ Cardinality(Waiting(e)') \in Nat
      /\ effects[e] \in Nat /\ doubtful[e] \in Nat /\ replays[e] \in Nat
      /\ Unsent(e) \in {0, 1} /\ Unsent(e)' \in {0, 1}
  BY CountTyped
<1>2. Unsent(e)' = Unsent(e)
  BY DEF Unsent
<1>3. effects[e] + Cardinality(Waiting(e)) + Unsent(e) <= 1 + doubtful[e] + replays[e]
  BY DEF Counted
<1>4. /\ effects'[e] = IF e = x THEN effects[e] + 1 ELSE effects[e]
      /\ doubtful'[e] = IF e = x THEN doubtful[e] + 1 ELSE doubtful[e]
  BY DEF Made, StreamTypeOK
<1>5. Cardinality(Waiting(e)') <= Cardinality(Waiting(e))
  BY WaitingSettled
<1>6. QED
  BY <1>1, <1>2, <1>3, <1>4, <1>5

\* A message of x enters the stream; it was still to be sent, takes the place
\* of another that is gone, or is a replay.
Entered(x) == Len(stream') = Len(stream) + 1 /\ stream'[Len(stream')].event = x

Entitled(x, gone) ==
    \/ x \in unpublished /\ unpublished' = unpublished \ {x} /\ UNCHANGED replays
    \/ UNCHANGED <<unpublished, replays>> /\ \E h \in Waiting(x) : gone = {h}
    \/ UNCHANGED unpublished /\ replays' = [replays EXCEPT ![x] = @ + 1]

\* Such a message keeps the count.
LEMMA OneEntered ==
    ASSUME StreamTypeOK, StreamTypeOK', Counted, NEW gone, Taken(gone),
           NEW x \in Events, Entered(x), Entitled(x, gone), UNCHANGED <<effects, doubtful>>
    PROVE  Counted'
<1> SUFFICES ASSUME NEW e \in Events
             PROVE  effects[e] + Cardinality(Waiting(e)') + Unsent(e)' <= 1 + doubtful[e] + replays'[e]
  BY DEF Counted
<1>1. /\ Cardinality(Waiting(e)) \in Nat /\ Cardinality(Waiting(e)') \in Nat
      /\ effects[e] \in Nat /\ doubtful[e] \in Nat /\ replays[e] \in Nat
      /\ Unsent(e) \in {0, 1} /\ Unsent(e)' \in {0, 1}
  BY CountTyped
<1>2. effects[e] + Cardinality(Waiting(e)) + Unsent(e) <= 1 + doubtful[e] + replays[e]
  BY DEF Counted
<1> DEFINE inc == IF x = e THEN 1 ELSE 0
           left == Cardinality(Waiting(e) \ gone)
<1>3. Cardinality(Waiting(e)') = left + inc
  BY WaitingEntered DEF Entered
<1>4. IsFiniteSet(Waiting(e))
  BY WaitingFinite
<1>5. left <= Cardinality(Waiting(e)) /\ left \in Nat
  BY <1>4, FS_Subset, FS_CardinalityType
<1>6. effects[e] + left + Unsent(e) <= 1 + doubtful[e] + replays[e]
  <2> HIDE DEF left
  <2>1. QED
    BY <1>1, <1>2, <1>5
<1>7. inc \in {0, 1} /\ (x # e => inc = 0)
  OBVIOUS
<1>8. CASE x \in unpublished /\ unpublished' = unpublished \ {x} /\ UNCHANGED replays
  <2>1. Unsent(e)' + inc = Unsent(e)
    BY <1>8 DEF Unsent
  <2>2. replays'[e] = replays[e]
    BY <1>8
  <2>3. /\ Unsent(e) \in Nat /\ Unsent(e)' \in Nat /\ inc \in Nat /\ replays'[e] \in Nat
    BY <1>1, <1>7, <2>2
  <2> HIDE DEF inc, left
  <2>4. Unsent(e)' + inc + replays[e] = Unsent(e) + replays'[e]
    BY <1>1, <2>1, <2>2, <2>3
  <2>5. effects[e] + (left + inc) + Unsent(e)' <= 1 + doubtful[e] + replays'[e]
    BY <1>1, <1>5, <1>6, <2>3, <2>4
  <2>6. QED
    BY <1>3, <2>5
<1>9. CASE UNCHANGED <<unpublished, replays>> /\ \E h \in Waiting(x) : gone = {h}
  <2>1. Unsent(e)' = Unsent(e)
    BY <1>9 DEF Unsent
  <2>2. x = e => left = Cardinality(Waiting(e)) - 1
    BY <1>4, <1>9, FS_RemoveElement
  <2>3. replays'[e] = replays[e]
    BY <1>9
  <2> HIDE DEF inc, left
  <2>4. QED
    BY <1>1, <1>2, <1>3, <1>5, <1>7, <2>1, <2>2, <2>3
<1>10. CASE UNCHANGED unpublished /\ replays' = [replays EXCEPT ![x] = @ + 1]
  <2>1. Unsent(e)' = Unsent(e)
    BY <1>10 DEF Unsent
  <2>2. DOMAIN replays = Events
    BY DEF StreamTypeOK
  <2>3. replays'[e] = replays[e] + inc
    <3>1. CASE x = e
      BY <1>10, <2>2, <3>1
    <3>2. CASE x # e
      <4>1. replays'[e] = replays[e]
        BY <1>10, <2>2, <3>2
      <4>2. QED
        BY <1>1, <3>2, <4>1
    <3>3. QED
      BY <3>1, <3>2
  <2>4. /\ Unsent(e) \in Nat /\ Unsent(e)' \in Nat /\ inc \in Nat /\ replays'[e] \in Nat
    BY <1>1, <1>7, <2>3
  <2> HIDE DEF inc, left
  <2>5. Unsent(e)' + inc + replays[e] = Unsent(e) + replays'[e]
    BY <1>1, <2>1, <2>3, <2>4
  <2>6. effects[e] + (left + inc) + Unsent(e)' <= 1 + doubtful[e] + replays'[e]
    BY <1>1, <1>5, <1>6, <2>4, <2>5
  <2>7. QED
    BY <1>3, <2>6
<1>11. QED
  BY <1>8, <1>9, <1>10 DEF Entitled

-----------------------------------------------------------------------------
(* The invariant. *)

Rest == Places /\ Holders /\ Counted

\* The publisher's steps.
LEMMA PublisherKeeps ==
    ASSUME StreamTypeOK, StreamTypeOK', Rest, NEW e \in Events, Publish(e) \/ PublishSkipped(e)
    PROVE  Rest'
<1>1. Places /\ Holders /\ Counted /\ UNCHANGED <<cursor, adaptervars, effects, doubtful, replays>>
  BY DEF Rest, Publish, PublishSkipped, effectvars, replayvars
<1>2. CASE Publish(e)
  <2> DEFINE m == [event |-> e, dlq |-> FALSE, orig |-> "none"]
  <2>1. m \in Message /\ m.event = e /\ Store(m) /\ e \in unpublished /\ unpublished' = unpublished \ {e}
    BY <1>2 DEF Publish, Message
  <2> HIDE DEF m
  <2>2. Places' /\ Taken({}) /\ Len(stream') = Len(stream) + 1 /\ stream'[Len(stream')] = m
    BY <1>1, <2>1, IdleShape
  <2>3. Holders'
    BY <1>1, <2>2, TakenHolders
  <2>4. Counted'
    BY <1>1, <2>1, <2>2, OneEntered DEF Entered, Entitled
  <2>5. QED
    BY <2>2, <2>3, <2>4 DEF Rest
<1>3. CASE PublishSkipped(e)
  <2>1. UNCHANGED <<stream, fate>> /\ unpublished' \subseteq unpublished
    BY <1>3 DEF PublishSkipped
  <2>2. Places' /\ Taken({})
    BY <1>1, <2>1, IdleShape
  <2>3. Holders' /\ Counted'
    BY <1>1, <2>1, <2>2, TakenHolders, NothingMade
  <2>4. QED
    BY <2>2, <2>3 DEF Rest
<1>4. QED
  BY <1>2, <1>3

\* The steps of the poll loops.
LEMMA AdapterKeeps ==
    ASSUME StreamTypeOK, StreamTypeOK', Rest, NEW a \in Adapters, AdapterStep(a) \/ Deliver(a)
    PROVE  Rest'
<1>1. Places /\ Holders /\ Counted
  BY DEF Rest
<1>2. CASE OpenPoll(a) \/ Deliver(a)
  <2>1. Places' /\ Holders' /\ UNCHANGED <<stream, fate>>
    BY <1>1, <1>2, DeliveryShape
  <2>2. UNCHANGED <<effects, doubtful, replays, unpublished>>
    BY <1>2 DEF OpenPoll, Deliver, effectvars, replayvars
  <2>3. \A e : Waiting(e)' = Waiting(e) /\ Unsent(e)' = Unsent(e)
    BY <2>1, <2>2 DEF Waiting, Unsent
  <2>4. Counted'
    BY <1>1, <2>2, <2>3 DEF Counted
  <2>5. QED
    BY <2>1, <2>4 DEF Rest
<1>3. CASE PassOver(a)
  <2>1. PICK outcome \in Fates \ {"pending"} : Settle(a, outcome)
    BY <1>3 DEF PassOver, Fates
  <2>2. Takes(a) /\ UNCHANGED <<effects, doubtful, replays, unpublished>>
    BY <1>3, <2>1 DEF PassOver, Settle, effectvars, replayvars
  <2>3. Places' /\ Taken({Head(buffer[a])}) /\ stream' = stream
    BY <1>1, <2>1, <2>2, SettleShape
  <2>4. Holders' /\ Counted'
    BY <1>1, <2>2, <2>3, TakenHolders, NothingMade
  <2>5. QED
    BY <2>3, <2>4 DEF Rest
<1>4. CASE Consume(a)
  <2> DEFINE h == Head(buffer[a])
  <2>1. /\ Takes(a) /\ Settle(a, "consumed") /\ Made(stream[h].event)
        /\ UNCHANGED <<doubtful, replays, unpublished>> /\ "consumed" \in Fates \ {"pending"}
    BY <1>4 DEF Consume, Settle, replayvars, Fates
  <2>2. Places' /\ Taken({h}) /\ stream' = stream /\ h \in Held(a)
    BY <1>1, <2>1, SettleShape
  <2> HIDE DEF h
  <2>3. Holders' /\ Counted'
    BY <1>1, <2>1, <2>2, TakenHolders, OneMade
  <2>4. QED
    BY <2>2, <2>3 DEF Rest
<1>5. CASE ConsumeFailed(a)
  <2> DEFINE h == Head(buffer[a])
             x == stream[h].event
  <2>1. /\ Takes(a) /\ UNCHANGED <<replays, unpublished>>
        /\ \/ UNCHANGED <<effects, doubtful>>
           \/ Made(x) /\ doubtful' = [doubtful EXCEPT ![x] = @ + 1]
    BY <1>5 DEF ConsumeFailed, Settle, effectvars, replayvars
  <2>2. h \in Held(a)
    BY <1>1, <2>1, HeldInStream DEF Takes
  <2>3. x \in Events
    BY <1>1, <2>2, HeldWaits
  <2> HIDE DEF h, x
  <2>4. Places' /\ stream' = stream /\ (Taken({h}) \/ Taken({}))
    <3>1. CASE FullConsumer
      BY <1>1, <1>5, <3>1, InHandShape
    <3>2. CASE ~FullConsumer
      <4>1. Settle(a, "failed") /\ "failed" \in Fates \ {"pending"}
        BY <1>5, <3>2 DEF ConsumeFailed, Fates
      <4>2. QED
        BY <1>1, <2>1, <4>1, SettleShape DEF h
    <3>3. QED
      BY <3>1, <3>2
  <2>5. PICK gone : Taken(gone)
    BY <2>4
  <2>6. Holders'
    BY <1>1, <2>5, TakenHolders
  <2>7. Counted'
    <3>1. CASE UNCHANGED <<effects, doubtful>>
      BY <1>1, <2>1, <2>4, <2>5, <3>1, NothingMade
    <3>2. CASE Made(x) /\ doubtful' = [doubtful EXCEPT ![x] = @ + 1]
      BY <1>1, <2>1, <2>3, <2>4, <2>5, <3>2, DoubtfulMade
    <3>3. QED
      BY <2>1, <3>1, <3>2
  <2>8. QED
    BY <2>4, <2>6, <2>7 DEF Rest
<1>6. CASE DeadLetter(a)
  <2> DEFINE h == hand[a]
             x == stream[h].event
  <2>1. /\ Places' /\ Taken({h}) /\ h \in Held(a)
        /\ stream' = stream \/ (Len(stream') = Len(stream) + 1 /\ stream'[Len(stream')].event = x)
    BY <1>1, <1>6, DeadLetterShape
  <2>2. h \in Waiting(x) /\ x \in Events
    BY <1>1, <2>1, HeldWaits
  <2>3. UNCHANGED <<effects, doubtful, replays, unpublished>>
    BY <1>6 DEF DeadLetter, effectvars, replayvars
  <2> HIDE DEF h, x
  <2>4. Holders'
    BY <1>1, <2>1, TakenHolders
  <2>5. CASE stream' = stream
    BY <1>1, <2>1, <2>3, <2>4, <2>5, NothingMade DEF Rest
  <2>6. CASE Len(stream') = Len(stream) + 1 /\ stream'[Len(stream')].event = x
    <3>1. Counted'
      BY <1>1, <2>1, <2>2, <2>3, <2>6, OneEntered DEF Entered, Entitled
    <3>2. QED
      BY <2>1, <2>4, <3>1 DEF Rest
  <2>7. QED
    BY <2>1, <2>5, <2>6
<1>7. CASE EndPoll(a)
  <2>1. Places' /\ Taken(Held(a)) /\ stream' = stream
    BY <1>1, <1>7, EndPollShape
  <2>2. UNCHANGED <<effects, doubtful, replays, unpublished>>
    BY <1>7 DEF EndPoll, effectvars, replayvars
  <2>3. Holders' /\ Counted'
    BY <1>1, <2>1, <2>2, TakenHolders, NothingMade
  <2>4. QED
    BY <2>1, <2>3 DEF Rest
<1>8. QED
  BY <1>2, <1>3, <1>4, <1>5, <1>6, <1>7 DEF AdapterStep

\* Restarts and the workers of the dead letters.
LEMMA WorkersKeep ==
    ASSUME StreamTypeOK, StreamTypeOK', Rest,
           Shutdown \/ Restart \/ ReplayPoll \/ Replay \/ ReplayEnd \/ Peek
    PROVE  Rest'
<1>1. Places /\ Holders /\ Counted
  BY DEF Rest
<1>2. CASE Restart
  <2>1. PICK gone : Places' /\ Taken(gone) /\ stream' = stream
    BY <1>2, RestartShape
  <2>2. UNCHANGED <<effects, doubtful, replays, unpublished>>
    BY <1>2 DEF Restart, effectvars
  <2>3. Holders' /\ Counted'
    BY <1>1, <2>1, <2>2, TakenHolders, NothingMade
  <2>4. QED
    BY <2>1, <2>3 DEF Rest
<1>3. CASE Replay
  <2>1. PICK i \in rbuffer :
            /\ Store([stream[i] EXCEPT !.dlq = stream[i].orig = "dlq"])
            /\ replays' = [replays EXCEPT ![stream[i].event] = @ + 1]
    BY <1>3 DEF Replay
  <2> DEFINE m == [stream[i] EXCEPT !.dlq = stream[i].orig = "dlq"]
             x == stream[i].event
  <2>2. m \in Message /\ m.event = x /\ x \in Events
    <3>1. stream[i] \in Message
      BY DEF StreamTypeOK
    <3>2. QED
      BY <3>1 DEF Message
  <2>3. UNCHANGED <<cursor, adaptervars, effects, doubtful, unpublished>>
    BY <1>3 DEF Replay, effectvars
  <2>4. Store(m) /\ replays' = [replays EXCEPT ![x] = @ + 1]
    BY <2>1
  <2> HIDE DEF m, x
  <2>5. Places' /\ Taken({}) /\ Len(stream') = Len(stream) + 1 /\ stream'[Len(stream')] = m
    BY <1>1, <2>2, <2>3, <2>4, IdleShape
  <2>6. Holders'
    BY <1>1, <2>5, TakenHolders
  <2>7. Counted'
    BY <1>1, <2>2, <2>3, <2>4, <2>5, OneEntered DEF Entered, Entitled
  <2>8. QED
    BY <2>5, <2>6, <2>7 DEF Rest
<1>4. CASE Shutdown
  <2>1. UNCHANGED <<stream, fate, cursor, loop, buffer, hand, processed, unpublished, effects, doubtful, replays>>
    BY <1>4 DEF Shutdown, effectvars, replayvars
  <2>2. Places'
    BY <1>1, <2>1 DEF Places, Place, In, Distinct
  <2>3. Holders'
    <3>1. \A b : Held(b)' = Held(b)
      BY <2>1 DEF Held
    <3>2. QED
      BY <1>1, <2>1, <3>1 DEF Holders
  <2>4. \A e : Waiting(e)' = Waiting(e) /\ Unsent(e)' = Unsent(e)
    BY <2>1 DEF Waiting, Unsent
  <2>5. Counted'
    BY <1>1, <2>1, <2>4 DEF Counted
  <2>6. QED
    BY <2>2, <2>3, <2>5 DEF Rest
<1>5. CASE ReplayPoll \/ ReplayEnd \/ Peek
  <2>1. UNCHANGED <<stream, fate, cursor, adaptervars, effects, doubtful, replays, unpublished>>
    BY <1>5 DEF ReplayPoll, ReplayEnd, Peek, effectvars, replayvars
  <2>2. Places' /\ Taken({})
    BY <1>1, <2>1, IdleShape
  <2>3. Holders' /\ Counted'
    BY <1>1, <2>1, <2>2, TakenHolders, NothingMade
  <2>4. QED
    BY <2>2, <2>3 DEF Rest
<1>6. QED
  BY <1>2, <1>3, <1>4, <1>5

\* It holds of the empty stream.
LEMMA InductiveInit == Init => Inductive
<1> SUFFICES ASSUME Init PROVE Inductive
  OBVIOUS
<1>1. /\ MaxFaults \in Nat /\ MaxPerPoll \in Nat
      /\ 0 \in 0..MaxFaults /\ 0 \in 0..MaxPerPoll
  BY StreamAssumption
<1>2. stream = <<>> /\ fate = <<>> /\ Len(stream) = 0 /\ cursor = 0
  BY DEF Init
<1>3. StreamTypeOK
  <2>1. /\ stream \in Seq(Message) /\ fate \in Seq(Fates) /\ Len(fate) = Len(stream)
        /\ {cursor, rcursor, pcursor} \subseteq 0..Len(stream)
    BY <1>2 DEF Init
  <2>2. /\ loop \in [Adapters -> {"poll", "open", "dead_letter", "stopped"}]
        /\ buffer \in [Adapters -> Seq(Nat)] /\ hand \in [Adapters -> Nat]
        /\ processed \in [Adapters -> 0..MaxPerPoll]
    BY <1>1 DEF Init
  <2>3. /\ unpublished \subseteq Events /\ {effects, doubtful, replays} \subseteq [Events -> Nat]
        /\ rbuffer \subseteq 1..Len(stream) /\ rleft \in 0..MaxPerPoll
        /\ gauge \in 0..MaxPerPoll /\ faults \in 0..MaxFaults
    BY <1>1 DEF Init
  <2>4. shutdown \in BOOLEAN
    BY Zenon DEF Init
  <2>5. QED
    BY <2>1, <2>2, <2>3, <2>4 DEF StreamTypeOK
<1>4. \A a \in Adapters : loop[a] = "poll" /\ buffer[a] = <<>> /\ hand[a] = 0
  BY DEF Init
<1>5. Places
  BY <1>4 DEF Places, Place, Distinct, In
<1>6. Holders
  <2>1. \A a \in Adapters : Held(a) = {}
    BY <1>4 DEF Held
  <2>2. 1..Len(stream) = {}
    BY <1>2
  <2>3. QED
    BY <2>1, <2>2 DEF Holders
<1>7. Counted
  <2>1. ASSUME NEW e \in Events
        PROVE  effects[e] + Cardinality(Waiting(e)) + Unsent(e) <= 1 + doubtful[e] + replays[e]
    <3>1. Waiting(e) = {}
      BY <1>2 DEF Waiting
    <3>2. Cardinality(Waiting(e)) = 0
      BY <3>1, FS_EmptySet
    <3>3. Unsent(e) = 1 /\ effects[e] = 0 /\ doubtful[e] = 0 /\ replays[e] = 0
      BY DEF Init, Unsent
    <3>4. QED
      BY <3>2, <3>3
  <2>2. QED
    BY <2>1 DEF Counted
<1>8. QED
  BY <1>3, <1>5, <1>6, <1>7 DEF Inductive

\* Every step keeps it.
LEMMA InductiveStep == Inductive /\ [Next]_vars => Inductive'
<1> SUFFICES ASSUME Inductive, [Next]_vars PROVE Inductive'
  OBVIOUS
<1>1. StreamTypeOK /\ Places /\ Holders /\ Rest
  BY DEF Inductive, Rest
<1>2. CASE Next
  <2>1. StreamTypeOK'
    BY <1>1, <1>2, StepTyped
  <2>2. Rest'
    BY <1>1, <1>2, <2>1, PublisherKeeps, AdapterKeeps, WorkersKeep DEF Next
  <2>3. QED
    BY <2>1, <2>2 DEF Inductive, Rest
<1>3. CASE UNCHANGED vars
  <2>1. UNCHANGED <<stream, fate, cursor, loop, buffer, hand, processed, shutdown, unpublished, effects,
                    doubtful, replays, rcursor, rbuffer, rleft, pcursor, gauge, faults>>
    BY <1>3 DEF vars, adaptervars, effectvars, replayvars, peekvars
  <2>2. StreamTypeOK'
    BY <1>1, <2>1 DEF StreamTypeOK
  <2>3. UNCHANGED <<stream, fate, cursor, adaptervars, effects, doubtful, replays, unpublished>>
    BY <2>1 DEF adaptervars
  <2>4. Places' /\ Taken({})
    BY <1>1, <2>3, IdleShape
  <2>5. Holders' /\ Counted'
    BY <1>1, <2>2, <2>3, <2>4, TakenHolders, NothingMade DEF Inductive
  <2>6. QED
    BY <2>2, <2>4, <2>5 DEF Inductive
<1>4. QED
  BY <1>2, <1>3

\* It always holds.
LEMMA AlwaysInductive == Spec => []Inductive
  BY InductiveInit, InductiveStep, PTL DEF Spec

\* The stream, the adapters and the workers keep their types.
THEOREM StreamTypeCorrect == Spec => []StreamTypeOK
<1>1. Inductive => StreamTypeOK
  BY DEF Inductive
<1>2. QED
  BY <1>1, AlwaysInductive, PTL

\* A message is with at most one adapter, only while it is unsettled, and what the
\* shared durable has delivered and nobody settled is with somebody.
THEOREM MessageHasOneHolder == Spec => []OneHolder
<1>1. Inductive => OneHolder
  <2> SUFFICES ASSUME Inductive PROVE OneHolder
    OBVIOUS
  <2>1. StreamTypeOK /\ Holders /\ Len(stream) \in Nat /\ cursor \in 0..Len(stream)
        /\ DOMAIN stream = 1..Len(stream)
    BY DEF Inductive, StreamTypeOK
  <2>2. \A a \in Adapters : \A i \in Held(a) : i <= cursor /\ fate[i] = "pending"
    BY <2>1, HeldInStream
  <2>3. \A i \in DOMAIN stream :
            (fate[i] = "pending" /\ i <= cursor) => \E a \in Adapters : i \in Held(a)
    BY <2>1 DEF Holders
  <2>4. QED
    BY <2>1, <2>2, <2>3 DEF OneHolder, Holders
<1>2. QED
  BY <1>1, AlwaysInductive, PTL

\* An event has at most one effect, but for stores that took effect without
\* saying so and for replays.
THEOREM EffectsAreBounded == Spec => []EffectsBounded
<1>1. Inductive => EffectsBounded
  <2> SUFFICES ASSUME Inductive, NEW e \in Events
               PROVE  effects[e] <= 1 + doubtful[e] + replays[e]
    BY DEF EffectsBounded
  <2>1. Cardinality(Waiting(e)) \in Nat /\ effects[e] \in Nat /\ doubtful[e] \in Nat /\ replays[e] \in Nat
    <3>1. StreamTypeOK
      BY DEF Inductive
    <3>2. QED
      BY <3>1, WaitingFinite DEF StreamTypeOK
  <2>2. Unsent(e) \in {0, 1}
    BY DEF Unsent
  <2>3. effects[e] + Cardinality(Waiting(e)) + Unsent(e) <= 1 + doubtful[e] + replays[e]
    BY DEF Inductive, Counted
  <2>4. QED
    BY <2>1, <2>2, <2>3
<1>2. QED
  BY <1>1, AlwaysInductive, PTL

=============================================================================
