------------------------ MODULE RealtimeSocketProofs ------------------------
(***************************************************************************)
(* What the live stream guarantees for any number of sockets, messages and *)
(* failures: every client receives an unbroken run of the stream, and what *)
(* stays behind in _active_ws is counted by the failures.                  *)
(***************************************************************************)
EXTENDS RealtimeSocket, FiniteSetTheorems, SequenceTheorems, TLAPS

-----------------------------------------------------------------------------
\* A stream that grows at the end of its queue.
LEMMA StreamGrows ==
    ASSUME NEW g \in Seq(Nat), NEW m \in Seq(Nat), NEW q \in Seq(Nat), NEW n \in Nat
    PROVE  /\ g \o m \o Append(q, n) \in Seq(Nat)
           /\ Len(g \o m \o Append(q, n)) = Len(g \o m \o q) + 1
           /\ (g \o m \o Append(q, n))[Len(g \o m \o q) + 1] = n
           /\ \A i \in 1 .. Len(g \o m \o q) : (g \o m \o Append(q, n))[i] = (g \o m \o q)[i]
<1> DEFINE p == g \o m
           b == Append(q, n)
<1>1. p \in Seq(Nat) /\ Len(p) \in Nat /\ Len(q) \in Nat
  OBVIOUS
<1>2. /\ b \in Seq(Nat) /\ Len(b) = Len(q) + 1 /\ b[Len(q) + 1] = n
      /\ \A i \in 1 .. Len(q) : b[i] = q[i]
  OBVIOUS
<1> HIDE DEF p, b
<1>3. /\ p \o b \in Seq(Nat) /\ Len(p \o b) = Len(p) + Len(b)
      /\ Len(p \o q) = Len(p) + Len(q)
      /\ \A i \in 1 .. Len(p) + Len(b) :
            (p \o b)[i] = IF i <= Len(p) THEN p[i] ELSE b[i - Len(p)]
      /\ \A i \in 1 .. Len(p) + Len(q) :
            (p \o q)[i] = IF i <= Len(p) THEN p[i] ELSE q[i - Len(p)]
  BY <1>1, <1>2, ConcatProperties
<1>4. (p \o b)[Len(p \o q) + 1] = n
  BY <1>1, <1>2, <1>3
<1>5. ASSUME NEW i \in 1 .. Len(p \o q)
      PROVE  (p \o b)[i] = (p \o q)[i]
  <2>1. i \in 1 .. Len(p) + Len(q) /\ i \in 1 .. Len(p) + Len(b)
    BY <1>1, <1>2, <1>3
  <2>2. i > Len(p) => i - Len(p) \in 1 .. Len(q)
    BY <2>1, <1>1
  <2>3. CASE i <= Len(p)
    <3>1. (p \o b)[i] = p[i] /\ (p \o q)[i] = p[i]
      BY <2>1, <2>3, <1>3
    <3> QED
      BY <3>1
  <2>4. CASE i > Len(p)
    <3>1. (p \o b)[i] = b[i - Len(p)] /\ (p \o q)[i] = q[i - Len(p)]
      BY <2>1, <2>4, <1>1, <1>3
    <3> QED
      BY <2>2, <2>4, <3>1, <1>2
  <2> QED
    BY <2>1, <2>3, <2>4, <1>1
<1> QED
  BY <1>2, <1>3, <1>4, <1>5 DEF p, b

\* Taking the head of the queue in hand leaves the stream as it is.
LEMMA StreamRead ==
    ASSUME NEW g \in Seq(Nat), NEW q \in Seq(Nat), q # <<>>
    PROVE  /\ Head(q) \in Nat /\ Tail(q) \in Seq(Nat)
           /\ g \o <<Head(q)>> \o Tail(q) = g \o <<>> \o q
<1>1. Head(q) \in Nat /\ Tail(q) \in Seq(Nat) /\ q = <<Head(q)>> \o Tail(q)
  BY HeadTailProperties
<1>2. g \o <<>> = g
  BY ConcatEmptySeq
<1>3. (g \o <<Head(q)>>) \o Tail(q) = g \o (<<Head(q)>> \o Tail(q))
  BY <1>1, ConcatAssociative
<1> QED
  BY <1>1, <1>2, <1>3

\* Sending what is in hand leaves the stream as it is.
LEMMA StreamSent ==
    ASSUME NEW g \in Seq(Nat), NEW m \in Seq(Nat), NEW q \in Seq(Nat)
    PROVE  (g \o m) \o <<>> \o q = g \o m \o q
  BY ConcatEmptySeq

\* Without what is in hand and in the queue, a stream is a prefix of itself.
LEMMA StreamCut ==
    ASSUME NEW g \in Seq(Nat), NEW m \in Seq(Nat), NEW q \in Seq(Nat)
    PROVE  /\ g \o <<>> \o <<>> = g
           /\ Len(g) <= Len(g \o m \o q)
           /\ \A i \in 1 .. Len(g) : (g \o m \o q)[i] = g[i]
<1>1. g \o <<>> \o <<>> = g
  BY ConcatEmptySeq
<1>2. /\ g \o m \in Seq(Nat) /\ Len(g \o m) = Len(g) + Len(m)
      /\ Len(g) \in Nat /\ Len(m) \in Nat /\ Len(q) \in Nat
  OBVIOUS
<1>3. Len(g \o m \o q) = Len(g \o m) + Len(q)
  BY <1>2
<1>4. \A i \in 1 .. Len(g) : (g \o m)[i] = g[i] /\ i \in 1 .. Len(g \o m)
  BY <1>2
<1>5. \A i \in 1 .. Len(g \o m) : (g \o m \o q)[i] = (g \o m)[i]
  BY <1>2, <1>3
<1> QED
  BY <1>1, <1>2, <1>3, <1>4, <1>5

-----------------------------------------------------------------------------
\* Every part of a stream is a sequence.
LEMMA StreamType ==
    ASSUME TypeOK, NEW s \in Sockets
    PROVE  /\ got[s] \in Seq(Nat) /\ msg[s] \in Seq(Nat) /\ queue[s] \in Seq(Nat)
           /\ Stream(s) \in Seq(Nat) /\ Len(Stream(s)) \in Nat
           /\ \A i \in 1 .. Len(Stream(s)) : Stream(s)[i] \in Nat
           /\ since[s] \in Nat /\ resets[s] \in Nat /\ published \in Nat
<1>1. /\ got[s] \in Seq(Nat) /\ msg[s] \in Seq(Nat) /\ queue[s] \in Seq(Nat)
      /\ since[s] \in Nat /\ resets[s] \in Nat /\ published \in Nat
  BY DEF TypeOK
<1>2. Stream(s) \in Seq(Nat)
  BY <1>1, ConcatProperties DEF Stream
<1> QED
  BY <1>1, <1>2, LenProperties, ElementOfSeq

\* Streams that are cut at the end, and only where the subscription has ended
\* or was made anew, keep their order.
LEMMA ShorterStreams ==
    ASSUME IndInv, UNCHANGED <<since, published>>,
           \A s \in Sockets :
               /\ Len(Stream(s))' \in Nat
               /\ Len(Stream(s))' <= Len(Stream(s))
               /\ \A i \in 1 .. Len(Stream(s))' : Stream(s)'[i] = Stream(s)[i]
               /\ resets[s]' = 0 => resets[s] = 0
               /\ s \in open' /\ resets[s]' = 0 => s \in open /\ Stream(s)' = Stream(s)
    PROVE  NothingAhead' /\ StreamInOrder'
<1>1. ASSUME NEW s \in Sockets
      PROVE  /\ since[s]' <= published'
             /\ \A i \in 1 .. Len(Stream(s))' : Stream(s)'[i] <= published'
  <2>1. /\ since[s] <= published
        /\ \A i \in 1 .. Len(Stream(s)) : Stream(s)[i] <= published
    BY DEF IndInv, NothingAhead
  <2>2. Len(Stream(s)) \in Nat
    BY StreamType DEF IndInv
  <2>3. \A i \in 1 .. Len(Stream(s))' : i \in 1 .. Len(Stream(s))
    BY <2>2
  <2> QED
    BY <2>1, <2>3
<1>2. ASSUME NEW s \in Sockets
      PROVE  /\ \A i \in 1 .. Len(Stream(s))' :
                   /\ Stream(s)'[i] >= since[s]' + i
                   /\ i > 1 => Stream(s)'[i] > Stream(s)'[i - 1]
                   /\ resets[s]' = 0 => Stream(s)'[i] = since[s]' + i
             /\ s \in open' /\ resets[s]' = 0 => Len(Stream(s))' = published' - since[s]'
  <2>1. /\ \A i \in 1 .. Len(Stream(s)) :
              /\ Stream(s)[i] >= since[s] + i
              /\ i > 1 => Stream(s)[i] > Stream(s)[i - 1]
              /\ resets[s] = 0 => Stream(s)[i] = since[s] + i
        /\ s \in open /\ resets[s] = 0 => Len(Stream(s)) = published - since[s]
    BY DEF IndInv, StreamInOrder
  <2>2. Len(Stream(s)) \in Nat
    BY StreamType DEF IndInv
  <2>3. ASSUME NEW i \in 1 .. Len(Stream(s))'
        PROVE  /\ i \in 1 .. Len(Stream(s))
               /\ i > 1 => i - 1 \in 1 .. Len(Stream(s))'
    BY <2>2
  <2> QED
    BY <2>1, <2>3
<1> QED
  BY <1>1, <1>2 DEF NothingAhead, StreamInOrder

\* As long as no stream changes, nor what it is compared with, it keeps its
\* order.
LEMMA SameStreams ==
    ASSUME IndInv, UNCHANGED <<since, published, resets, open>>,
           \A s \in Sockets : Stream(s)' = Stream(s)
    PROVE  NothingAhead' /\ StreamInOrder'
<1>1. \A s \in Sockets : Len(Stream(s)) \in Nat
  BY StreamType DEF IndInv
<1> QED
  BY <1>1, ShorterStreams
-----------------------------------------------------------------------------
\* The invariant holds before the first connection.
LEMMA InitIndInv == Init => IndInv
<1> SUFFICES ASSUME Init
             PROVE  IndInv
  OBVIOUS
<1>1. TypeOK
  BY DEF Init, TypeOK
<1>2. NothingHeld /\ IsFiniteSet(active \ open) /\ LeakBound
  BY FS_EmptySet DEF Init, NothingHeld, LeakBound
<1>3. \A s \in Sockets : Stream(s) = <<>>
  BY ConcatEmptySeq DEF Init, Stream
<1>4. NothingAhead /\ StreamInOrder
  BY <1>3 DEF Init, NothingAhead, StreamInOrder
<1> QED
  BY <1>1, <1>2, <1>4 DEF IndInv

\* What stays behind changes only when a failure ends a handler, by that
\* handler's socket.
LEMMA LeakKept ==
    ASSUME IndInv, active' \ open' = active \ open, open' \subseteq active',
           faults' \in Nat, faults' >= faults,
           \A s \in Sockets : pc[s] = "failed" => pc[s]' = "failed"
    PROVE  IsFiniteSet(active \ open)' /\ LeakBound'
<1>1. /\ IsFiniteSet(active \ open) /\ Cardinality(active \ open) <= faults
      /\ active \subseteq Sockets /\ faults \in Nat
      /\ \A s \in active \ open : pc[s] = "failed"
  BY DEF IndInv, LeakBound, TypeOK
<1>2. Cardinality(active \ open) \in Nat
  BY <1>1, FS_CardinalityType
<1> QED
  BY <1>1, <1>2 DEF LeakBound

\* A failure that ends a handler leaves one socket more behind.
LEMMA LeakGrows ==
    ASSUME IndInv, NEW s \in Sockets, active' \ open' = (active \ open) \union {s},
           open' \subseteq active', faults' = faults + 1,
           pc' = [pc EXCEPT ![s] = "failed"]
    PROVE  IsFiniteSet(active \ open)' /\ LeakBound'
<1>1. /\ IsFiniteSet(active \ open) /\ Cardinality(active \ open) <= faults
      /\ active \subseteq Sockets /\ faults \in Nat
      /\ \A t \in active \ open : pc[t] = "failed"
  BY DEF IndInv, LeakBound, TypeOK
<1>2. Cardinality(active \ open) \in Nat
  BY <1>1, FS_CardinalityType
<1>3. /\ IsFiniteSet((active \ open) \union {s})
      /\ Cardinality((active \ open) \union {s}) <= Cardinality(active \ open) + 1
  <2>1. /\ IsFiniteSet((active \ open) \union {s})
        /\ \/ Cardinality((active \ open) \union {s}) = Cardinality(active \ open)
           \/ Cardinality((active \ open) \union {s}) = Cardinality(active \ open) + 1
    BY <1>1, FS_AddElement, Zenon
  <2> QED
    BY <1>2, <2>1
<1>4. Cardinality((active \ open) \union {s}) \in Nat
  BY <1>3, FS_CardinalityType
<1>5. \A t \in (active \ open) \union {s} : pc'[t] = "failed"
  BY <1>1 DEF IndInv, TypeOK
<1>6. Cardinality((active \ open) \union {s}) <= faults + 1
  BY <1>1, <1>2, <1>3, <1>4
<1>7. (active \ open)' = (active \ open) \union {s}
  OBVIOUS
<1> QED
  BY <1>3, <1>5, <1>6, <1>7 DEF LeakBound

\* A step that leaves the sockets and the failures alone.
LEMMA LeakUnchanged ==
    ASSUME IndInv, UNCHANGED <<active, open, faults>>,
           \A s \in Sockets : pc[s] = "failed" => pc[s]' = "failed"
    PROVE  IsFiniteSet(active \ open)' /\ LeakBound'
<1>1. open \subseteq active /\ faults \in Nat
  BY DEF IndInv, LeakBound, TypeOK
<1> QED
  BY <1>1, LeakKept
-----------------------------------------------------------------------------
\* A published message goes to the end of every open subscription.
LEMMA PublishStep == ASSUME IndInv, Publish PROVE IndInv'
<1>1. TypeOK
  BY DEF IndInv
<1>2. /\ published' = published + 1 /\ published \in Nat
      /\ queue' = [s \in Sockets |->
                     IF s \in open THEN Append(queue[s], published + 1) ELSE queue[s]]
      /\ UNCHANGED <<pc, gone, active, open, msg, got, since, resets, faults>>
  BY <1>1 DEF Publish, TypeOK
<1>3. TypeOK'
  <2>1. \A s \in Sockets : queue[s] \in Seq(Nat) /\ Append(queue[s], published + 1) \in Seq(Nat)
    BY <1>1, <1>2, StreamType
  <2>2. queue' \in [Sockets -> Seq(Nat)]
    BY <1>2, <2>1
  <2> QED
    BY <1>1, <1>2, <2>2 DEF TypeOK
<1>4. NothingHeld'
  BY <1>2 DEF IndInv, NothingHeld
<1>5. IsFiniteSet(active \ open)' /\ LeakBound'
  BY <1>2, LeakUnchanged
<1>6. ASSUME NEW s \in Sockets
      PROVE  /\ since[s]' <= published'
             /\ \A i \in 1 .. Len(Stream(s))' :
                   /\ Stream(s)'[i] <= published'
                   /\ Stream(s)'[i] >= since[s]' + i
                   /\ i > 1 => Stream(s)'[i] > Stream(s)'[i - 1]
                   /\ resets[s]' = 0 => Stream(s)'[i] = since[s]' + i
             /\ s \in open' /\ resets[s]' = 0 => Len(Stream(s))' = published' - since[s]'
  <2>1. /\ since[s] \in Nat /\ Len(Stream(s)) \in Nat
        /\ \A i \in 1 .. Len(Stream(s)) : Stream(s)[i] \in Nat
        /\ got[s] \in Seq(Nat) /\ msg[s] \in Seq(Nat) /\ queue[s] \in Seq(Nat)
    BY <1>1, StreamType
  <2>2. /\ since[s] <= published
        /\ \A i \in 1 .. Len(Stream(s)) :
              /\ Stream(s)[i] <= published
              /\ Stream(s)[i] >= since[s] + i
              /\ i > 1 => Stream(s)[i] > Stream(s)[i - 1]
              /\ resets[s] = 0 => Stream(s)[i] = since[s] + i
        /\ s \in open /\ resets[s] = 0 => Len(Stream(s)) = published - since[s]
    BY DEF IndInv, NothingAhead, StreamInOrder
  <2>3. CASE s \notin open
    <3>1. Stream(s)' = Stream(s)
      BY <2>3, <1>2 DEF Stream
    <3> QED
      BY <3>1, <2>1, <2>2, <2>3, <1>2
  <2>4. CASE s \in open
    <3>1. Stream(s)' = got[s] \o msg[s] \o Append(queue[s], published + 1)
      BY <2>4, <1>2 DEF Stream
    <3>2. /\ Len(Stream(s))' = Len(Stream(s)) + 1
          /\ Stream(s)'[Len(Stream(s)) + 1] = published + 1
          /\ \A i \in 1 .. Len(Stream(s)) : Stream(s)'[i] = Stream(s)[i]
      <4>1. published + 1 \in Nat
        BY <1>2
      <4>2. ASSUME NEW g \in Seq(Nat), NEW m \in Seq(Nat), NEW q \in Seq(Nat), NEW n \in Nat,
                   g = got[s], m = msg[s], q = queue[s], n = published + 1
            PROVE  /\ Len(Stream(s)') = Len(Stream(s)) + 1
                   /\ Stream(s)'[Len(Stream(s)) + 1] = n
                   /\ \A i \in 1 .. Len(Stream(s)) : Stream(s)'[i] = Stream(s)[i]
        <5>1. /\ Len(g \o m \o Append(q, n)) = Len(g \o m \o q) + 1
              /\ (g \o m \o Append(q, n))[Len(g \o m \o q) + 1] = n
              /\ \A i \in 1 .. Len(g \o m \o q) :
                    (g \o m \o Append(q, n))[i] = (g \o m \o q)[i]
          BY StreamGrows
        <5>2. Stream(s) = g \o m \o q
          BY <4>2 DEF Stream
        <5>3. Stream(s)' = g \o m \o Append(q, n)
          BY <3>1, <4>2
        <5> QED
          BY <5>1, <5>2, <5>3
      <4> QED
        BY <4>1, <4>2, <2>1
    <3>3. since[s] + Len(Stream(s)) <= published
      <4>1. CASE Len(Stream(s)) = 0
        BY <4>1, <2>1, <2>2, <1>2
      <4>2. CASE Len(Stream(s)) # 0
        <5>1. Len(Stream(s)) \in 1 .. Len(Stream(s))
          BY <4>2, <2>1
        <5>2. /\ Stream(s)[Len(Stream(s))] <= published
              /\ Stream(s)[Len(Stream(s))] >= since[s] + Len(Stream(s))
              /\ Stream(s)[Len(Stream(s))] \in Nat
          BY <5>1, <2>1, <2>2
        <5> QED
          BY <5>2, <2>1, <1>2
      <4> QED
        BY <4>1, <4>2
    <3>4. ASSUME NEW i \in 1 .. Len(Stream(s))'
          PROVE  /\ Stream(s)'[i] <= published'
                 /\ Stream(s)'[i] >= since[s]' + i
                 /\ i > 1 => Stream(s)'[i] > Stream(s)'[i - 1]
                 /\ resets[s]' = 0 => Stream(s)'[i] = since[s]' + i
      <4>1. CASE i = Len(Stream(s)) + 1
        <5>1. i > 1 => i - 1 \in 1 .. Len(Stream(s))
          BY <4>1, <2>1
        <5>2. i > 1 => Stream(s)'[i - 1] <= published /\ Stream(s)'[i - 1] \in Nat
          BY <5>1, <3>2, <2>1, <2>2
        <5>3. Stream(s)'[i] = published + 1
          BY <4>1, <3>2
        <5>4. Stream(s)'[i] <= published' /\ Stream(s)'[i] >= since[s]' + i
          BY <4>1, <5>3, <3>3, <2>1, <1>2
        <5>5. i > 1 => Stream(s)'[i] > Stream(s)'[i - 1]
          BY <5>2, <5>3, <1>2
        <5>6. resets[s]' = 0 => Stream(s)'[i] = since[s]' + i
          <6>1. resets[s] = 0 => Len(Stream(s)) = published - since[s]
            BY <2>2, <2>4
          <6>2. /\ published \in Nat /\ since[s] \in Nat /\ Len(Stream(s)) \in Nat
                /\ since[s]' = since[s] /\ resets[s]' = resets[s]
            BY <2>1, <1>2
          <6> QED
            BY <4>1, <5>3, <6>1, <6>2
        <5> QED
          BY <5>4, <5>5, <5>6
      <4>2. CASE i # Len(Stream(s)) + 1
        <5>1. i \in 1 .. Len(Stream(s)) /\ (i > 1 => i - 1 \in 1 .. Len(Stream(s)))
          BY <4>2, <3>2, <2>1
        <5>2. /\ Stream(s)'[i] = Stream(s)[i] /\ Stream(s)[i] \in Nat
              /\ i > 1 => Stream(s)'[i - 1] = Stream(s)[i - 1]
          BY <5>1, <3>2, <2>1
        <5> QED
          BY <5>1, <5>2, <2>1, <2>2, <1>2
      <4> QED
        BY <4>1, <4>2
    <3> QED
      BY <3>2, <3>4, <2>1, <2>2, <1>2
  <2> QED
    BY <2>3, <2>4
<1>7. NothingAhead' /\ StreamInOrder'
  BY <1>6 DEF NothingAhead, StreamInOrder
<1> QED
  BY <1>3, <1>4, <1>5, <1>7 DEF IndInv

\* A client may go at any moment: its handler does not know yet.
LEMMA LeaveStep == ASSUME IndInv, NEW s \in Sockets, Leave(s) PROVE IndInv'
<1>1. TypeOK /\ gone' = gone \union {s}
      /\ UNCHANGED <<pc, active, open, queue, msg, got, since, resets, published, faults>>
  BY DEF IndInv, Leave, streamVars
<1>2. TypeOK'
  BY <1>1 DEF TypeOK
<1>3. NothingHeld'
  BY <1>1 DEF IndInv, NothingHeld
<1>4. IsFiniteSet(active \ open)' /\ LeakBound'
  BY <1>1, LeakUnchanged
<1>5. NothingAhead' /\ StreamInOrder'
  <2>1. \A t \in Sockets : Stream(t)' = Stream(t)
    BY <1>1 DEF Stream
  <2> QED
    BY <1>1, <2>1, SameStreams
<1> QED
  BY <1>2, <1>3, <1>4, <1>5 DEF IndInv

\* A handler that starts has sent nothing.
LEMMA AcceptStep == ASSUME IndInv, NEW s \in Sockets, Accept(s) PROVE IndInv'
<1>1. TypeOK /\ pc[s] = "new" /\ pc' = [pc EXCEPT ![s] = "accepted"]
      /\ UNCHANGED <<gone, active, open, queue, msg, got, since, resets, published, faults>>
  BY DEF IndInv, Accept, At, Goto, streamVars
<1>2. TypeOK'
  BY <1>1 DEF TypeOK
<1>3. NothingHeld'
  BY <1>1 DEF IndInv, NothingHeld, TypeOK
<1>4. IsFiniteSet(active \ open)' /\ LeakBound'
  BY <1>1, LeakUnchanged DEF TypeOK
<1>5. NothingAhead' /\ StreamInOrder'
  <2>1. \A t \in Sockets : Stream(t)' = Stream(t)
    BY <1>1 DEF Stream
  <2> QED
    BY <1>1, <2>1, SameStreams
<1> QED
  BY <1>2, <1>3, <1>4, <1>5 DEF IndInv

\* A new subscription starts an empty stream.
LEMMA SubscribeStep == ASSUME IndInv, NEW s \in Sockets, Subscribe(s) PROVE IndInv'
<1>1. TypeOK /\ pc[s] = "accepted" /\ pc' = [pc EXCEPT ![s] = "read"]
      /\ active' = active \union {s} /\ open' = open \union {s}
      /\ since' = [since EXCEPT ![s] = published]
      /\ UNCHANGED <<gone, queue, msg, got, resets, published, faults>>
  BY DEF IndInv, Subscribe, At, Goto
<1>2. /\ s \notin open /\ msg[s] = <<>> /\ queue[s] = <<>> /\ got[s] = <<>>
      /\ published \in Nat /\ since'[s] = published
      /\ \A t \in Sockets \ {s} : since'[t] = since[t]
  BY <1>1 DEF IndInv, TypeOK, NothingHeld
<1>3. TypeOK'
  BY <1>1, <1>2 DEF TypeOK
<1>4. NothingHeld'
  BY <1>1 DEF IndInv, NothingHeld, TypeOK
<1>5. IsFiniteSet(active \ open)' /\ LeakBound'
  <2>1. s \notin active
    BY <1>1, <1>2 DEF IndInv, LeakBound
  <2>2. active' \ open' = active \ open /\ open' \subseteq active'
    BY <1>1, <2>1 DEF IndInv, LeakBound
  <2>3. \A t \in Sockets : pc[t] = "failed" => pc[t]' = "failed"
    BY <1>1 DEF TypeOK
  <2>4. faults' \in Nat /\ faults' >= faults
    BY <1>1 DEF TypeOK
  <2> QED
    BY <2>2, <2>3, <2>4, LeakKept
<1>6. \A t \in Sockets : Stream(t)' = Stream(t)
  BY <1>1 DEF Stream
<1>7. Stream(s)' = <<>>
  <2>1. Stream(s) = <<>> \o <<>> \o <<>>
    BY <1>2 DEF Stream
  <2> QED
    BY <2>1, <1>6, ConcatEmptySeq
<1>8. NothingAhead'
  BY <1>1, <1>2, <1>6, <1>7 DEF IndInv, NothingAhead
<1>9. StreamInOrder'
  <2>1. ASSUME NEW t \in Sockets
        PROVE  /\ \A i \in 1 .. Len(Stream(t))' :
                     /\ Stream(t)'[i] >= since[t]' + i
                     /\ i > 1 => Stream(t)'[i] > Stream(t)'[i - 1]
                     /\ resets[t]' = 0 => Stream(t)'[i] = since[t]' + i
               /\ t \in open' /\ resets[t]' = 0 => Len(Stream(t))' = published' - since[t]'
    <3>1. CASE t = s
      BY <3>1, <1>1, <1>2, <1>7
    <3>2. CASE t # s
      BY <3>2, <1>1, <1>2, <1>6 DEF IndInv, StreamInOrder
    <3> QED
      BY <3>1, <3>2
  <2> QED
    BY <2>1 DEF StreamInOrder
<1> QED
  BY <1>3, <1>4, <1>5, <1>8, <1>9 DEF IndInv

\* When the connection to Redis cannot be made, the socket stays behind.
LEMMA SubscribeFailsStep == ASSUME IndInv, NEW s \in Sockets, SubscribeFails(s) PROVE IndInv'
<1>1. TypeOK /\ pc[s] = "accepted" /\ pc' = [pc EXCEPT ![s] = "failed"]
      /\ active' = active \union {s} /\ faults' = faults + 1
      /\ UNCHANGED <<gone, open, queue, msg, got, since, resets, published>>
  BY DEF IndInv, SubscribeFails, At, Goto, Fault, streamVars
<1>2. s \notin open
  BY <1>1 DEF TypeOK
<1>3. TypeOK'
  BY <1>1 DEF TypeOK
<1>4. NothingHeld'
  BY <1>1 DEF IndInv, NothingHeld, TypeOK
<1>5. IsFiniteSet(active \ open)' /\ LeakBound'
  <2>1. active' \ open' = (active \ open) \union {s} /\ open' \subseteq active'
    BY <1>1, <1>2 DEF IndInv, LeakBound
  <2> QED
    BY <1>1, <2>1, LeakGrows
<1>6. NothingAhead' /\ StreamInOrder'
  <2>1. \A t \in Sockets : Stream(t)' = Stream(t)
    BY <1>1 DEF Stream
  <2> QED
    BY <1>1, <2>1, SameStreams
<1> QED
  BY <1>3, <1>4, <1>5, <1>6 DEF IndInv

\* Taking a message from the subscription moves it within the stream.
LEMMA ReadStep == ASSUME IndInv, NEW s \in Sockets, Read(s) PROVE IndInv'
<1>1. TypeOK /\ pc[s] = "read" /\ pc' = [pc EXCEPT ![s] = "send"] /\ queue[s] # <<>>
      /\ msg' = [msg EXCEPT ![s] = <<Head(queue[s])>>]
      /\ queue' = [queue EXCEPT ![s] = Tail(queue[s])]
      /\ UNCHANGED <<gone, active, open, got, since, resets, published, faults>>
  BY DEF IndInv, Read, At, Goto
<1>2. /\ s \in open /\ msg[s] = <<>>
      /\ got[s] \in Seq(Nat) /\ queue[s] \in Seq(Nat)
  BY <1>1 DEF TypeOK
<1>3. /\ Head(queue[s]) \in Nat /\ Tail(queue[s]) \in Seq(Nat)
      /\ got[s] \o <<Head(queue[s])>> \o Tail(queue[s]) = got[s] \o <<>> \o queue[s]
  BY <1>1, <1>2, StreamRead
<1>4. TypeOK'
  <2>1. <<Head(queue[s])>> \in Seq(Nat) /\ <<Head(queue[s])>> # <<>>
    BY <1>3
  <2>2. \A t \in Sockets : (msg'[t] # <<>>) <=> (pc'[t] = "send")
    BY <1>1, <2>1 DEF TypeOK
  <2>3. open' = {t \in Sockets : pc'[t] \in {"read", "send"}}
    BY <1>1 DEF TypeOK
  <2> QED
    BY <1>1, <1>3, <2>1, <2>2, <2>3 DEF TypeOK
<1>5. NothingHeld'
  BY <1>1, <1>2 DEF IndInv, NothingHeld, TypeOK
<1>6. IsFiniteSet(active \ open)' /\ LeakBound'
  BY <1>1, LeakUnchanged DEF TypeOK
<1>7. NothingAhead' /\ StreamInOrder'
  <2>1. msg'[s] = <<Head(queue[s])>> /\ queue'[s] = Tail(queue[s]) /\ got' = got
    BY <1>1 DEF TypeOK
  <2>2. Stream(s)' = Stream(s)
    BY <1>2, <1>3, <2>1 DEF Stream
  <2>3. \A t \in Sockets \ {s} : Stream(t)' = Stream(t)
    BY <1>1 DEF Stream, TypeOK
  <2>4. \A t \in Sockets : Stream(t)' = Stream(t)
    BY <2>2, <2>3
  <2> QED
    BY <1>1, <2>4, SameStreams
<1> QED
  BY <1>4, <1>5, <1>6, <1>7 DEF IndInv

\* A handler that ends releases its subscription: what its client received
\* remains of the stream.
LEMMA ReleasedStream ==
    ASSUME IndInv, NEW s \in Sockets, Release(s),
           pc[s] \in {"read", "send"}, NEW l \in {"closed", "failed"}, Goto(s, l)
    PROVE  /\ pc' \in [Sockets -> {"new", "accepted", "read", "send", "closed", "failed"}]
           /\ open' = {t \in Sockets : pc'[t] \in {"read", "send"}}
           /\ queue' \in [Sockets -> Seq(Nat)] /\ msg' \in [Sockets -> Seq(Nat)]
           /\ \A t \in Sockets : (msg'[t] # <<>>) <=> (pc'[t] = "send")
           /\ NothingHeld' /\ NothingAhead' /\ StreamInOrder'
<1>1. TypeOK /\ pc' = [pc EXCEPT ![s] = l] /\ open' = open \ {s}
      /\ queue' = [queue EXCEPT ![s] = <<>>] /\ msg' = [msg EXCEPT ![s] = <<>>]
      /\ UNCHANGED <<gone, got, since, resets, published>>
  BY DEF IndInv, Release, Goto
<1>2. /\ pc' \in [Sockets -> {"new", "accepted", "read", "send", "closed", "failed"}]
      /\ open' = {t \in Sockets : pc'[t] \in {"read", "send"}}
  BY <1>1 DEF TypeOK
<1>3. queue' \in [Sockets -> Seq(Nat)] /\ msg' \in [Sockets -> Seq(Nat)]
  BY <1>1 DEF TypeOK
<1>4. \A t \in Sockets : (msg'[t] # <<>>) <=> (pc'[t] = "send")
  BY <1>1 DEF TypeOK
<1>5. NothingHeld'
  BY <1>1 DEF IndInv, NothingHeld, TypeOK
<1>6. NothingAhead' /\ StreamInOrder'
  <2>1. Stream(s)' = got[s]
    <3>1. got'[s] = got[s] /\ msg'[s] = <<>> /\ queue'[s] = <<>>
      BY <1>1 DEF TypeOK
    <3>2. got[s] \in Seq(Nat)
      BY <1>1 DEF TypeOK
    <3> QED
      BY <3>1, <3>2, ConcatEmptySeq DEF Stream
  <2>2. /\ Len(Stream(s))' \in Nat
        /\ Len(Stream(s))' <= Len(Stream(s))
        /\ \A i \in 1 .. Len(Stream(s))' : Stream(s)'[i] = Stream(s)[i]
    <3>1. got[s] \in Seq(Nat) /\ msg[s] \in Seq(Nat) /\ queue[s] \in Seq(Nat)
      BY <1>1 DEF TypeOK
    <3>2. /\ Len(got[s]) <= Len(Stream(s))
          /\ \A i \in 1 .. Len(got[s]) : Stream(s)[i] = got[s][i]
      BY <3>1, StreamCut DEF Stream
    <3>3. Len(got[s]) \in Nat
      BY <3>1
    <3> QED
      BY <2>1, <3>2, <3>3
  <2>3. ASSUME NEW t \in Sockets, t # s
        PROVE  Stream(t)' = Stream(t) /\ Len(Stream(t)) \in Nat
    <3>1. Stream(t)' = Stream(t)
      BY <1>1, <2>3 DEF Stream, TypeOK
    <3> QED
      BY <1>1, <3>1, StreamType
  <2>4. ASSUME NEW t \in Sockets
        PROVE  /\ Len(Stream(t))' \in Nat
               /\ Len(Stream(t))' <= Len(Stream(t))
               /\ \A i \in 1 .. Len(Stream(t))' : Stream(t)'[i] = Stream(t)[i]
               /\ resets[t]' = 0 => resets[t] = 0
               /\ t \in open' /\ resets[t]' = 0 => t \in open /\ Stream(t)' = Stream(t)
    <3>1. CASE t = s
      BY <3>1, <1>1, <2>2
    <3>2. CASE t # s
      BY <3>2, <1>1, <2>3
    <3> QED
      BY <3>1, <3>2
  <2> QED
    BY <1>1, <2>4, ShorterStreams
<1> QED
  BY <1>2, <1>3, <1>4, <1>5, <1>6

\* A failing read ends the handler; its socket stays behind.
LEMMA ReadFailsStep == ASSUME IndInv, NEW s \in Sockets, ReadFails(s) PROVE IndInv'
<1>1. TypeOK /\ pc[s] = "read" /\ Goto(s, "failed") /\ pc' = [pc EXCEPT ![s] = "failed"]
      /\ faults' = faults + 1 /\ Release(s) /\ open' = open \ {s}
      /\ UNCHANGED <<active, gone, got, since, resets, published>>
  BY DEF IndInv, ReadFails, At, Goto, Fault, Release
<1>2. TypeOK'
  BY <1>1, ReleasedStream DEF TypeOK
<1>3. NothingHeld' /\ NothingAhead' /\ StreamInOrder'
  BY <1>1, ReleasedStream
<1>4. IsFiniteSet(active \ open)' /\ LeakBound'
  <2>1. s \in open /\ s \in active
    BY <1>1 DEF IndInv, TypeOK, LeakBound
  <2>2. active' \ open' = (active \ open) \union {s} /\ open' \subseteq active'
    BY <1>1, <2>1 DEF IndInv, LeakBound
  <2> QED
    BY <1>1, <2>2, LeakGrows
<1> QED
  BY <1>2, <1>3, <1>4 DEF IndInv

\* A disconnected client's socket leaves the set with its subscription.
LEMMA SendToGoneStep == ASSUME IndInv, NEW s \in Sockets, SendToGone(s) PROVE IndInv'
<1>1. TypeOK /\ pc[s] = "send" /\ Goto(s, "closed") /\ pc' = [pc EXCEPT ![s] = "closed"]
      /\ active' = active \ {s} /\ Release(s) /\ open' = open \ {s}
      /\ UNCHANGED <<gone, got, since, resets, published, faults>>
  BY DEF IndInv, SendToGone, At, Goto, Release
<1>2. TypeOK'
  BY <1>1, ReleasedStream DEF TypeOK
<1>3. NothingHeld' /\ NothingAhead' /\ StreamInOrder'
  BY <1>1, ReleasedStream
<1>4. IsFiniteSet(active \ open)' /\ LeakBound'
  <2>1. s \in open
    BY <1>1 DEF TypeOK
  <2>2. active' \ open' = active \ open /\ open' \subseteq active'
    BY <1>1, <2>1 DEF IndInv, LeakBound
  <2>3. \A t \in Sockets : pc[t] = "failed" => pc[t]' = "failed"
    BY <1>1 DEF TypeOK
  <2>4. faults' \in Nat /\ faults' >= faults
    BY <1>1 DEF TypeOK
  <2> QED
    BY <2>2, <2>3, <2>4, LeakKept
<1> QED
  BY <1>2, <1>3, <1>4 DEF IndInv

\* A subscription made anew loses what Redis kept for the old one.
LEMMA ResubscribeStep == ASSUME IndInv, NEW s \in Sockets, Resubscribe(s) PROVE IndInv'
<1>1. TypeOK /\ pc[s] = "read" /\ faults' = faults + 1
      /\ queue' = [queue EXCEPT ![s] = <<>>]
      /\ resets' = [resets EXCEPT ![s] = @ + 1]
      /\ UNCHANGED <<pc, gone, active, open, msg, got, since, published>>
  BY DEF IndInv, Resubscribe, At, Fault
<1>2. resets[s] \in Nat /\ resets'[s] = resets[s] + 1 /\ msg[s] = <<>> /\ s \in open
  BY <1>1 DEF TypeOK
<1>3. TypeOK'
  BY <1>1, <1>2 DEF TypeOK
<1>4. NothingHeld'
  BY <1>1, <1>2 DEF IndInv, NothingHeld, TypeOK
<1>5. IsFiniteSet(active \ open)' /\ LeakBound'
  <2>1. active' \ open' = active \ open /\ open' \subseteq active'
    BY <1>1 DEF IndInv, LeakBound
  <2>2. faults' \in Nat /\ faults' >= faults
    BY <1>1 DEF TypeOK
  <2>3. \A t \in Sockets : pc[t] = "failed" => pc[t]' = "failed"
    BY <1>1
  <2> QED
    BY <2>1, <2>2, <2>3, LeakKept
<1>6. NothingAhead' /\ StreamInOrder'
  <2>1. got[s] \in Seq(Nat) /\ msg[s] \in Seq(Nat) /\ queue[s] \in Seq(Nat)
    BY <1>1 DEF TypeOK
  <2>2. Stream(s)' = got[s]
    <3>1. got'[s] = got[s] /\ msg'[s] = <<>> /\ queue'[s] = <<>>
      BY <1>1, <1>2 DEF TypeOK
    <3> QED
      BY <3>1, <2>1, ConcatEmptySeq DEF Stream
  <2>3. /\ Len(got[s]) <= Len(Stream(s)) /\ Len(got[s]) \in Nat
        /\ \A i \in 1 .. Len(got[s]) : Stream(s)[i] = got[s][i]
    BY <2>1, StreamCut, LenProperties DEF Stream
  <2>4. ASSUME NEW t \in Sockets, t # s
        PROVE  /\ Stream(t)' = Stream(t) /\ Len(Stream(t)) \in Nat
               /\ resets'[t] = resets[t]
    <3>1. Stream(t)' = Stream(t) /\ resets'[t] = resets[t]
      BY <1>1, <2>4 DEF Stream, TypeOK
    <3> QED
      BY <1>1, <3>1, StreamType
  <2>5. ASSUME NEW t \in Sockets
        PROVE  /\ Len(Stream(t))' \in Nat
               /\ Len(Stream(t))' <= Len(Stream(t))
               /\ \A i \in 1 .. Len(Stream(t))' : Stream(t)'[i] = Stream(t)[i]
               /\ resets[t]' = 0 => resets[t] = 0
               /\ t \in open' /\ resets[t]' = 0 => t \in open /\ Stream(t)' = Stream(t)
    <3>1. CASE t = s
      BY <3>1, <1>2, <2>2, <2>3
    <3>2. CASE t # s
      BY <3>2, <1>1, <2>4
    <3> QED
      BY <3>1, <3>2
  <2> QED
    BY <1>1, <2>5, ShorterStreams
<1> QED
  BY <1>3, <1>4, <1>5, <1>6 DEF IndInv

\* Sending the message in hand moves it within the stream.
LEMMA SendStep == ASSUME IndInv, NEW s \in Sockets, Send(s) PROVE IndInv'
<1>1. TypeOK /\ pc[s] = "send" /\ pc' = [pc EXCEPT ![s] = "read"]
      /\ got' = [got EXCEPT ![s] = @ \o msg[s]] /\ msg' = [msg EXCEPT ![s] = <<>>]
      /\ UNCHANGED <<gone, active, open, queue, since, resets, published, faults>>
  BY DEF IndInv, Send, At, Goto
<1>2. /\ s \in open
      /\ got[s] \in Seq(Nat) /\ msg[s] \in Seq(Nat) /\ queue[s] \in Seq(Nat)
      /\ got[s] \o msg[s] \in Seq(Nat)
      /\ got'[s] = got[s] \o msg[s] /\ msg'[s] = <<>>
  BY <1>1, ConcatProperties DEF TypeOK
<1>3. TypeOK'
  <2>1. got' \in [Sockets -> Seq(Nat)] /\ msg' \in [Sockets -> Seq(Nat)]
    BY <1>1, <1>2 DEF TypeOK
  <2>2. \A t \in Sockets : (msg'[t] # <<>>) <=> (pc'[t] = "send")
    BY <1>1, <1>2 DEF TypeOK
  <2>3. open' = {t \in Sockets : pc'[t] \in {"read", "send"}}
    BY <1>1 DEF TypeOK
  <2> QED
    BY <1>1, <2>1, <2>2, <2>3 DEF TypeOK
<1>4. NothingHeld'
  BY <1>1, <1>2 DEF IndInv, NothingHeld, TypeOK
<1>5. IsFiniteSet(active \ open)' /\ LeakBound'
  BY <1>1, LeakUnchanged DEF TypeOK
<1>6. NothingAhead' /\ StreamInOrder'
  <2>1. Stream(s)' = (got[s] \o msg[s]) \o <<>> \o queue[s]
    BY <1>1, <1>2 DEF Stream
  <2>2. Stream(s)' = Stream(s)
    BY <1>2, <2>1, StreamSent DEF Stream
  <2>3. \A t \in Sockets \ {s} : Stream(t)' = Stream(t)
    BY <1>1 DEF Stream, TypeOK
  <2>4. \A t \in Sockets : Stream(t)' = Stream(t)
    BY <2>2, <2>3
  <2> QED
    BY <1>1, <2>4, SameStreams
<1> QED
  BY <1>3, <1>4, <1>5, <1>6 DEF IndInv

\* The invariant depends on the state alone.
LEMMA Stuttering == ASSUME IndInv, UNCHANGED vars PROVE IndInv'
  BY DEF IndInv, TypeOK, NothingHeld, NothingAhead, StreamInOrder, Stream, LeakBound, vars
-----------------------------------------------------------------------------
\* Every step of every handler, of the publisher, of a client and of the
\* connection to Redis keeps the invariant.
THEOREM Invariance == Spec => []IndInv
<1>1. IndInv /\ [Next]_vars => IndInv'
  <2> SUFFICES ASSUME IndInv, [Next]_vars
               PROVE  IndInv'
    OBVIOUS
  <2>1. CASE Publish
    BY <2>1, PublishStep
  <2>2. ASSUME NEW s \in Sockets,
               \/ Handler(s)
               \/ Leave(s)
               \/ SubscribeFails(s) \/ ReadFails(s) \/ Resubscribe(s)
        PROVE  IndInv'
    BY <2>2, LeaveStep, AcceptStep, SubscribeStep, SubscribeFailsStep, ReadStep, ReadFailsStep,
       ResubscribeStep, SendStep, SendToGoneStep, Zenon DEF Handler
  <2>3. CASE UNCHANGED vars
    BY <2>3, Stuttering
  <2> QED
    BY <2>1, <2>2, <2>3 DEF Next
<1> QED
  BY InitIndInv, <1>1, PTL DEF Spec

\* The client of every socket receives an increasing run of the stream from
\* its subscription on, without a gap unless it was subscribed anew.
THEOREM StreamInOrderHolds == Spec => []StreamInOrder
<1>1. IndInv => StreamInOrder
  BY DEF IndInv
<1> QED
  BY Invariance, <1>1, PTL

\* However many clients come and go, _active_ws keeps at most one dead socket
\* per failure of the connection to Redis.
THEOREM LeakBoundHolds == Spec => []LeakBound
<1>1. IndInv => LeakBound
  BY DEF IndInv
<1> QED
  BY Invariance, <1>1, PTL
=============================================================================
