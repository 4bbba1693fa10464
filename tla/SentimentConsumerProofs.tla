----------------------- MODULE SentimentConsumerProofs -----------------------
(***************************************************************************)
(* The safety of SentimentConsumer for every kind of message, topic        *)
(* length, batch size and number of faults: lemmas on the batch as a       *)
(* sequence, the inductive invariant action by action, its consequences,   *)
(* and the refinement of DeliveryContract.                                 *)
(***************************************************************************)
EXTENDS SentimentConsumer, SequenceTheorems, TLAPS

\* Taking one more offset into the batch adds it to the batch's range.
LEMMA RangeAppend ==
    ASSUME NEW S, NEW s \in Seq(S), NEW e \in S
    PROVE  Range(Append(s, e)) = Range(s) \union {e}
<1>1. /\ DOMAIN Append(s, e) = 1 .. Len(s) + 1
      /\ \A i \in 1 .. Len(s) : Append(s, e)[i] = s[i]
      /\ Append(s, e)[Len(s) + 1] = e
      /\ DOMAIN s = 1 .. Len(s)
      /\ Len(s) \in Nat
  OBVIOUS
<1> QED
  BY <1>1 DEF Range

\* The tail of the batch holds its offsets but the head's.
LEMMA RangeHeadTail ==
    ASSUME NEW S, NEW s \in Seq(S), s # <<>>
    PROVE  /\ Head(s) \in Range(s)
           /\ Range(s) = {Head(s)} \union Range(Tail(s))
<1>1. /\ Head(s) = s[1]
      /\ DOMAIN Tail(s) = 1 .. Len(s) - 1
      /\ \A i \in 1 .. Len(s) - 1 : Tail(s)[i] = s[i + 1]
      /\ DOMAIN s = 1 .. Len(s)
      /\ Len(s) \in Nat \ {0}
  OBVIOUS
<1>2. \A i \in 1 .. Len(s) : i = 1 \/ (i - 1 \in 1 .. Len(s) - 1 /\ Tail(s)[i - 1] = s[i])
  BY <1>1
<1>3. 1 \in DOMAIN s
  BY <1>1
<1>4. Head(s) \in Range(s)
  BY <1>1, <1>3 DEF Range
<1>5. Range(Tail(s)) \subseteq Range(s)
  BY <1>1 DEF Range
<1>6. ASSUME NEW x \in Range(s)
      PROVE  x \in {Head(s)} \union Range(Tail(s))
  <2>1. PICK i \in 1 .. Len(s) : x = s[i]
    BY <1>1 DEF Range
  <2>2. CASE i = 1
    BY <2>1, <2>2, <1>1
  <2>3. CASE i # 1
    BY <2>1, <2>3, <1>1, <1>2 DEF Range
  <2> QED
    BY <2>2, <2>3
<1> QED
  BY <1>4, <1>5, <1>6

\* The empty batch holds nothing.
LEMMA RangeEmpty == Range(<<>>) = {}
  BY DEF Range

\* A sequence of offsets ranges over offsets.
LEMMA RangeSeq ==
    ASSUME NEW S, NEW s \in Seq(S)
    PROVE  Range(s) \subseteq S
  BY DEF Range


USE KindsAssumption, MaxOffsetAssumption, BatchSizeAssumption, MaxFaultsAssumption
USE DEF NextOffset, StartPosition

\* At the end of an iteration the loop goes on or the consumer has closed.
LEMMA NextIterationPc ==
    ASSUME NextIteration
    PROVE  batch' = <<>> /\ (pc' = "poll" \/ pc' = "closed")
<1>1. CASE running
  BY <1>1 DEF NextIteration
<1>2. CASE ~running
  BY <1>2 DEF NextIteration
<1> QED
  BY <1>1, <1>2

\* The invariant holds before any process has started.
LEMMA InitIndInv == Init => IndInv
<1> SUFFICES ASSUME Init
             PROVE  IndInv
  OBVIOUS
<1>1. TypeOK
  <2>1. topic \in Seq(Kinds) /\ batch \in Seq(Offsets) /\ Len(topic) = 0
    BY DEF Init
  <2>2. rows \in [Offsets -> Nat]
    BY DEF Init
  <2>3. cached \subseteq Offsets /\ abandoned \subseteq Offsets
    BY DEF Init
  <2>4. /\ committed \in Nat /\ position \in Nat /\ faults \in 0 .. MaxFaults
        /\ Len(topic) <= MaxOffset
    BY <2>1 DEF Init
  <2>5. running \in BOOLEAN
    BY Zenon DEF Init
  <2>6. pc \in Up \union {"down", "closed"}
    BY DEF Init, Up, Looping
  <2> QED
    BY <2>1, <2>2, <2>3, <2>4, <2>5, <2>6 DEF TypeOK
<1>2. ReadPrefix /\ BatchInOrder /\ NoGap /\ NoSilentLoss
  BY DEF Init, ReadPrefix, BatchInOrder, NoGap, NoSilentLoss, IsArticle
<1>3. OnlyArticles /\ BatchWritten /\ RowsBudget /\ CacheBehindDb
  BY DEF Init, OnlyArticles, BatchWritten, RowsBudget, CacheBehindDb, Stored, Offsets, Delivered
<1> QED
  BY <1>1, <1>2, <1>3 DEF IndInv

\* A new message extends the topic beyond everything the process has read.
LEMMA ProduceIndInv ==
    ASSUME IndInv, NEW k \in Kinds, Produce(k)
    PROVE  IndInv'
<1> USE DEF IndInv, Produce
<1>1. /\ Len(topic') = Len(topic) + 1
      /\ DOMAIN topic = 1 .. Len(topic)
      /\ DOMAIN topic' = 1 .. Len(topic) + 1
      /\ \A o \in DOMAIN topic : topic'[o] = topic[o]
      /\ topic' \in Seq(Kinds)
      /\ Len(topic) \in Nat
  BY DEF TypeOK
<1>2. TypeOK'
  BY <1>1 DEF TypeOK, Offsets, Up, Looping
<1>3. \A o : IsArticle(o) => IsArticle(o)'
  BY <1>1 DEF IsArticle
<1>4. \A o \in DOMAIN topic' : o < position => o \in DOMAIN topic
  BY <1>1, <1>2 DEF ReadPrefix, TypeOK
<1>5. \A o : IsArticle(o)' /\ o < position => IsArticle(o)
  BY <1>1, <1>4 DEF IsArticle
<1>6. ReadPrefix'
  BY <1>1, <1>4 DEF ReadPrefix, TypeOK
<1>7. BatchInOrder'
  BY <1>3 DEF BatchInOrder
<1>8. NoGap'
  BY <1>5, <1>4 DEF NoGap
<1>9. OnlyArticles'
  BY <1>3 DEF OnlyArticles, Stored
<1>10. NoSilentLoss'
  <2>1. \A o \in DOMAIN topic' : o < committed => o < position
    BY <1>1 DEF TypeOK, ReadPrefix
  <2> QED
    BY <2>1, <1>5, <1>4 DEF NoSilentLoss, Stored
<1>11. BatchWritten' /\ RowsBudget' /\ CacheBehindDb'
  BY DEF BatchWritten, RowsBudget, Delivered, CacheBehindDb, Stored
<1> QED
  BY <1>2, <1>6, <1>7, <1>8, <1>9, <1>10, <1>11

\* A process that starts forgets nothing that is owed: it reads again from
\* the committed offset.
LEMMA ConstructIndInv ==
    ASSUME IndInv, Restart \/ StartAgain
    PROVE  IndInv'
<1> USE DEF IndInv
<1>1. Construct /\ pc \in {"down", "closed"} /\ pc' = "constructed"
  BY DEF Restart, StartAgain, Construct
<1>2. TypeOK'
  BY <1>1 DEF TypeOK, Construct, Up, Looping
<1>3. ReadPrefix'
  BY <1>1 DEF TypeOK, ReadPrefix, Construct
<1>4. BatchInOrder'
  <2>1. batch = <<>> /\ batch' = <<>>
    BY <1>1 DEF BatchInOrder, Construct
  <2> QED
    BY <2>1, <1>1 DEF BatchInOrder
<1>5. NoGap'
  BY <1>1 DEF TypeOK, NoGap, Construct
<1>6. OnlyArticles'
  BY <1>1 DEF OnlyArticles, Stored, IsArticle, Construct
<1>7. NoSilentLoss'
  BY <1>1 DEF NoSilentLoss, Stored, IsArticle, Construct, TypeOK
<1>8. BatchWritten' /\ CacheBehindDb'
  BY <1>1 DEF BatchWritten, CacheBehindDb, Stored, Construct
<1>9. RowsBudget'
  BY <1>1 DEF RowsBudget, Delivered, Construct, TypeOK
<1> QED
  BY <1>2, <1>3, <1>4, <1>5, <1>6, <1>7, <1>8, <1>9

\* Entering the loop, or a signal, changes no offset.
LEMMA FlagIndInv ==
    ASSUME IndInv, Run \/ Stop
    PROVE  IndInv'
<1> USE DEF IndInv
<1>1. /\ UNCHANGED <<topic, committed, rows, cached, position, batch, abandoned>>
      /\ pc' = pc \/ (pc = "constructed" /\ pc' = "poll")
      /\ faults' \in Nat /\ faults' >= faults
  BY DEF Run, Stop, Fault, TypeOK
<1>2. TypeOK'
  <2>1. running' \in BOOLEAN
    BY Zenon DEF TypeOK, Run, Stop
  <2>2. pc' \in Up \union {"down", "closed"}
    BY <1>1 DEF TypeOK, Up, Looping
  <2>3. faults' \in 0 .. MaxFaults
    BY DEF TypeOK, Run, Stop, Fault
  <2> QED
    BY <1>1, <2>1, <2>2, <2>3 DEF TypeOK
<1>3. ReadPrefix' /\ BatchInOrder' /\ NoGap' /\ NoSilentLoss'
  BY <1>1 DEF ReadPrefix, BatchInOrder, NoGap, NoSilentLoss, IsArticle, Stored
<1>4. OnlyArticles' /\ BatchWritten' /\ CacheBehindDb'
  BY <1>1 DEF OnlyArticles, BatchWritten, CacheBehindDb, IsArticle, Stored
<1>5. RowsBudget'
  BY <1>1 DEF RowsBudget, Delivered, TypeOK
<1> QED
  BY <1>2, <1>3, <1>4, <1>5

\* A process that dies leaves the database, the cache and the group's offset
\* as they were; an insertion whose commit did not follow is paid for by the
\* fault that killed it.
LEMMA DieIndInv ==
    ASSUME IndInv, Crash \/ PollPoison
    PROVE  IndInv'
<1> USE DEF IndInv
<1>1. /\ UNCHANGED <<topic, committed, rows, cached, abandoned>>
      /\ Die
      /\ \/ faults' = faults /\ pc = "poll"
         \/ faults' = faults + 1 /\ faults < MaxFaults
  BY DEF Crash, PollPoison, CanPoll, Fault
<1>2. TypeOK'
  <2>1. running' \in BOOLEAN
    BY <1>1, Zenon DEF Die
  <2>2. pc' \in Up \union {"down", "closed"}
    BY <1>1 DEF Die
  <2>3. faults' \in 0 .. MaxFaults
    BY <1>1 DEF TypeOK
  <2>4. batch' \in Seq(Offsets) /\ position' = committed
    BY <1>1 DEF Die
  <2> QED
    BY <1>1, <2>1, <2>2, <2>3, <2>4 DEF TypeOK
<1>3. ReadPrefix'
  BY <1>1 DEF ReadPrefix, Die, TypeOK
<1>4. BatchInOrder'
  BY <1>1 DEF BatchInOrder, Die
<1>5. NoGap'
  BY <1>1 DEF NoGap, Die, TypeOK
<1>6. NoSilentLoss' /\ OnlyArticles' /\ BatchWritten' /\ CacheBehindDb'
  BY <1>1 DEF NoSilentLoss, OnlyArticles, BatchWritten, CacheBehindDb, IsArticle, Stored, Die
<1>7. RowsBudget'
  BY <1>1 DEF RowsBudget, Delivered, Die, TypeOK
<1> QED
  BY <1>2, <1>3, <1>4, <1>5, <1>6, <1>7

\* An article joins the batch at its end; nothing read is left out.
LEMMA PollArticleIndInv ==
    ASSUME IndInv, PollArticle
    PROVE  IndInv'
<1> USE DEF IndInv
<1>1. /\ UNCHANGED <<topic, committed, rows, cached, pc, abandoned, faults>>
      /\ running' = running
      /\ pc = "poll"
      /\ position \in DOMAIN topic /\ topic[position] = "ok"
      /\ batch' = Append(batch, position) /\ position' = position + 1
  BY DEF PollArticle, CanPoll
<1>2. /\ position \in Offsets
      /\ position \in Nat /\ committed \in Nat /\ committed <= position
      /\ position <= Len(topic)
  BY <1>1 DEF TypeOK, ReadPrefix, Offsets
<1>3. /\ batch' \in Seq(Offsets)
      /\ DOMAIN batch = 1 .. Len(batch) /\ DOMAIN batch' = 1 .. Len(batch) + 1
      /\ \A i \in 1 .. Len(batch) : batch'[i] = batch[i]
      /\ batch'[Len(batch) + 1] = position
      /\ Len(batch) \in Nat
  BY <1>1, <1>2 DEF TypeOK
<1>4. Range(batch') = Range(batch) \union {position}
  BY <1>1, <1>2, RangeAppend DEF TypeOK
<1>5. TypeOK'
  BY <1>1, <1>2, <1>3 DEF TypeOK
<1>6. ReadPrefix'
  BY <1>1, <1>2 DEF ReadPrefix, TypeOK
<1>7. BatchInOrder'
  <2>1. \A i \in DOMAIN batch : batch[i] \in Nat /\ committed <= batch[i] /\ batch[i] < position
    BY DEF BatchInOrder, TypeOK, Offsets
  <2>2. \A i \in DOMAIN batch' : /\ committed <= batch'[i] /\ batch'[i] < position'
                                 /\ IsArticle(batch'[i])
    <3>1. TAKE i \in DOMAIN batch'
    <3>2. CASE i \in DOMAIN batch
      BY <3>2, <2>1, <1>1, <1>2, <1>3 DEF BatchInOrder, IsArticle
    <3>3. CASE i = Len(batch) + 1
      BY <3>3, <1>1, <1>2, <1>3 DEF IsArticle
    <3> QED
      BY <3>1, <3>2, <3>3, <1>3
  <2>3. \A i, j \in DOMAIN batch' : i < j => batch'[i] < batch'[j]
    <3>1. TAKE i, j \in DOMAIN batch'
    <3>2. HAVE i < j
    <3>3. i \in DOMAIN batch /\ batch'[i] = batch[i]
      BY <3>1, <3>2, <1>3
    <3>4. CASE j \in DOMAIN batch
      BY <3>2, <3>3, <3>4, <1>3 DEF BatchInOrder
    <3>5. CASE j = Len(batch) + 1
      BY <3>3, <3>5, <1>3, <2>1
    <3> QED
      BY <3>1, <3>4, <3>5, <1>3
  <2> QED
    BY <2>2, <2>3, <1>1 DEF BatchInOrder, IsArticle
<1>8. NoGap'
  <2>1. \A o \in DOMAIN topic : o < position' => o < position \/ o = position
    BY <1>1, <1>2 DEF TypeOK
  <2> QED
    BY <2>1, <1>1, <1>4 DEF NoGap, IsArticle
<1>9. OnlyArticles' /\ BatchWritten' /\ CacheBehindDb' /\ NoSilentLoss'
  BY <1>1 DEF OnlyArticles, BatchWritten, CacheBehindDb, NoSilentLoss, IsArticle, Stored
<1>10. RowsBudget'
  BY <1>1 DEF RowsBudget, Delivered
<1> QED
  BY <1>5, <1>6, <1>7, <1>8, <1>9, <1>10

\* What is skipped is not an article, so skipping leaves no gap.
LEMMA PollMalformedIndInv ==
    ASSUME IndInv, PollMalformed
    PROVE  IndInv'
<1> USE DEF IndInv
<1>1. /\ UNCHANGED <<topic, committed, rows, cached, pc, abandoned, faults, batch>>
      /\ running' = running
      /\ position \in DOMAIN topic /\ topic[position] = "malformed"
      /\ position' = position + 1
  BY DEF PollMalformed, CanPoll
<1>2. TypeOK'
  BY <1>1 DEF TypeOK
<1>3. \A o \in DOMAIN topic : o < position' => o < position \/ o = position
  BY <1>1 DEF TypeOK
<1>4. ReadPrefix'
  BY <1>1, <1>3 DEF ReadPrefix, TypeOK
<1>5. BatchInOrder'
  <2>1. \A i \in DOMAIN batch : batch[i] < position'
    BY <1>1 DEF BatchInOrder, TypeOK, Offsets
  <2> QED
    BY <1>1, <2>1 DEF BatchInOrder, IsArticle
<1>6. NoGap'
  BY <1>1, <1>3 DEF NoGap, IsArticle
<1>7. OnlyArticles' /\ BatchWritten' /\ CacheBehindDb' /\ NoSilentLoss'
  BY <1>1 DEF OnlyArticles, BatchWritten, CacheBehindDb, NoSilentLoss, IsArticle, Stored
<1>8. RowsBudget'
  BY <1>1 DEF RowsBudget, Delivered
<1> QED
  BY <1>2, <1>4, <1>5, <1>6, <1>7, <1>8

\* Leaving the poll changes no offset; it closes only with an empty batch.
LEMMA EndPollIndInv ==
    ASSUME IndInv, EndPoll
    PROVE  IndInv'
<1> USE DEF IndInv
<1>1. /\ UNCHANGED <<topic, committed, rows, cached, position, batch, abandoned, faults>>
      /\ running' = running
      /\ pc = "poll"
      /\ \/ batch = <<>> /\ pc' \in {"poll", "closed"}
         \/ batch # <<>> /\ pc' = "write"
  <2>1. CASE batch = <<>>
    <3>1. NextIteration
      BY <2>1 DEF EndPoll
    <3>2. /\ UNCHANGED <<topic, committed, rows, cached, position, abandoned, faults>>
          /\ running' = running
          /\ pc = "poll"
      BY DEF EndPoll
    <3> QED
      BY <2>1, <3>1, <3>2, NextIterationPc
  <2>2. CASE batch # <<>>
    BY <2>2 DEF EndPoll
  <2> QED
    BY <2>1, <2>2
<1>2. TypeOK'
  BY <1>1 DEF TypeOK, Up, Looping
<1>3. BatchInOrder'
  BY <1>1 DEF BatchInOrder, IsArticle
<1>4. ReadPrefix' /\ NoGap' /\ NoSilentLoss'
  BY <1>1 DEF ReadPrefix, NoGap, NoSilentLoss, IsArticle, Stored
<1>5. OnlyArticles' /\ BatchWritten' /\ CacheBehindDb'
  BY <1>1 DEF OnlyArticles, BatchWritten, CacheBehindDb, IsArticle, Stored
<1>6. RowsBudget'
  BY <1>1 DEF RowsBudget, Delivered
<1> QED
  BY <1>2, <1>3, <1>4, <1>5, <1>6

\* The rows once the batch is inserted: each of its articles has one more.
LEMMA InsertedRows ==
    ASSUME TypeOK
    PROVE  /\ Inserted \in [Offsets -> Nat]
           /\ \A o \in Offsets :
                 /\ o \in Range(batch) => Inserted[o] = rows[o] + 1
                 /\ o \notin Range(batch) => Inserted[o] = rows[o]
  BY DEF TypeOK, Inserted

\* The batch holds uncommitted articles, read by this process.
LEMMA BatchArticles ==
    ASSUME IndInv
    PROVE  /\ Range(batch) \subseteq Offsets
           /\ \A o \in Range(batch) : /\ committed <= o /\ o < position
                                      /\ IsArticle(o)
<1>1. Range(batch) \subseteq Offsets
  BY RangeSeq DEF IndInv, TypeOK
<1>2. \A o \in Range(batch) : \E i \in DOMAIN batch : o = batch[i]
  BY DEF Range
<1> QED
  BY <1>1, <1>2 DEF IndInv, BatchInOrder

\* The transaction of write_batch: none of its articles is committed yet, so
\* the row added to each is the one its coming commit is entitled to.
LEMMA WriteBatchIndInv ==
    ASSUME IndInv, WriteBatch
    PROVE  IndInv'
<1> USE DEF IndInv
<1>1. /\ UNCHANGED <<topic, committed, cached, position, batch, abandoned, faults>>
      /\ running' = running
      /\ pc = "write" /\ pc' = "cache"
      /\ rows' = Inserted
  BY DEF WriteBatch
<1>2. /\ rows' \in [Offsets -> Nat]
      /\ \A o \in Offsets : /\ o \in Range(batch) => rows'[o] = rows[o] + 1
                            /\ o \notin Range(batch) => rows'[o] = rows[o]
  BY <1>1, InsertedRows
<1>3. /\ Range(batch) \subseteq Offsets
      /\ \A o \in Range(batch) : committed <= o /\ IsArticle(o)
  BY BatchArticles
<1>4. Stored' = Stored \union Range(batch)
  BY <1>2, <1>3 DEF Stored, TypeOK
<1>5. TypeOK'
  BY <1>1, <1>2 DEF TypeOK, Up, Looping
<1>6. ReadPrefix' /\ BatchInOrder' /\ NoGap'
  BY <1>1 DEF ReadPrefix, BatchInOrder, NoGap, IsArticle
<1>7. OnlyArticles' /\ BatchWritten' /\ CacheBehindDb' /\ NoSilentLoss'
  BY <1>1, <1>3, <1>4 DEF OnlyArticles, BatchWritten, CacheBehindDb, NoSilentLoss, IsArticle
<1>8. RowsBudget'
  <2>1. SUFFICES ASSUME NEW o \in Offsets
                 PROVE  (rows[o] <= IF Delivered(o) THEN faults + 1 ELSE faults)'
    BY DEF RowsBudget
  <2>2. CASE o \in Range(batch)
    <3>1. ~(o < committed)
      BY <2>2, <1>3 DEF TypeOK, Offsets
    <3>2. rows[o] <= faults
      BY <3>1, <1>1 DEF RowsBudget, Delivered
    <3> QED
      BY <2>2, <3>2, <1>1, <1>2 DEF Delivered, TypeOK
  <2>3. CASE o \notin Range(batch)
    BY <2>3, <1>1, <1>2 DEF RowsBudget, Delivered
  <2> QED
    BY <2>2, <2>3
<1> QED
  BY <1>5, <1>6, <1>7, <1>8

\* Results reach Redis after the database.
LEMMA CacheResultsIndInv ==
    ASSUME IndInv, CacheResults
    PROVE  IndInv'
<1> USE DEF IndInv
<1>1. /\ UNCHANGED <<topic, committed, rows, position, batch, abandoned, faults>>
      /\ running' = running
      /\ pc = "cache" /\ pc' = "commit"
      /\ cached' = cached \union Range(batch)
  BY DEF CacheResults
<1>2. Range(batch) \subseteq Offsets /\ \A o \in Range(batch) : IsArticle(o)
  BY BatchArticles
<1>3. TypeOK'
  BY <1>1, <1>2 DEF TypeOK, Up, Looping
<1>4. ReadPrefix' /\ BatchInOrder' /\ NoGap' /\ NoSilentLoss'
  BY <1>1 DEF ReadPrefix, BatchInOrder, NoGap, NoSilentLoss, IsArticle, Stored
<1>5. OnlyArticles' /\ BatchWritten' /\ CacheBehindDb'
  BY <1>1, <1>2 DEF OnlyArticles, BatchWritten, CacheBehindDb, IsArticle, Stored
<1>6. RowsBudget'
  BY <1>1 DEF RowsBudget, Delivered
<1> QED
  BY <1>3, <1>4, <1>5, <1>6

\* The except branch: the batch moves from the hand to the abandoned, and the
\* fault pays for rows that were inserted and will not be committed.
LEMMA AbandonIndInv ==
    ASSUME IndInv, WriteBatchFails \/ CacheResultsFails
    PROVE  IndInv'
<1> USE DEF IndInv
<1>1. /\ Abandon
      /\ \/ pc = "write" /\ cached' = cached /\ rows' \in {rows, Inserted}
         \/ /\ pc = "cache" /\ rows' = rows
            /\ cached' \in {cached, cached \union Range(batch)}
  BY DEF WriteBatchFails, CacheResultsFails
<1>2. /\ UNCHANGED <<topic, committed, position>>
      /\ running' = running
      /\ batch' = <<>> /\ (pc' = "poll" \/ pc' = "closed")
      /\ abandoned' = abandoned \union Range(batch)
      /\ faults < MaxFaults /\ faults' = faults + 1
  BY <1>1, NextIterationPc DEF Abandon, Fault
<1>3. /\ Range(batch) \subseteq Offsets
      /\ \A o \in Range(batch) : committed <= o /\ IsArticle(o)
  BY BatchArticles
<1>4. /\ rows' \in [Offsets -> Nat]
      /\ \A o \in Offsets :
            \/ rows'[o] = rows[o]
            \/ o \in Range(batch) /\ pc = "write" /\ rows'[o] = rows[o] + 1
  <2>1. CASE rows' = rows
    BY <2>1 DEF TypeOK
  <2>2. CASE rows' = Inserted /\ pc = "write"
    BY <2>2, InsertedRows
  <2> QED
    BY <1>1, <2>1, <2>2
<1>5. Stored \subseteq Stored' /\ Stored' \subseteq Stored \union Range(batch)
  <2>1. \A o \in Offsets : rows[o] \in Nat
    BY DEF TypeOK
  <2>2. \A o \in Offsets : /\ rows[o] > 0 => rows'[o] > 0
                           /\ rows'[o] > 0 => rows[o] > 0 \/ o \in Range(batch)
    BY <1>4, <2>1
  <2>3. /\ \A o : o \in Stored <=> o \in Offsets /\ rows[o] > 0
        /\ \A o : o \in Stored' <=> o \in Offsets /\ rows'[o] > 0
    BY DEF Stored
  <2> QED
    BY <2>2, <2>3
<1>6. cached' \subseteq Stored'
  BY <1>1, <1>5 DEF CacheBehindDb, BatchWritten
<1>7. TypeOK'
  <2>1. cached' \subseteq Offsets /\ abandoned' \subseteq Offsets
    BY <1>1, <1>2, <1>3 DEF TypeOK
  <2>2. batch' \in Seq(Offsets) /\ faults' \in 0 .. MaxFaults
    BY <1>2 DEF TypeOK
  <2>3. pc' \in Up \union {"down", "closed"}
    BY <1>2 DEF Up, Looping
  <2> QED
    BY <1>2, <1>4, <2>1, <2>2, <2>3 DEF TypeOK
<1>8. ReadPrefix' /\ BatchInOrder'
  BY <1>2 DEF ReadPrefix, BatchInOrder, IsArticle
<1>9. NoGap' /\ NoSilentLoss'
  BY <1>2, <1>5 DEF NoGap, NoSilentLoss, IsArticle
<1>10. OnlyArticles' /\ BatchWritten' /\ CacheBehindDb'
  BY <1>2, <1>3, <1>5, <1>6 DEF OnlyArticles, BatchWritten, CacheBehindDb, IsArticle
<1>11. RowsBudget'
  <2>1. SUFFICES ASSUME NEW o \in Offsets
                 PROVE  rows'[o] <= IF o < committed THEN faults + 2 ELSE faults + 1
    BY <1>2 DEF RowsBudget, Delivered, TypeOK
  <2>2. rows[o] <= IF Delivered(o) THEN faults + 1 ELSE faults
    BY DEF RowsBudget
  <2>3. rows[o] \in Nat /\ faults \in Nat
    BY DEF TypeOK
  <2>4. CASE rows'[o] = rows[o]
    BY <2>2, <2>3, <2>4
  <2>5. CASE o \in Range(batch) /\ pc = "write" /\ rows'[o] = rows[o] + 1
    <3>1. ~Delivered(o)
      BY <2>5, <1>3 DEF Delivered, TypeOK, Offsets
    <3> QED
      BY <2>2, <2>3, <2>5, <3>1
  <2> QED
    BY <1>4, <2>4, <2>5
<1> QED
  BY <1>7, <1>8, <1>9, <1>10, <1>11

\* A commit made by the head of the batch: it moves the committed offset
\* forward to just beyond an article that is in the database, and every
\* article it passes on the way was abandoned.
LEMMA CommitHead ==
    ASSUME IndInv, pc = "commit"
    PROVE  LET h == Head(batch) IN
           /\ h \in Offsets /\ IsArticle(h) /\ h \in Stored /\ h \in Range(batch)
           /\ committed <= h /\ h < position
           /\ \A o \in Range(batch) : o = h \/ h < o
           /\ \A o \in DOMAIN topic :
                 IsArticle(o) /\ o < h + 1 => o \in Stored \union abandoned
<1> USE DEF IndInv
<1> DEFINE h == Head(batch)
<1>1. batch \in Seq(Offsets) /\ batch # <<>>
  BY DEF TypeOK, BatchInOrder
<1>2. h \in Range(batch)
  BY <1>1, RangeHeadTail
<1>3. /\ h \in Offsets /\ IsArticle(h)
      /\ committed <= h /\ h < position
  BY <1>2, BatchArticles
<1>4. Range(batch) \subseteq Stored
  BY DEF BatchWritten
<1>5. ASSUME NEW o \in Range(batch)
      PROVE  o = h \/ h < o
  <2>1. h = batch[1] /\ 1 \in DOMAIN batch /\ DOMAIN batch \subseteq Nat \ {0}
    BY <1>1
  <2>2. PICK i \in DOMAIN batch : o = batch[i]
    BY DEF Range
  <2>3. i = 1 \/ 1 < i
    BY <2>1
  <2> QED
    BY <2>1, <2>2, <2>3 DEF BatchInOrder
<1>6. ASSUME NEW o \in DOMAIN topic, IsArticle(o), o < h + 1
      PROVE  o \in Stored \union abandoned
  <2>1. o \in Nat /\ h \in Nat /\ committed \in Nat /\ position \in Nat
    BY <1>3 DEF TypeOK, Offsets
  <2>2. CASE o < committed
    BY <2>2, <1>6 DEF NoSilentLoss
  <2>3. CASE ~(o < committed)
    <3>1. o \in Range(batch) \union abandoned
      BY <2>1, <2>3, <1>3, <1>6 DEF NoGap
    <3> QED
      BY <3>1, <1>4
  <2> QED
    BY <2>2, <2>3
<1> QED
  BY <1>2, <1>3, <1>4, <1>5, <1>6

\* One commit of the loop.
LEMMA CommitOneIndInv ==
    ASSUME IndInv, CommitOne
    PROVE  IndInv'
<1> USE DEF IndInv
<1> DEFINE h == Head(batch)
<1>1. /\ UNCHANGED <<topic, rows, cached, position, abandoned, faults>>
      /\ running' = running
      /\ pc = "commit" /\ committed' = h + 1
  BY DEF CommitOne
<1>2. /\ h \in Offsets /\ h \in Range(batch)
      /\ committed <= h /\ h < position
      /\ \A o \in Range(batch) : o = h \/ h < o
      /\ \A o \in DOMAIN topic :
            IsArticle(o) /\ o < h + 1 => o \in Stored \union abandoned
  BY <1>1, CommitHead
<1>3. batch \in Seq(Offsets) /\ batch # <<>> /\ Tail(batch) \in Seq(Offsets)
  BY <1>1, HeadTailProperties DEF TypeOK, BatchInOrder
<1>4. /\ \/ batch' = <<>> /\ Range(batch) = {h} /\ (pc' = "poll" \/ pc' = "closed")
         \/ batch' = Tail(batch) /\ batch' # <<>> /\ pc' = "commit"
      /\ Range(batch) = {h} \union Range(batch')
  <2>1. Range(batch) = {h} \union Range(Tail(batch))
    BY <1>3, RangeHeadTail
  <2>2. CASE Len(batch) = 1
    <3>1. NextIteration
      BY <2>2 DEF CommitOne
    <3>2. Tail(batch) = <<>>
      BY <2>2, <1>3, HeadTailProperties, EmptySeq
    <3> QED
      BY <2>1, <3>1, <3>2, NextIterationPc, RangeEmpty
  <2>3. CASE Len(batch) # 1
    <3>1. batch' = Tail(batch) /\ pc' = pc
      BY <2>3 DEF CommitOne
    <3>2. Tail(batch) # <<>>
      <4>1. Len(batch) \in Nat \ {0} /\ Len(Tail(batch)) = Len(batch) - 1
        BY <1>3, EmptySeq, HeadTailProperties
      <4> QED
        BY <4>1, <2>3
    <3> QED
      BY <2>1, <3>1, <3>2, <1>1
  <2> QED
    BY <2>2, <2>3
<1>5. batch' \in Seq(Offsets)
  <2>1. CASE batch' = <<>>
    BY <2>1
  <2>2. CASE batch' = Tail(batch)
    BY <2>2, <1>3
  <2> QED
    BY <1>4, <2>1, <2>2
<1>6. TypeOK'
  <2>1. pc' \in Up \union {"down", "closed"}
    BY <1>4 DEF Up, Looping
  <2>2. committed' \in Nat
    BY <1>1, <1>2 DEF Offsets
  <2> QED
    BY <1>1, <1>5, <2>1, <2>2 DEF TypeOK
<1>7. ReadPrefix'
  <2>1. h \in Nat /\ position \in Nat /\ committed \in Nat
    BY <1>2 DEF TypeOK, Offsets
  <2>2. 1 <= h + 1 /\ h + 1 <= position
    BY <2>1, <1>2
  <2> QED
    BY <2>2, <1>1 DEF ReadPrefix
<1>8. BatchInOrder'
  <2>1. CASE batch' = <<>>
    BY <2>1, <1>4 DEF BatchInOrder
  <2>2. CASE batch' # <<>>
    <3>1. batch' = Tail(batch) /\ pc' = "commit"
      BY <2>2, <1>4
    <3>2. /\ DOMAIN batch = 1 .. Len(batch) /\ DOMAIN batch' = 1 .. Len(batch) - 1
          /\ \A i \in 1 .. Len(batch) - 1 : batch'[i] = batch[i + 1]
          /\ Len(batch) \in Nat \ {0} /\ h = batch[1]
      BY <3>1, <1>3
    <3>3. \A i \in DOMAIN batch' : i + 1 \in DOMAIN batch /\ batch'[i] = batch[i + 1]
      BY <3>2
    <3>4. \A i \in DOMAIN batch' : h < batch'[i] /\ batch'[i] \in Nat
      <4>1. TAKE i \in DOMAIN batch'
      <4>2. 1 \in DOMAIN batch /\ i + 1 \in DOMAIN batch /\ 1 < i + 1
        BY <3>2, <3>3
      <4>3. batch[i + 1] \in Nat
        BY <4>2, <1>3 DEF Offsets
      <4> QED
        BY <4>2, <4>3, <3>2, <3>3 DEF BatchInOrder
    <3>5. \A i \in DOMAIN batch' : /\ h + 1 <= batch'[i] /\ batch'[i] < position
                                   /\ IsArticle(batch'[i])
      <4>1. h \in Nat
        BY <1>2 DEF Offsets
      <4> QED
        BY <4>1, <3>3, <3>4 DEF BatchInOrder
    <3>6. \A i, j \in DOMAIN batch' : i < j => batch'[i] < batch'[j]
      <4>1. TAKE i, j \in DOMAIN batch'
      <4>2. i + 1 \in DOMAIN batch /\ j + 1 \in DOMAIN batch /\ (i < j => i + 1 < j + 1)
        BY <3>2, <3>3
      <4> QED
        BY <4>2, <3>3 DEF BatchInOrder
    <3> QED
      BY <2>2, <3>1, <3>5, <3>6, <1>1 DEF BatchInOrder, IsArticle
  <2> QED
    BY <2>1, <2>2
<1>9. NoGap'
  <2>1. ASSUME NEW o \in DOMAIN topic, IsArticle(o), h + 1 <= o, o < position
        PROVE  o \in Range(batch') \union abandoned
    <3>1. committed <= o /\ o # h
      <4>1. o \in Nat /\ h \in Nat /\ committed \in Nat
        BY <1>2 DEF TypeOK, Offsets
      <4> QED
        BY <4>1, <1>2, <2>1
    <3> QED
      BY <3>1, <2>1, <1>4 DEF NoGap
  <2> QED
    BY <2>1, <1>1 DEF NoGap, IsArticle
<1>10. NoSilentLoss'
  BY <1>1, <1>2 DEF NoSilentLoss, IsArticle, Stored
<1>11. OnlyArticles' /\ BatchWritten' /\ CacheBehindDb'
  BY <1>1, <1>4 DEF OnlyArticles, BatchWritten, CacheBehindDb, IsArticle, Stored
<1>12. RowsBudget'
  <2>1. \A o \in Offsets : Delivered(o) => Delivered(o)'
    <3>1. TAKE o \in Offsets
    <3>2. CASE o < committed \/ o = h
      BY <3>2, <1>1, <1>2 DEF Delivered, TypeOK, Offsets
    <3>3. CASE o \in Range(batch')
      BY <3>3, <1>4, RangeEmpty DEF Delivered
    <3> QED
      BY <3>2, <3>3, <1>4 DEF Delivered
  <2> QED
    BY <2>1, <1>1 DEF RowsBudget, TypeOK
<1> QED
  BY <1>6, <1>7, <1>8, <1>9, <1>10, <1>11, <1>12

\* A failed commit kills the process; the broker may have applied it.
LEMMA CommitFailsIndInv ==
    ASSUME IndInv, CommitFails
    PROVE  IndInv'
<1> USE DEF IndInv
<1> DEFINE h == Head(batch)
<1>1. /\ UNCHANGED <<topic, rows, cached, abandoned>>
      /\ pc = "commit" /\ pc' = "down"
      /\ running' = FALSE
      /\ batch' = <<>> /\ position' = committed'
      /\ committed' \in {committed, h + 1}
      /\ faults < MaxFaults /\ faults' = faults + 1
  BY DEF CommitFails, Fault
<1>2. /\ h \in Offsets /\ committed <= h /\ h < position
      /\ \A o \in DOMAIN topic :
            IsArticle(o) /\ o < h + 1 => o \in Stored \union abandoned
  BY <1>1, CommitHead
<1>3. /\ committed' \in Nat
      /\ committed <= committed' /\ committed' <= position
  BY <1>1, <1>2 DEF TypeOK, ReadPrefix, Offsets
<1>4. TypeOK'
  <2>1. running' \in BOOLEAN
    BY <1>1, Zenon
  <2>2. faults' \in 0 .. MaxFaults
    BY <1>1 DEF TypeOK
  <2>3. batch' \in Seq(Offsets)
    BY <1>1
  <2>4. pc' \in Up \union {"down", "closed"}
    BY <1>1
  <2> QED
    BY <1>1, <1>3, <2>1, <2>2, <2>3, <2>4 DEF TypeOK
<1>5. ReadPrefix'
  BY <1>1, <1>3 DEF ReadPrefix, TypeOK
<1>6. BatchInOrder'
  BY <1>1 DEF BatchInOrder
<1>7. NoGap'
  BY <1>1, <1>3 DEF NoGap, TypeOK
<1>8. NoSilentLoss'
  BY <1>1, <1>2 DEF NoSilentLoss, IsArticle, Stored
<1>9. OnlyArticles' /\ BatchWritten' /\ CacheBehindDb'
  BY <1>1 DEF OnlyArticles, BatchWritten, CacheBehindDb, IsArticle, Stored
<1>10. RowsBudget'
  BY <1>1 DEF RowsBudget, Delivered, TypeOK
<1> QED
  BY <1>4, <1>5, <1>6, <1>7, <1>8, <1>9, <1>10

\* Every step of the consumer and of its environment keeps the invariant.
LEMMA NextIndInv == IndInv /\ [Next]_vars => IndInv'
<1> SUFFICES ASSUME IndInv, [Next]_vars
             PROVE  IndInv'
  OBVIOUS
<1>1. ASSUME NEW k \in Kinds, Produce(k)
      PROVE  IndInv'
  BY <1>1, ProduceIndInv
<1>2. CASE Restart \/ StartAgain
  BY <1>2, ConstructIndInv
<1>3. CASE Run \/ Stop
  BY <1>3, FlagIndInv
<1>4. CASE Crash \/ PollPoison
  BY <1>4, DieIndInv
<1>5. CASE PollArticle
  BY <1>5, PollArticleIndInv
<1>6. CASE PollMalformed
  BY <1>6, PollMalformedIndInv
<1>7. CASE EndPoll
  BY <1>7, EndPollIndInv
<1>8. CASE WriteBatch
  BY <1>8, WriteBatchIndInv
<1>9. CASE CacheResults
  BY <1>9, CacheResultsIndInv
<1>10. CASE WriteBatchFails \/ CacheResultsFails
  BY <1>10, AbandonIndInv
<1>11. CASE CommitOne
  BY <1>11, CommitOneIndInv
<1>12. CASE CommitFails
  BY <1>12, CommitFailsIndInv
<1>13. CASE UNCHANGED vars
  BY <1>13 DEF vars, IndInv, TypeOK, ReadPrefix, BatchInOrder, NoGap, OnlyArticles,
     BatchWritten, RowsBudget, Delivered, NoSilentLoss, CacheBehindDb, IsArticle, Stored
<1> QED
  BY <1>1, <1>2, <1>3, <1>4, <1>5, <1>6, <1>7, <1>8, <1>9, <1>10, <1>11, <1>12, <1>13
  DEF Next, PollStep, ProcessStep, FaultStep

\* The inductive invariant holds in every state the consumer can reach.
THEOREM Invariance == Spec => []IndInv
  BY InitIndInv, NextIndInv, PTL DEF Spec

\* No article is passed by the committed offset unless it is in the database
\* or its batch ended in the except branch (NoSilentLoss).
THEOREM NoSilentLossHolds == Spec => []NoSilentLoss
<1>1. IndInv => NoSilentLoss
  BY DEF IndInv
<1> QED
  BY <1>1, Invariance, PTL

\* An article never has more rows than one and the number of faults.
THEOREM DuplicateBudgetHolds == Spec => []DuplicateBudget
<1>1. IndInv => DuplicateBudget
  BY DEF IndInv, TypeOK, RowsBudget, DuplicateBudget
<1> QED
  BY <1>1, Invariance, PTL

\* Redis never shows a result the database does not hold.
THEOREM CacheBehindDbHolds == Spec => []CacheBehindDb
<1>1. IndInv => CacheBehindDb
  BY DEF IndInv
<1> QED
  BY <1>1, Invariance, PTL

\* A consumer that has closed has committed or abandoned all it polled.
THEOREM GracefulDrainHolds == Spec => []GracefulDrain
<1>1. ASSUME IndInv
      PROVE  GracefulDrain
  <2>1. SUFFICES ASSUME pc = "closed", NEW o \in DOMAIN topic, IsArticle(o),
                        committed <= o, o < position
                 PROVE  o \in abandoned
    BY DEF GracefulDrain
  <2>2. Range(batch) = {}
    BY <1>1, <2>1, RangeEmpty DEF IndInv, BatchInOrder
  <2> QED
    BY <1>1, <2>1, <2>2 DEF IndInv, NoGap
<1> QED
  BY <1>1, Invariance, PTL

\* The group's offset never passes a message that cannot be deserialised.
THEOREM PoisonBarrierHolds == Spec => []PoisonBarrier
<1>1. ASSUME IndInv
      PROVE  PoisonBarrier
  <2>1. SUFFICES ASSUME NEW o \in DOMAIN topic, topic[o] = "poison", o < committed
                 PROVE  FALSE
    BY <1>1 DEF IndInv, TypeOK, PoisonBarrier
  <2>2. o < position
    BY <1>1, <2>1 DEF IndInv, TypeOK, ReadPrefix
  <2> QED
    BY <1>1, <2>1, <2>2 DEF IndInv, ReadPrefix
<1> QED
  BY <1>1, Invariance, PTL

\* The only steps that move the committed offset are commits, which move it
\* beyond the head of the batch, within what has been published, and only
\* over articles that are settled.
LEMMA CommitStep ==
    ASSUME IndInv, CommitOne \/ CommitFails
    PROVE  /\ UNCHANGED <<topic, rows, abandoned>>
           /\ \/ committed' = committed
              \/ /\ committed' \in Nat /\ committed' > committed
                 /\ committed' <= Len(topic) + 1
                 /\ \A o \in DOMAIN topic :
                       IsArticle(o) /\ o < committed' => o \in Stored \union abandoned
<1> DEFINE h == Head(batch)
<1>1. /\ UNCHANGED <<topic, rows, abandoned>> /\ pc = "commit"
      /\ committed' \in {committed, h + 1}
  BY DEF CommitOne, CommitFails
<1>2. /\ h \in Offsets /\ committed <= h /\ h < position
      /\ \A o \in DOMAIN topic :
            IsArticle(o) /\ o < h + 1 => o \in Stored \union abandoned
  BY <1>1, CommitHead
<1>3. h + 1 \in Nat /\ h + 1 > committed /\ h + 1 <= Len(topic) + 1
  <2>1. h \in Nat /\ committed \in Nat /\ position \in Nat /\ Len(topic) \in Nat
    BY <1>2 DEF IndInv, TypeOK, Offsets
  <2>2. position <= Len(topic) + 1
    BY DEF IndInv, ReadPrefix
  <2> QED
    BY <1>2, <2>1, <2>2
<1> QED
  BY <1>1, <1>2, <1>3

\* The only steps that insert rows are the transactions of write_batch, and
\* they insert rows of articles that are not committed.
LEMMA WriteStep ==
    ASSUME IndInv, WriteBatch \/ WriteBatchFails
    PROVE  /\ UNCHANGED <<topic, committed>>
           /\ \A o \in Offsets : o < committed => rows'[o] = rows[o]
           /\ Stored \subseteq Stored'
           /\ \A o \in Stored' : IsArticle(o)
<1>1. UNCHANGED <<topic, committed>> /\ rows' \in {rows, Inserted}
  BY DEF WriteBatch, WriteBatchFails, Abandon
<1>2. \A o \in Offsets : rows[o] \in Nat /\ committed \in Nat /\ o \in Nat
  BY DEF IndInv, TypeOK, Offsets
<1>3. /\ \A o \in Range(batch) : committed <= o /\ IsArticle(o)
      /\ \A o \in Stored : IsArticle(o)
  BY BatchArticles DEF IndInv, OnlyArticles
<1>4. \A o \in Offsets : \/ rows'[o] = rows[o]
                         \/ o \in Range(batch) /\ rows'[o] = rows[o] + 1
  BY <1>1, InsertedRows DEF IndInv
<1>5. \A o \in Offsets : o < committed => rows'[o] = rows[o]
  BY <1>2, <1>3, <1>4
<1>6. /\ \A o : o \in Stored <=> o \in Offsets /\ rows[o] > 0
      /\ \A o : o \in Stored' <=> o \in Offsets /\ rows'[o] > 0
  BY DEF Stored
<1>7. Stored \subseteq Stored' /\ Stored' \subseteq Stored \union Range(batch)
  BY <1>2, <1>4, <1>6
<1> QED
  BY <1>1, <1>3, <1>5, <1>7

\* Every other step leaves both alone; a new process drops what it had
\* abandoned above the committed offset, and an abandoned batch is added.
LEMMA OtherStep ==
    ASSUME IndInv,
           \/ Restart \/ StartAgain \/ Run \/ Stop \/ Crash
           \/ PollArticle \/ PollMalformed \/ PollPoison \/ EndPoll
           \/ CacheResults \/ CacheResultsFails \/ UNCHANGED vars
    PROVE  /\ UNCHANGED <<topic, committed, rows>>
           /\ \A o \in abandoned : o < committed => o \in abandoned'
  BY DEF Restart, StartAgain, Construct, Run, Stop, Crash, PollArticle, PollMalformed,
     PollPoison, EndPoll, CacheResults, CacheResultsFails, Abandon, vars

\* A committed article is never inserted again, and no commit is undone.
THEOREM CommittedNeverReprocessedHolds == Spec => CommittedNeverReprocessed
<1>1. ASSUME IndInv, [Next]_vars
      PROVE  [/\ committed <= committed'
              /\ \A o \in Offsets : o < committed => rows'[o] = rows[o]]_vars
  <2>1. committed \in Nat
    BY <1>1 DEF IndInv, TypeOK
  <2>2. CASE CommitOne \/ CommitFails
    BY <2>1, <2>2, <1>1, CommitStep
  <2>3. CASE WriteBatch \/ WriteBatchFails
    BY <2>1, <2>3, <1>1, WriteStep
  <2>4. ASSUME NEW k \in Kinds, Produce(k)
        PROVE  UNCHANGED <<committed, rows>>
    BY <2>4 DEF Produce
  <2>5. CASE \/ Restart \/ StartAgain \/ Run \/ Stop \/ Crash
             \/ PollArticle \/ PollMalformed \/ PollPoison \/ EndPoll
             \/ CacheResults \/ CacheResultsFails \/ UNCHANGED vars
    BY <2>1, <2>5, <1>1, OtherStep
  <2> QED
    BY <2>1, <2>2, <2>3, <2>4, <2>5, <1>1 DEF Next, PollStep, ProcessStep, FaultStep
<1> QED
  BY <1>1, Invariance, PTL DEF Spec, CommittedNeverReprocessed

\* The consumer implements the delivery contract: each of its steps is a
\* publication, a settlement, an acknowledgement, or invisible.
THEOREM ContractHolds == Spec => ContractSpec
<1>1. Init => Contract!Init
  <2> SUFFICES ASSUME Init PROVE Contract!Init
    OBVIOUS
  <2>1. Len(topic) = 0 /\ DOMAIN topic = {} /\ Stored = {}
    BY DEF Init, Stored
  <2> QED
    BY <2>1 DEF Init, Contract!Init
<1>2. ASSUME IndInv, IndInv', [Next]_vars
      PROVE  [Contract!Next]_Contract!cvars
  <2> DEFINE owed == {o \in DOMAIN topic : topic[o] = "ok"}
  <2>1. /\ \A o : o \in owed <=> IsArticle(o)
        /\ \A o \in Stored \union abandoned : IsArticle(o)
        /\ \A o \in Stored' \union abandoned' : IsArticle(o)'
        /\ Len(topic) \in Nat
    BY <1>2 DEF IndInv, TypeOK, OnlyArticles, IsArticle
  <2>2. CASE CommitOne \/ CommitFails
    <3>1. UNCHANGED <<topic, rows, abandoned>> /\ Stored' = Stored
      BY <2>2, <1>2, CommitStep DEF Stored
    <3>2. CASE committed' = committed
      BY <3>1, <3>2 DEF Contract!cvars
    <3>3. CASE committed' # committed
      <4>1. /\ committed' \in Nat /\ committed' > committed
            /\ committed' <= Len(topic) + 1
            /\ \A o \in owed : o < committed' => o \in Stored \union abandoned
        BY <3>3, <2>1, <2>2, <1>2, CommitStep
      <4>2. Contract!Acknowledge
        BY <3>1, <4>1 DEF Contract!Acknowledge
      <4> QED
        BY <4>2 DEF Contract!Next
    <3> QED
      BY <3>2, <3>3
  <2>3. ASSUME UNCHANGED <<topic, committed>>, Stored \subseteq Stored',
               \A o \in abandoned : o < committed => o \in abandoned'
        PROVE  Contract!Settle
    BY <2>1, <2>3 DEF Contract!Settle, IsArticle
  <2>4. CASE WriteBatch \/ WriteBatchFails
    <3>1. \A o \in abandoned : o \in abandoned'
      BY <2>4 DEF WriteBatch, WriteBatchFails, Abandon
    <3> QED
      BY <3>1, <2>3, <2>4, <1>2, WriteStep DEF Contract!Next
  <2>5. ASSUME NEW k \in Kinds, Produce(k)
        PROVE  Contract!Publish
    <3>1. /\ Len(topic') = Len(topic) + 1 /\ Len(topic) < MaxOffset
          /\ DOMAIN topic' = DOMAIN topic \union {Len(topic) + 1}
          /\ \A o \in DOMAIN topic : topic'[o] = topic[o]
          /\ UNCHANGED <<committed, rows, abandoned>>
      BY <1>2, <2>5 DEF Produce, IndInv, TypeOK
    <3>2. owed' \in {owed, owed \union {Len(topic) + 1}}
      <4>1. Len(topic) + 1 \notin DOMAIN topic
        BY <1>2 DEF IndInv, TypeOK
      <4>2. \A o : o \in owed' <=> o \in owed \/ (o = Len(topic) + 1 /\ topic'[o] = "ok")
        BY <3>1, <4>1
      <4>3. CASE topic'[Len(topic) + 1] = "ok"
        BY <4>2, <4>3
      <4>4. CASE topic'[Len(topic) + 1] # "ok"
        BY <4>2, <4>4
      <4> QED
        BY <4>3, <4>4
    <3>3. Stored' = Stored
      BY <3>1 DEF Stored
    <3> QED
      BY <3>1, <3>2, <3>3 DEF Contract!Publish
  <2>6. CASE \/ Restart \/ StartAgain \/ Run \/ Stop \/ Crash
             \/ PollArticle \/ PollMalformed \/ PollPoison \/ EndPoll
             \/ CacheResults \/ CacheResultsFails \/ UNCHANGED vars
    <3>1. UNCHANGED <<topic, committed, rows>> /\ Stored' = Stored
      BY <2>6, <1>2, OtherStep DEF Stored
    <3>2. Contract!Settle
      BY <3>1, <2>3, <2>6, <1>2, OtherStep
    <3> QED
      BY <3>2 DEF Contract!Next
  <2> QED
    BY <2>2, <2>4, <2>5, <2>6, <1>2
    DEF Next, PollStep, ProcessStep, FaultStep, Contract!Next
<1> QED
  BY <1>1, <1>2, Invariance, PTL DEF Spec, ContractSpec, Contract!Spec
=============================================================================
