------------------------- MODULE FetchPublishProofs -------------------------
(***************************************************************************)
(* What the ingestion side guarantees for any number of overlapping runs,  *)
(* articles, feeds, retries and failures: what a mark promises, and how    *)
(* often an article may reach the topic.                                   *)
(***************************************************************************)
EXTENDS FetchPublish, FiniteSetTheorems, WellFoundedInduction, TLAPS

-----------------------------------------------------------------------------
\* The newest article that a run keeps is one of those it keeps.
LEMMA NewestExists ==
    ASSUME NEW S \in SUBSET Articles, S # {}
    PROVE  Max(S) \in S
<1> DEFINE T == {MaxArticle - a : a \in S}
           R == OpToRel(<, Nat)
<1>1. T \subseteq Nat /\ T # {}
  <2>1. \A a \in S : MaxArticle - a \in Nat
    BY BoundsAssumption DEF Articles
  <2> QED
    BY <2>1
<1>2. PICK m \in T : \A k \in T : ~(<<k, m>> \in R)
  <2> HIDE DEF T, R
  <2>1. IsWellFoundedOn(R, Nat)
    BY NatLessThanWellFounded DEF R
  <2> QED
    BY <1>1, <2>1, WFMin
<1>3. \A k \in T : ~(k < m)
  BY <1>1, <1>2 DEF OpToRel
<1>4. PICK b \in S : m = MaxArticle - b
  OBVIOUS
<1>5. \A a \in S : b >= a
  <2>1. ASSUME NEW a \in S
        PROVE  b >= a
    <3>1. ~(MaxArticle - a < MaxArticle - b)
      BY <1>3, <1>4
    <3> QED
      BY <3>1, BoundsAssumption DEF Articles
  <2> QED
    BY <2>1
<1> QED
  BY <1>5 DEF Max

\* Being near is symmetric and reflexive.
LEMMA NearSymmetric == \A a, b : Near(a, b) = Near(b, a) /\ Near(a, a)
  BY DEF Near

\* The candidate of a run is an article, and so is all that it has in hand.
LEMMA HandType ==
    ASSUME TypeOK, NEW r \in Runs, RunInv(r)
    PROVE  /\ run[r] \in Records
           /\ At(r, "mark") => Candidate(r) \in Articles
           /\ InHand(r) \subseteq Articles
<1>1. run[r] \in Records
  BY DEF TypeOK
<1>2. At(r, "mark") => Candidate(r) \in Articles
  <2>1. run[r].todo \in Seq(Articles)
    BY <1>1 DEF Records
  <2> QED
    BY <2>1 DEF RunInv, Candidate
<1> QED
  BY <1>1, <1>2 DEF InHand, Records
-----------------------------------------------------------------------------
\* What a step of a run may do, unless it is a check that lets an article
\* through: take nothing up, mark its candidate, or deliver what it has queued;
\* and what it lets go of is in the topic, cut off or the price of a failure.
OwnStep(r) ==
    /\ TypeOK'
    /\ \A q \in Runs \ {r} : run'[q] = run[q]
    /\ RunInv(r)'
    /\ InHand(r)' \subseteq InHand(r)
    /\ ~At(r, "mark")'
    /\ \/ marks' = marks
       \/ At(r, "mark") /\ marks' = marks \union {Candidate(r)}
    /\ \A a \in Articles :
          \/ published'[a] = published[a]
          \/ /\ a \in run[r].queue /\ a \notin InHand(r)'
             /\ published'[a] = published[a] + 1
    /\ \A a \in Articles : a \in InHand(r) \/ dlq'[a] = dlq[a]
    /\ cutOff \subseteq cutOff' /\ evicted' = evicted
    /\ fellBack => fellBack'
    /\ overlapped => overlapped'
    /\ At(r, "idle") => overlapped' \/ \A q \in Runs \ {r} : At(q, "idle")
    /\ faults' >= faults
    /\ faults' = 0 =>
          \A a \in InHand(r) : a \in InHand(r)' \/ a \in cutOff' \/ published'[a] > 0

\* What a run knows about itself does not change when the others move, as
\* long as marks and failures only grow.
LEMMA OthersKeep ==
    ASSUME NEW q \in Runs, RunInv(q), run'[q] = run[q], marks \subseteq marks',
           evicted' = evicted, fellBack => fellBack', faults \in Nat, faults' \in Nat, faults' >= faults
    PROVE  RunInv(q)'
<1>1. faults > 0 => faults' > 0
  OBVIOUS
<1> QED
  BY <1>1 DEF RunInv, At, Candidate
-----------------------------------------------------------------------------
\* A fetch starts with nothing in hand, and needs nothing to have been let go.
LEMMA FetchOwn ==
    ASSUME IndInv, NEW r \in Runs, NEW n \in Nat, Fetch(r, n),
           run[r].pc \in {"idle", "retry"}, UNCHANGED started \/ started' = started + 1
    PROVE  OwnStep(r)
<1>1. /\ TypeOK /\ RunInv(r) /\ run[r] \in Records /\ faults \in Nat
  BY HandType DEF IndInv, TypeOK
<1>2. PICK feed \in Feeds, lost \in BOOLEAN :
        /\ run' = [run EXCEPT ![r] = [NoRun EXCEPT !.pc = "dedup", !.todo = feed,
                                                   !.inMemory = lost, !.tries = n]]
        /\ IF lost THEN Fault /\ fellBack' = TRUE ELSE UNCHANGED <<faults, fellBack>>
  BY Zenon DEF Fetch
<1>3. /\ overlapped' = (overlapped \/ \E q \in Runs \ {r} : ~At(q, "idle"))
      /\ UNCHANGED <<marks, published, dlq, cutOff, evicted>>
  BY DEF Fetch
<1> DEFINE x == [NoRun EXCEPT !.pc = "dedup", !.todo = feed, !.inMemory = lost, !.tries = n]
<1>4. /\ x \in Records /\ x.pc = "dedup" /\ x.kept = {} /\ x.queue = {} /\ x.inMemory = lost
  BY FeedsAssumption DEF NoRun, Records
<1>5. run' = [run EXCEPT ![r] = x]
  BY <1>2
<1> HIDE DEF x
<1>6. run' \in [Runs -> Records] /\ run'[r] = x /\ \A q \in Runs \ {r} : run'[q] = run[q]
  BY <1>1, <1>4, <1>5 DEF TypeOK
<1>7. faults' \in Nat /\ faults' >= faults
  BY <1>1, <1>2 DEF Fault
<1>8. fellBack' \in BOOLEAN /\ (fellBack => fellBack') /\ (lost => fellBack')
  BY <1>1, <1>2 DEF TypeOK
<1>9. TypeOK'
  <2>1. overlapped' \in BOOLEAN /\ started' \in Nat
    BY <1>1, <1>3 DEF TypeOK
  <2> QED
    BY <1>1, <1>3, <1>6, <1>7, <1>8, <2>1 DEF TypeOK
<1>10. InHand(r)' = {} /\ InHand(r) = {} /\ ~At(r, "mark")'
  BY <1>1, <1>4, <1>6 DEF InHand, At, RunInv
<1>11. RunInv(r)'
  BY <1>4, <1>6, <1>8 DEF RunInv, At
<1> QED
  BY <1>1, <1>3, <1>6, <1>7, <1>8, <1>9, <1>10, <1>11 DEF OwnStep

\* A duplicate is skipped.
LEMMA SkipOwn ==
    ASSUME IndInv, NEW r \in Runs, Check(r), ~At(r, "mark")'
    PROVE  OwnStep(r)
<1>1. /\ TypeOK /\ RunInv(r) /\ run[r] \in Records /\ faults \in Nat
  BY HandType DEF IndInv, TypeOK
<1>2. /\ run[r].pc = "dedup" /\ run[r].todo # <<>>
      /\ run' = IF \E k \in Known(r) : Near(Candidate(r), k)
                THEN [run EXCEPT ![r].todo = Tail(@)]
                ELSE [run EXCEPT ![r].pc = "mark"]
      /\ UNCHANGED <<marks, published, dlq, cutOff, fellBack, overlapped, evicted, started, faults>>
  BY DEF Check, At, history
<1>3. run' = [run EXCEPT ![r].todo = Tail(@)]
  <2>1. ASSUME run' = [run EXCEPT ![r].pc = "mark"]
        PROVE  At(r, "mark")'
    BY <2>1, <1>1 DEF At, TypeOK, Records
  <2> QED
    BY <1>2, <2>1, Zenon
<1> DEFINE td == Tail(run[r].todo)
           x == [run[r] EXCEPT !.todo = td]
<1>4. run[r].pc = "dedup" /\ td \in Seq(Articles)
  BY <1>1, <1>2 DEF Records
<1>5. /\ run' \in [Runs -> Records] /\ \A q \in Runs \ {r} : run'[q] = run[q]
      /\ run'[r].pc = "dedup" /\ run'[r].kept = run[r].kept /\ run'[r].queue = run[r].queue
      /\ run'[r].seen = run[r].seen /\ run'[r].inMemory = run[r].inMemory
  <2>1. run' = [run EXCEPT ![r] = x]
    BY <1>1, <1>3 DEF TypeOK, Records
  <2> HIDE DEF td
  <2>2. /\ x \in Records /\ x.pc = "dedup" /\ x.kept = run[r].kept
        /\ x.queue = run[r].queue /\ x.inMemory = run[r].inMemory /\ x.seen = run[r].seen
    BY <1>1, <1>4 DEF Records
  <2> HIDE DEF x
  <2>3. run' \in [Runs -> Records] /\ run'[r] = x /\ \A q \in Runs \ {r} : run'[q] = run[q]
    BY <1>1, <2>1, <2>2 DEF TypeOK
  <2> QED
    BY <2>2, <2>3
<1>6. TypeOK'
  BY <1>1, <1>2, <1>5 DEF TypeOK
<1>7. InHand(r)' = InHand(r) /\ ~At(r, "mark")'
  BY <1>2, <1>5 DEF InHand, At
<1>8. RunInv(r)'
  BY <1>1, <1>2, <1>5 DEF RunInv, At
<1>9. /\ ~At(r, "idle") /\ (fellBack => fellBack') /\ (overlapped => overlapped')
      /\ faults' >= faults
  BY <1>1, <1>2 DEF At
<1> QED
  BY <1>1, <1>2, <1>5, <1>6, <1>7, <1>8, <1>9 DEF OwnStep

\* The candidate that a run marks stays in its hands.
LEMMA MarkOwn == ASSUME IndInv, NEW r \in Runs, Mark(r) PROVE OwnStep(r)
<1>1. /\ TypeOK /\ RunInv(r) /\ run[r] \in Records /\ faults \in Nat
      /\ At(r, "mark") => Candidate(r) \in Articles
  BY HandType DEF IndInv, TypeOK
<1>2. /\ run[r].pc = "mark" /\ At(r, "mark")
      /\ run' = [run EXCEPT ![r].pc = "dedup", ![r].todo = Tail(@),
                            ![r].kept = @ \union {Candidate(r)},
                            ![r].seen = IF run[r].inMemory THEN @ \union {Candidate(r)} ELSE @]
      /\ marks' = IF run[r].inMemory THEN marks ELSE marks \union {Candidate(r)}
      /\ UNCHANGED <<published, dlq, cutOff, fellBack, overlapped, evicted, started, faults>>
  BY DEF Mark, At, history
<1> DEFINE c == Candidate(r)
           td == Tail(run[r].todo)
           sn == IF run[r].inMemory THEN run[r].seen \union {c} ELSE run[r].seen
<1>3. td \in Seq(Articles)
  BY <1>1, <1>2 DEF Records, RunInv, At
<1>4. c \in Articles
  BY <1>1, <1>2
<1>5. sn \in SUBSET Articles
  BY <1>1, <1>4 DEF Records
<1> HIDE DEF c, td, sn
<1>6. /\ run' \in [Runs -> Records] /\ \A q \in Runs \ {r} : run'[q] = run[q]
      /\ run'[r].pc = "dedup" /\ run'[r].kept = run[r].kept \union {c}
      /\ run'[r].queue = run[r].queue /\ run'[r].inMemory = run[r].inMemory
      /\ run'[r].seen = IF run[r].inMemory THEN run[r].seen \union {c} ELSE run[r].seen
  <2> DEFINE x == [run[r] EXCEPT !.pc = "dedup", !.todo = td,
                                 !.kept = @ \union {c}, !.seen = sn]
  <2>1. run' = [run EXCEPT ![r] = x]
    BY <1>1, <1>2 DEF c, td, sn, TypeOK, Records
  <2>2. /\ x \in Records /\ x.pc = "dedup" /\ x.kept = run[r].kept \union {c}
        /\ x.queue = run[r].queue /\ x.inMemory = run[r].inMemory /\ x.seen = sn
    BY <1>1, <1>3, <1>4, <1>5 DEF Records
  <2> HIDE DEF x
  <2>3. run' \in [Runs -> Records] /\ run'[r] = x /\ \A q \in Runs \ {r} : run'[q] = run[q]
    BY <1>1, <2>1, <2>2 DEF TypeOK
  <2> QED
    BY <2>2, <2>3 DEF sn
<1>7. TypeOK'
  <2>1. marks' \subseteq Articles
    BY <1>1, <1>2, <1>4 DEF TypeOK, c
  <2> QED
    BY <1>1, <1>2, <1>6, <2>1 DEF TypeOK
<1>8. InHand(r)' = InHand(r) /\ ~At(r, "mark")'
  BY <1>2, <1>6 DEF InHand, At, c
<1>9. RunInv(r)'
  BY <1>1, <1>2, <1>6 DEF RunInv, At, c
<1>10. /\ ~At(r, "idle") /\ (fellBack => fellBack') /\ (overlapped => overlapped')
      /\ faults' >= faults
  BY <1>1, <1>2 DEF At
<1> QED
  BY <1>1, <1>2, <1>6, <1>7, <1>8, <1>9, <1>10 DEF OwnStep

\* What is cut off is recorded as such.
LEMMA CutOwn == ASSUME IndInv, NEW r \in Runs, Cut(r) PROVE OwnStep(r)
<1>1. /\ TypeOK /\ RunInv(r) /\ run[r] \in Records /\ faults \in Nat
      /\ InHand(r) \subseteq Articles
  BY HandType DEF IndInv, TypeOK
<1>2. /\ run[r].pc = "dedup"
      /\ run' = [run EXCEPT ![r].pc = "publish", ![r].kept = Newest(@)]
      /\ cutOff' = cutOff \union (run[r].kept \ Newest(run[r].kept))
      /\ UNCHANGED <<marks, published, dlq, fellBack, overlapped, evicted, started, faults>>
  BY DEF Cut, At, history
<1> DEFINE k == Newest(run[r].kept)
<1>3. k \subseteq run[r].kept
  BY DEF Newest
<1> HIDE DEF k
<1>4. /\ run' \in [Runs -> Records] /\ \A q \in Runs \ {r} : run'[q] = run[q]
      /\ run'[r].pc = "publish" /\ run'[r].kept = k
      /\ run'[r].queue = run[r].queue /\ run'[r].inMemory = run[r].inMemory
  <2>1. run' = [run EXCEPT ![r].pc = "publish", ![r].kept = k]
    BY <1>1, <1>2 DEF k
  <2> QED
    BY <1>1, <1>3, <2>1 DEF TypeOK, Records
<1>5. cutOff' = cutOff \union (run[r].kept \ k)
  BY <1>2 DEF k
<1>6. TypeOK'
  BY <1>1, <1>2, <1>4, <1>5 DEF TypeOK, Records
<1>7. /\ InHand(r)' \subseteq InHand(r) /\ ~At(r, "mark")'
      /\ \A a \in InHand(r) : a \in InHand(r)' \/ a \in cutOff'
  BY <1>2, <1>3, <1>4, <1>5 DEF InHand, At
<1>8. RunInv(r)'
  BY <1>1, <1>2, <1>3, <1>4 DEF RunInv, At
<1>9. /\ ~At(r, "idle") /\ (fellBack => fellBack') /\ (overlapped => overlapped')
      /\ faults' >= faults
  BY <1>1, <1>2 DEF At
<1> QED
  BY <1>1, <1>2, <1>4, <1>5, <1>6, <1>7, <1>8, <1>9 DEF OwnStep

\* A failed fetch lets go of what it held, and may have marked its candidate.
LEMMA FetchFailsOwn == ASSUME IndInv, NEW r \in Runs, FetchFails(r) PROVE OwnStep(r)
<1>1. /\ TypeOK /\ RunInv(r) /\ run[r] \in Records /\ faults \in Nat
      /\ At(r, "mark") => Candidate(r) \in Articles
  BY HandType DEF IndInv, TypeOK
<1> DEFINE x == [NoRun EXCEPT !.pc = "unwind", !.tries = run[r].tries]
<1>2. /\ run' = [run EXCEPT ![r] = x] /\ run[r].pc \in {"dedup", "mark"}
      /\ faults' = faults + 1
      /\ UNCHANGED <<published, dlq, cutOff, fellBack, overlapped, evicted, started>>
  BY DEF FetchFails, At, history, Fault
<1>3. \/ marks' = marks
      \/ At(r, "mark") /\ marks' = marks \union {Candidate(r)}
  BY DEF FetchFails
<1>4. /\ x \in Records /\ x.pc = "unwind" /\ x.kept = {} /\ x.queue = {} /\ x.inMemory = FALSE
  <2>1. <<>> \in Seq(Articles) /\ run[r].tries \in Nat
    BY <1>1 DEF Records
  <2> QED
    BY <2>1 DEF NoRun, Records
<1> HIDE DEF x
<1>5. run' \in [Runs -> Records] /\ run'[r] = x /\ \A q \in Runs \ {r} : run'[q] = run[q]
  BY <1>1, <1>2, <1>4 DEF TypeOK
<1>6. TypeOK'
  <2>1. marks' \subseteq Articles
    BY <1>1, <1>3 DEF TypeOK
  <2> QED
    BY <1>1, <1>2, <1>5, <2>1 DEF TypeOK
<1>7. InHand(r)' = {} /\ ~At(r, "mark")'
  BY <1>4, <1>5 DEF InHand, At
<1>8. RunInv(r)'
  BY <1>1, <1>2, <1>4, <1>5 DEF RunInv, At
<1>9. /\ ~At(r, "idle") /\ (fellBack => fellBack') /\ (overlapped => overlapped')
      /\ faults' >= faults /\ faults' # 0
  BY <1>1, <1>2 DEF At
<1> QED
  BY <1>1, <1>2, <1>3, <1>5, <1>6, <1>7, <1>8, <1>9 DEF OwnStep

\* The article that is published next is one that the run has kept.
LEMMA NextIsKept ==
    ASSUME NEW r \in Runs, run[r] \in Records, run[r].kept # {}
    PROVE  NextToSend(r) \in run[r].kept /\ run[r].kept \subseteq Articles
<1>1. run[r].kept \in SUBSET Articles
  BY DEF Records
<1> QED
  BY <1>1, NewestExists DEF NextToSend

\* A produced article moves to the queue.
LEMMA ProduceOwn == ASSUME IndInv, NEW r \in Runs, Produce(r) PROVE OwnStep(r)
<1>1. /\ TypeOK /\ RunInv(r) /\ run[r] \in Records /\ faults \in Nat
  BY HandType DEF IndInv, TypeOK
<1> DEFINE b == NextToSend(r)
           x == [run[r] EXCEPT !.kept = @ \ {b}, !.queue = @ \union {b}, !.attempt = 0]
<1>2. /\ run' = [run EXCEPT ![r] = x] /\ run[r].pc = "publish" /\ run[r].kept # {}
      /\ UNCHANGED <<marks, published, dlq, cutOff, fellBack, overlapped, evicted, started, faults>>
  BY <1>1 DEF Produce, At, history, TypeOK, Records
<1>3. b \in run[r].kept /\ b \in Articles
  BY <1>1, <1>2, NextIsKept
<1> HIDE DEF b
<1>4. /\ x \in Records /\ x.pc = "publish" /\ x.inMemory = run[r].inMemory
      /\ x.kept = run[r].kept \ {b} /\ x.queue = run[r].queue \union {b}
  BY <1>1, <1>2, <1>3 DEF Records
<1> HIDE DEF x
<1>5. run' \in [Runs -> Records] /\ run'[r] = x /\ \A q \in Runs \ {r} : run'[q] = run[q]
  BY <1>1, <1>2, <1>4 DEF TypeOK
<1>6. TypeOK'
  BY <1>1, <1>2, <1>5 DEF TypeOK
<1>7. InHand(r)' = InHand(r) /\ ~At(r, "mark")'
  BY <1>2, <1>3, <1>4, <1>5 DEF InHand, At
<1>8. RunInv(r)'
  BY <1>1, <1>2, <1>3, <1>4, <1>5 DEF RunInv, At
<1>9. /\ ~At(r, "idle") /\ (fellBack => fellBack') /\ (overlapped => overlapped')
      /\ faults' >= faults
  BY <1>1, <1>2 DEF At
<1> QED
  BY <1>1, <1>2, <1>5, <1>6, <1>7, <1>8, <1>9 DEF OwnStep

\* A failing publication lets go of articles only by failing.
LEMMA PublishFailsOwn ==
    ASSUME IndInv, NEW r \in Runs, ProduceFails(r) \/ BufferFull(r)
    PROVE  OwnStep(r)
<1>1. /\ TypeOK /\ RunInv(r) /\ run[r] \in Records /\ faults \in Nat
  BY HandType DEF IndInv, TypeOK
<1> DEFINE x == [run[r] EXCEPT !.pc = "unwind", !.kept = {}, !.attempt = 0]
           y == [run[r] EXCEPT !.attempt = @ + 1]
<1>2. /\ run' = [run EXCEPT ![r] = x] \/ run' = [run EXCEPT ![r] = y]
      /\ run[r].pc = "publish" /\ faults' = faults + 1
      /\ UNCHANGED <<marks, published, cutOff, fellBack, overlapped, evicted, started>>
  BY <1>1 DEF ProduceFails, BufferFull, At, history, TypeOK, Records, Fault
<1>3. dlq' \in [Articles -> Nat] /\ \A a \in Articles : a \in InHand(r) \/ dlq'[a] = dlq[a]
  <2>1. NextToSend(r) \in run[r].kept
    BY <1>1, NextIsKept DEF ProduceFails, BufferFull
  <2> QED
    BY <1>1, <2>1 DEF ProduceFails, BufferFull, TypeOK, InHand
<1>4. /\ {x, y} \subseteq Records
      /\ x.pc = "unwind" /\ x.kept = {} /\ x.queue = run[r].queue
      /\ x.inMemory = run[r].inMemory
      /\ y.pc = "publish" /\ y.kept = run[r].kept /\ y.queue = run[r].queue
      /\ y.inMemory = run[r].inMemory
  <2>1. x \in Records /\ x.pc = "unwind" /\ x.kept = {} /\ x.queue = run[r].queue
        /\ x.inMemory = run[r].inMemory
    BY <1>1 DEF Records
  <2>2. run[r].attempt + 1 \in Nat
    BY <1>1 DEF Records
  <2>3. y \in Records /\ y.pc = "publish" /\ y.kept = run[r].kept /\ y.queue = run[r].queue
        /\ y.inMemory = run[r].inMemory
    BY <1>1, <1>2, <2>2 DEF Records
  <2> QED
    BY <2>1, <2>3
<1> HIDE DEF x, y
<1>5. /\ run' \in [Runs -> Records] /\ run'[r] \in {x, y}
      /\ \A q \in Runs \ {r} : run'[q] = run[q]
  BY <1>1, <1>2, <1>4 DEF TypeOK
<1>6. TypeOK'
  BY <1>1, <1>2, <1>3, <1>5 DEF TypeOK
<1>7. InHand(r)' \subseteq InHand(r) /\ ~At(r, "mark")'
  BY <1>2, <1>4, <1>5 DEF InHand, At
<1>8. RunInv(r)'
  BY <1>1, <1>2, <1>4, <1>5 DEF RunInv, At
<1>9. /\ ~At(r, "idle") /\ (fellBack => fellBack') /\ (overlapped => overlapped')
      /\ faults' >= faults /\ faults' # 0
  BY <1>1, <1>2 DEF At
<1> QED
  BY <1>1, <1>2, <1>3, <1>5, <1>6, <1>7, <1>8, <1>9 DEF OwnStep

\* A delivered article has left the hands of its run and is in the topic, or
\* its delivery has failed.
LEMMA DeliverOwn ==
    ASSUME IndInv, NEW r \in Runs, NEW b \in Articles, Deliver(r, b) \/ DeliveryFails(r, b)
    PROVE  OwnStep(r)
<1>1. /\ TypeOK /\ RunInv(r) /\ run[r] \in Records /\ faults \in Nat
  BY HandType DEF IndInv, TypeOK
<1> DEFINE x == [run[r] EXCEPT !.queue = @ \ {b}]
<1>2. /\ run' = [run EXCEPT ![r] = x] /\ b \in run[r].queue
      /\ UNCHANGED <<marks, dlq, cutOff, fellBack, overlapped, evicted, started>>
  BY <1>1 DEF Deliver, DeliveryFails, history, TypeOK, Records
<1>3. \/ published' = [published EXCEPT ![b] = @ + 1] /\ faults' = faults
      \/ published' = published /\ faults' = faults + 1
  BY DEF Deliver, DeliveryFails, Fault
<1>4. /\ x \in Records /\ x.pc = run[r].pc /\ x.kept = run[r].kept
      /\ x.queue = run[r].queue \ {b} /\ x.inMemory = run[r].inMemory /\ x.todo = run[r].todo
  BY <1>1 DEF Records
<1> HIDE DEF x
<1>5. run' \in [Runs -> Records] /\ run'[r] = x /\ \A q \in Runs \ {r} : run'[q] = run[q]
  BY <1>1, <1>2, <1>4 DEF TypeOK
<1>6. run[r].pc \notin {"idle", "dedup", "mark", "retry"} /\ b \notin run[r].kept
  BY <1>1, <1>2 DEF RunInv
<1>7. /\ published' \in [Articles -> Nat] /\ faults' \in Nat /\ faults' >= faults
      /\ \A a \in Articles \ {b} : published'[a] = published[a]
      /\ published'[b] = published[b] \/ published'[b] = published[b] + 1
      /\ faults' = 0 => published'[b] > 0
  BY <1>1, <1>3 DEF TypeOK
<1>8. TypeOK'
  BY <1>1, <1>2, <1>5, <1>7 DEF TypeOK
<1>9. /\ InHand(r)' = InHand(r) \ {b} /\ ~At(r, "mark")'
  BY <1>2, <1>4, <1>5, <1>6 DEF InHand, At
<1>10. RunInv(r)'
  <2>1. faults > 0 => faults' > 0
    BY <1>1, <1>7
  <2> QED
    BY <1>1, <1>2, <1>4, <1>5, <1>6, <2>1 DEF RunInv, At
<1>11. /\ ~At(r, "idle") /\ (fellBack => fellBack') /\ (overlapped => overlapped')
  BY <1>2, <1>6 DEF At
<1>12. \A a \in Articles :
          \/ published'[a] = published[a]
          \/ /\ a \in run[r].queue /\ a \notin InHand(r)'
             /\ published'[a] = published[a] + 1
  BY <1>2, <1>7, <1>9
<1>13. faults' = 0 => \A a \in InHand(r) : a \in InHand(r)' \/ published'[a] > 0
  BY <1>7, <1>9
<1> QED
  BY <1>1, <1>2, <1>5, <1>7, <1>8, <1>9, <1>10, <1>11, <1>12, <1>13 DEF OwnStep

\* A run that ends has nothing in hand, unless it was killed.
LEMMA EndOwn ==
    ASSUME IndInv, NEW r \in Runs, Finish(r) \/ Unwind(r) \/ Kill(r)
    PROVE  OwnStep(r)
<1>1. /\ TypeOK /\ RunInv(r) /\ run[r] \in Records /\ faults \in Nat
  BY HandType DEF IndInv, TypeOK
<1> DEFINE x == [NoRun EXCEPT !.pc = "retry", !.tries = run[r].tries]
<1>2. /\ run' = [run EXCEPT ![r] = NoRun] \/ (Unwind(r) /\ run' = [run EXCEPT ![r] = x])
      /\ run[r].pc # "idle" /\ faults' \in {faults, faults + 1}
      /\ UNCHANGED <<marks, published, dlq, cutOff, fellBack, overlapped, evicted, started>>
  BY <1>1 DEF Finish, Unwind, Kill, At, history, Fault
<1>3. faults' = 0 => InHand(r) = {}
  BY <1>1 DEF Finish, Unwind, Kill, Fault, InHand, RunInv, At
<1>4. /\ x \in Records /\ x.pc = "retry" /\ x.kept = {} /\ x.queue = {} /\ x.inMemory = FALSE
      /\ NoRun \in Records /\ NoRun.pc = "idle" /\ NoRun.kept = {} /\ NoRun.queue = {}
      /\ NoRun.inMemory = FALSE
  <2>1. <<>> \in Seq(Articles)
    OBVIOUS
  <2> QED
    BY <1>1, <2>1 DEF NoRun, Records
<1>5. Unwind(r) => faults > 0
  BY <1>1 DEF Unwind, RunInv, At
<1> HIDE DEF x
<1>6. /\ run' \in [Runs -> Records] /\ \A q \in Runs \ {r} : run'[q] = run[q]
      /\ run'[r] = NoRun \/ (Unwind(r) /\ run'[r] = x)
  BY <1>1, <1>2, <1>4 DEF TypeOK
<1>7. TypeOK' /\ faults' >= faults
  BY <1>1, <1>2, <1>6 DEF TypeOK
<1>8. InHand(r)' = {} /\ ~At(r, "mark")'
  BY <1>4, <1>6 DEF InHand, At
<1>9. RunInv(r)'
  <2>1. faults > 0 => faults' > 0
    BY <1>1, <1>2
  <2> QED
    BY <1>4, <1>5, <1>6, <2>1 DEF RunInv, At
<1>10. /\ ~At(r, "idle") /\ (fellBack => fellBack') /\ (overlapped => overlapped')
  BY <1>2 DEF At
<1> QED
  BY <1>1, <1>2, <1>3, <1>6, <1>7, <1>8, <1>9, <1>10 DEF OwnStep
-----------------------------------------------------------------------------
Holders(a) == {r \in Runs : a \in InHand(r)}

\* The runs that have an article in hand are among all runs, and finitely many.
LEMMA HoldersFinite ==
    ASSUME NEW a
    PROVE  /\ IsFiniteSet(Holders(a)) /\ Cardinality(Holders(a)) \in Nat
           /\ Cardinality(Holders(a)) <= Cardinality(Runs) /\ Cardinality(Runs) \in Nat
<1>1. Holders(a) \subseteq Runs
  BY DEF Holders
<1>2. IsFiniteSet(Holders(a)) /\ Cardinality(Holders(a)) <= Cardinality(Runs)
  BY <1>1, RunsAssumption, FS_Subset
<1> QED
  BY <1>2, RunsAssumption, FS_CardinalityType

\* A step of a run that takes nothing up keeps the invariant.
LEMMA OwnStepKeeps == ASSUME IndInv, NEW r \in Runs, OwnStep(r) PROVE IndInv'
<1>1. /\ TypeOK /\ RunInv(r) /\ faults \in Nat /\ faults' \in Nat /\ TypeOK'
      /\ published \in [Articles -> Nat] /\ published' \in [Articles -> Nat]
      /\ InHand(r) \subseteq Articles /\ (At(r, "mark") => Candidate(r) \in InHand(r))
      /\ run[r] \in Records /\ marks \subseteq Articles
  BY HandType DEF IndInv, OwnStep, TypeOK, InHand
<1>2. marks \subseteq marks' /\ marks' \subseteq marks \union InHand(r)
  BY <1>1 DEF OwnStep
<1>3. \A q \in Runs : RunInv(q)'
  <2>1. ASSUME NEW q \in Runs \ {r}
        PROVE  RunInv(q)'
    BY <1>1, <1>2, OthersKeep DEF IndInv, OwnStep
  <2> QED
    BY <2>1 DEF OwnStep
<1>4. ASSUME NEW q \in Runs \ {r}
      PROVE  InHand(q)' = InHand(q) /\ At(q, "idle")' = At(q, "idle") /\ At(q, "mark")' = At(q, "mark")
  BY <1>4 DEF OwnStep, InHand, At, Candidate
<1>5. Held' \subseteq Held /\ \A a \in Held \ Held' : a \in InHand(r)
  BY <1>4 DEF Held, OwnStep
<1>6. NothingForgotten'
  <2>1. SUFFICES ASSUME faults' = 0, NEW a \in marks', a \notin Held', a \notin cutOff'
                 PROVE  published'[a] > 0
    BY DEF NothingForgotten
  <2>2. faults = 0 /\ a \in Articles /\ a \notin InHand(r)'
    BY <1>1, <1>2, <2>1 DEF OwnStep, Held
  <2>3. CASE a \in InHand(r)
    BY <2>1, <2>2, <2>3 DEF OwnStep
  <2>4. CASE a \notin InHand(r)
    <3>1. a \in marks /\ a \notin Held /\ a \notin cutOff
      BY <1>2, <1>5, <2>1, <2>4 DEF OwnStep
    <3>2. published[a] > 0
      BY <2>2, <3>1 DEF IndInv, NothingForgotten
    <3> QED
      BY <1>1, <2>2, <3>2 DEF OwnStep
  <2> QED
    BY <2>3, <2>4
<1>7. CountedByRuns'
  <2>1. SUFFICES ASSUME ~fellBack', NEW a \in Articles, a \notin evicted'
                 PROVE  /\ published'[a] > 0 => a \in marks'
                        /\ published'[a] + Cardinality(Holders(a)') <= Cardinality(Runs)
    BY DEF CountedByRuns, Holders
  <2>2. /\ ~fellBack /\ a \notin evicted
        /\ published[a] > 0 => a \in marks
        /\ published[a] + Cardinality(Holders(a)) <= Cardinality(Runs)
    BY <2>1 DEF IndInv, CountedByRuns, Holders, OwnStep
  <2>3. Holders(a)' \subseteq Holders(a)
    BY <1>4 DEF Holders, OwnStep
  <2>4. /\ IsFiniteSet(Holders(a)) /\ Cardinality(Holders(a)) \in Nat
        /\ Cardinality(Runs) \in Nat
    BY HoldersFinite
  <2>5. Cardinality(Holders(a)') <= Cardinality(Holders(a)) /\ Cardinality(Holders(a)') \in Nat
    BY <2>3, <2>4, FS_Subset, FS_CardinalityType
  <2>6. published[a] \in Nat /\ published'[a] \in Nat
    BY <1>1
  <2>7. CASE published'[a] = published[a]
    BY <1>2, <2>2, <2>4, <2>5, <2>6, <2>7
  <2>8. CASE published'[a] # published[a]
    <3>1. a \in run[r].queue /\ a \notin InHand(r)' /\ published'[a] = published[a] + 1
      BY <2>8 DEF OwnStep
    <3>2. a \in marks /\ a \in InHand(r)
      <4>1. ~run[r].inMemory
        BY <1>1, <2>2, <3>1 DEF RunInv
      <4> QED
        BY <1>1, <2>2, <3>1, <4>1 DEF RunInv, InHand
    <3>3. r \in Holders(a) /\ Holders(a)' \subseteq Holders(a) \ {r}
      BY <2>3, <3>1, <3>2 DEF Holders
    <3>4. /\ IsFiniteSet(Holders(a) \ {r})
          /\ Cardinality(Holders(a) \ {r}) = Cardinality(Holders(a)) - 1
      BY <2>4, <3>3, FS_RemoveElement
    <3>5. Cardinality(Holders(a)') <= Cardinality(Holders(a)) - 1
      BY <3>3, <3>4, FS_Subset
    <3> QED
      BY <1>2, <2>2, <2>4, <2>5, <2>6, <3>1, <3>2, <3>5
  <2> QED
    BY <2>7, <2>8
<1>8. OneAtATime'
  <2>1. SUFFICES ASSUME ~fellBack', ~overlapped'
                 PROVE  /\ \A q, p \in Runs : ~At(q, "idle")' /\ ~At(p, "idle")' => q = p
                        /\ \A a \in Articles \ evicted' :
                              published'[a] <= 1 /\ (a \in Held' => published'[a] = 0)
                        /\ \A a, b \in marks' : Near(a, b) => a = b
                        /\ \A q \in Runs :
                              At(q, "mark")' => \A k \in marks' : ~Near(Candidate(q)', k)
    BY DEF OneAtATime, Near
  <2>2. /\ \A q, p \in Runs : ~At(q, "idle") /\ ~At(p, "idle") => q = p
        /\ \A a \in Articles \ evicted : published[a] <= 1 /\ (a \in Held => published[a] = 0)
        /\ \A a, b \in marks : Near(a, b) => a = b
        /\ At(r, "mark") => \A k \in marks : ~Near(Candidate(r), k)
        /\ evicted' = evicted
    BY <2>1 DEF IndInv, OneAtATime, OwnStep
  <2>3. \A q \in Runs \ {r} : At(q, "idle")
    BY <2>1, <2>2 DEF OwnStep, At
  <2>4. \A q, p \in Runs : ~At(q, "idle")' /\ ~At(p, "idle")' => q = p
    BY <1>4, <2>3
  <2>5. ASSUME NEW a \in Articles, a \notin evicted
        PROVE  published'[a] <= 1 /\ (a \in Held' => published'[a] = 0)
    <3>1. CASE published'[a] = published[a]
      BY <1>5, <2>2, <2>5, <3>1
    <3>2. CASE published'[a] # published[a]
      <4>1. a \in run[r].queue /\ a \notin InHand(r)' /\ published'[a] = published[a] + 1
        BY <3>2 DEF OwnStep
      <4>2. a \in Held
        BY <4>1 DEF Held, InHand
      <4>3. \A q \in Runs \ {r} : InHand(q) = {}
        BY <2>3 DEF IndInv, RunInv, InHand, At
      <4>4. a \notin Held'
        BY <1>4, <4>1, <4>3 DEF Held
      <4> QED
        BY <2>2, <2>5, <4>1, <4>2, <4>4
    <3> QED
      BY <3>1, <3>2
  <2>6. \A a, b \in marks' : Near(a, b) => a = b
    BY <2>2, NearSymmetric DEF OwnStep
  <2>7. \A q \in Runs : ~At(q, "mark")'
    BY <1>4, <2>3 DEF OwnStep, At
  <2> QED
    BY <2>2, <2>4, <2>5, <2>6, <2>7
<1> QED
  BY <1>1, <1>3, <1>6, <1>7, <1>8 DEF IndInv

\* A check that finds nothing near takes the candidate up, which with Redis
\* has no mark.
LEMMA Admitted ==
    ASSUME IndInv, NEW r \in Runs, Check(r), At(r, "mark")'
    PROVE  /\ TypeOK' /\ RunInv(r)' /\ run[r].pc = "dedup"
           /\ UNCHANGED <<marks, published, dlq, cutOff, fellBack, overlapped, evicted, started, faults>>
           /\ \A q \in Runs \ {r} : run'[q] = run[q]
           /\ Candidate(r)' = Candidate(r) /\ Candidate(r) \in Articles
           /\ InHand(r)' = InHand(r) \union {Candidate(r)}
           /\ \A k \in Known(r) : ~Near(Candidate(r), k)
           /\ ~fellBack => Known(r) = marks /\ Candidate(r) \notin marks
<1>1. /\ TypeOK /\ RunInv(r) /\ run[r] \in Records
  BY HandType DEF IndInv, TypeOK
<1> DEFINE x == [run[r] EXCEPT !.pc = "mark"]
<1>2. /\ run[r].pc = "dedup" /\ run[r].todo # <<>>
      /\ UNCHANGED <<marks, published, dlq, cutOff, fellBack, overlapped, evicted, started, faults>>
  BY DEF Check, At, history
<1>3. run' = [run EXCEPT ![r] = x] /\ ~\E k \in Known(r) : Near(Candidate(r), k)
  <2>1. CASE \E k \in Known(r) : Near(Candidate(r), k)
    <3>1. run' = [run EXCEPT ![r] = [run[r] EXCEPT !.todo = Tail(@)]]
      BY <2>1, <1>1 DEF Check, TypeOK, Records
    <3>2. [run[r] EXCEPT !.todo = Tail(@)].pc = "dedup"
      BY <1>1, <1>2 DEF Records
    <3>3. run'[r].pc = "dedup"
      BY <1>1, <3>1, <3>2, Zenon DEF TypeOK
    <3> QED
      BY <3>3 DEF At
  <2>2. CASE ~\E k \in Known(r) : Near(Candidate(r), k)
    BY <2>2, <1>1 DEF Check, TypeOK, Records
  <2> QED
    BY <2>1, <2>2
<1>4. /\ x \in Records /\ x.pc = "mark" /\ x.kept = run[r].kept /\ x.queue = run[r].queue
      /\ x.todo = run[r].todo /\ x.inMemory = run[r].inMemory /\ x.seen = run[r].seen
  BY <1>1 DEF Records
<1> HIDE DEF x
<1>5. run' \in [Runs -> Records] /\ run'[r] = x /\ \A q \in Runs \ {r} : run'[q] = run[q]
  BY <1>1, <1>3, <1>4 DEF TypeOK
<1> DEFINE c == Candidate(r)
<1>6. Candidate(r)' = c /\ c \in Articles
  <2>1. run[r].todo \in Seq(Articles)
    BY <1>1 DEF Records
  <2> QED
    BY <1>2, <1>4, <1>5, <2>1 DEF Candidate
<1> HIDE DEF c
<1>7. InHand(r)' = InHand(r) \union {c}
  BY <1>2, <1>4, <1>5, <1>6 DEF InHand, At
<1>8. TypeOK'
  BY <1>1, <1>2, <1>5 DEF TypeOK
<1>9. \A k \in Known(r) : ~Near(c, k)
  BY <1>3 DEF c
<1>10. RunInv(r)'
  <2>1. \A k \in run[r].kept : k \in Known(r) \/ (~run[r].inMemory /\ k \in evicted)
    BY <1>1, <1>2 DEF RunInv, Known
  <2>2. \A k \in run[r].kept : Near(c, k) => ~run[r].inMemory /\ k \in evicted
    BY <1>9, <2>1
  <2> QED
    BY <1>1, <1>2, <1>4, <1>5, <1>6, <2>2 DEF RunInv, At
<1>11. ~fellBack => Known(r) = marks /\ c \notin marks
  <2>1. ~fellBack => Known(r) = marks
    BY <1>1 DEF RunInv, Known
  <2> QED
    BY <2>1, <1>9, NearSymmetric
<1> QED
  BY <1>2, <1>5, <1>6, <1>7, <1>8, <1>9, <1>10, <1>11 DEF c

\* Taking the candidate up keeps the invariant.
LEMMA AdmitStep == ASSUME IndInv, NEW r \in Runs, Check(r), At(r, "mark")' PROVE IndInv'
<1> DEFINE c == Candidate(r)
<1>1. TypeOK
  BY DEF IndInv
<1>2. /\ run[r].pc = "dedup"
      /\ UNCHANGED <<marks, published, dlq, cutOff, fellBack, overlapped, evicted, started, faults>>
  BY Admitted
<1>3. \A q \in Runs \ {r} : run'[q] = run[q]
  BY Admitted
<1>4. Candidate(r)' = c /\ c \in Articles
  BY Admitted
<1>5. InHand(r)' = InHand(r) \union {c}
  BY Admitted
<1>6. TypeOK' /\ RunInv(r)'
  BY Admitted
<1>7. \A k \in Known(r) : ~Near(c, k)
  BY Admitted
<1>8. ~fellBack => Known(r) = marks /\ c \notin marks
  BY Admitted
<1> HIDE DEF c
<1>9. ASSUME NEW q \in Runs \ {r}
       PROVE  /\ RunInv(q)' /\ InHand(q)' = InHand(q) /\ At(q, "idle")' = At(q, "idle")
              /\ At(q, "mark")' = At(q, "mark") /\ Candidate(q)' = Candidate(q)
  <2>1. RunInv(q)'
    BY <1>1, <1>2, <1>3, OthersKeep DEF IndInv, TypeOK
  <2> QED
    BY <1>3, <2>1 DEF InHand, At, Candidate
<1>10. NothingForgotten'
  <2>1. Held \subseteq Held'
    BY <1>5, <1>9 DEF Held
  <2> QED
    BY <1>2, <2>1 DEF IndInv, NothingForgotten
<1>11. CountedByRuns'
  <2>1. SUFFICES ASSUME ~fellBack', NEW a \in Articles, a \notin evicted'
                 PROVE  /\ published'[a] > 0 => a \in marks'
                        /\ published'[a] + Cardinality(Holders(a)') <= Cardinality(Runs)
    BY DEF CountedByRuns, Holders
  <2>2. /\ ~fellBack
        /\ published[a] > 0 => a \in marks
        /\ published[a] + Cardinality(Holders(a)) <= Cardinality(Runs)
    BY <1>2, <2>1 DEF IndInv, CountedByRuns, Holders
  <2>3. CASE a = c
    <3>1. published[a] = 0
      BY <1>1, <1>8, <2>2, <2>3 DEF TypeOK
    <3>2. Holders(a)' \subseteq Runs
      BY DEF Holders
    <3>3. /\ Cardinality(Holders(a)') <= Cardinality(Runs) /\ Cardinality(Holders(a)') \in Nat
      BY <3>2, RunsAssumption, FS_Subset, FS_CardinalityType
    <3> QED
      BY <1>2, <3>1, <3>3
  <2>4. CASE a # c
    <3>1. Holders(a)' = Holders(a)
      BY <1>5, <1>9, <2>4 DEF Holders
    <3> QED
      BY <1>2, <2>2, <3>1
  <2> QED
    BY <2>3, <2>4
<1>12. OneAtATime'
  <2>1. SUFFICES ASSUME ~fellBack', ~overlapped'
                 PROVE  /\ \A q, p \in Runs : ~At(q, "idle")' /\ ~At(p, "idle")' => q = p
                        /\ \A a \in Articles \ evicted' :
                              published'[a] <= 1 /\ (a \in Held' => published'[a] = 0)
                        /\ \A a, b \in marks' : Near(a, b) => a = b
                        /\ \A q \in Runs :
                              At(q, "mark")' => \A k \in marks' : ~Near(Candidate(q)', k)
    BY DEF OneAtATime, Near
  <2>2. /\ ~fellBack
        /\ \A q, p \in Runs : ~At(q, "idle") /\ ~At(p, "idle") => q = p
        /\ \A a \in Articles \ evicted : published[a] <= 1 /\ (a \in Held => published[a] = 0)
        /\ \A a, b \in marks : Near(a, b) => a = b
    BY <1>2, <2>1 DEF IndInv, OneAtATime
  <2>3. /\ ~At(r, "idle") /\ \A q \in Runs \ {r} : At(q, "idle")
    BY <1>2, <2>2 DEF At
  <2>4. \A q, p \in Runs : ~At(q, "idle")' /\ ~At(p, "idle")' => q = p
    BY <1>9, <2>3
  <2>5. Held' \subseteq Held \union {c}
    BY <1>5, <1>9 DEF Held
  <2>6. c \notin evicted => published[c] = 0
    <3>1. c \notin evicted /\ published[c] > 0 => c \in marks
      BY <1>4, <2>2 DEF IndInv, CountedByRuns
    <3>2. published[c] \in Nat
      BY <1>1, <1>4 DEF TypeOK
    <3> QED
      BY <1>8, <2>2, <3>1, <3>2
  <2>7. \A a \in Articles \ evicted : published'[a] <= 1 /\ (a \in Held' => published'[a] = 0)
    BY <1>2, <2>2, <2>5, <2>6
  <2>8. \A q \in Runs : At(q, "mark")' => q = r
    BY <1>9, <2>3 DEF At
  <2>9. \A k \in marks' : ~Near(Candidate(r)', k)
    BY <1>2, <1>4, <1>7, <1>8, <2>2
  <2> QED
    BY <1>2, <2>2, <2>4, <2>7, <2>8, <2>9
<1> QED
  BY <1>6, <1>9, <1>10, <1>11, <1>12 DEF IndInv

\* The count of an article goes with its mark, and a mark that goes while a run
\* holds the article is remembered.
LEMMA ExpireStep == ASSUME IndInv, NEW b \in Articles, Expire(b) PROVE IndInv'
<1>1. /\ TypeOK /\ b \in marks
      /\ marks' = marks \ {b} /\ published' = [published EXCEPT ![b] = 0]
      /\ cutOff' = cutOff \ {b}
      /\ UNCHANGED <<run, dlq, fellBack, overlapped, started, faults>>
      /\ b \in Held => evicted' = evicted \union {b}
      /\ b \notin Held => evicted' = evicted \ {b}
  BY DEF IndInv, Expire
<1>2. /\ published'[b] = 0 /\ \A a \in Articles \ {b} : published'[a] = published[a]
      /\ TypeOK'
  BY <1>1 DEF TypeOK
<1>3. Held' = Held /\ \A q \in Runs : InHand(q)' = InHand(q)
  BY <1>1 DEF Held, InHand, At, Candidate
<1>4. ASSUME NEW q \in Runs
      PROVE  RunInv(q)'
  <2>1. RunInv(q)
    BY DEF IndInv
  <2>2. b \notin Held => b \notin run[q].kept /\ b \notin run[q].queue
    BY DEF Held, InHand
  <2>3. \A k \in run[q].kept \union run[q].queue : k \in evicted => k \in evicted'
    BY <1>1, <2>2
  <2>4. ~run[q].inMemory => run[q].kept \union run[q].queue \subseteq marks' \union evicted'
    BY <1>1, <2>1, <2>2, <2>3 DEF RunInv
  <2>5. At(q, "mark") =>
           \A k \in run[q].kept :
              Near(Candidate(q), k) => ~run[q].inMemory /\ k \in evicted'
    BY <2>1, <2>3 DEF RunInv
  <2> QED
    BY <1>1, <2>1, <2>4, <2>5 DEF RunInv, At, Candidate
<1>5. NothingForgotten'
  BY <1>1, <1>2, <1>3 DEF IndInv, NothingForgotten, TypeOK
<1>6. CountedByRuns'
  <2>1. SUFFICES ASSUME ~fellBack', NEW a \in Articles, a \notin evicted'
                 PROVE  /\ published'[a] > 0 => a \in marks'
                        /\ published'[a] + Cardinality(Holders(a)') <= Cardinality(Runs)
    BY DEF CountedByRuns, Holders
  <2>2. Holders(a)' = Holders(a)
    BY <1>3 DEF Holders
  <2>3. /\ Cardinality(Holders(a)) \in Nat /\ Cardinality(Runs) \in Nat
        /\ Cardinality(Holders(a)) <= Cardinality(Runs)
    BY HoldersFinite
  <2>4. CASE a = b
    BY <1>2, <2>2, <2>3, <2>4
  <2>5. CASE a # b
    <3>1. a \notin evicted /\ ~fellBack
      BY <1>1, <2>1, <2>5
    <3>2. /\ published[a] > 0 => a \in marks
          /\ published[a] + Cardinality(Holders(a)) <= Cardinality(Runs)
      BY <3>1 DEF IndInv, CountedByRuns, Holders
    <3> QED
      BY <1>1, <1>2, <2>2, <2>5, <3>2
  <2> QED
    BY <2>4, <2>5
<1>7. OneAtATime'
  <2>1. SUFFICES ASSUME ~fellBack', ~overlapped'
                 PROVE  /\ \A q, p \in Runs : ~At(q, "idle")' /\ ~At(p, "idle")' => q = p
                        /\ \A a \in Articles \ evicted' :
                              published'[a] <= 1 /\ (a \in Held' => published'[a] = 0)
                        /\ \A a, d \in marks' : Near(a, d) => a = d
                        /\ \A q \in Runs :
                              At(q, "mark")' => \A k \in marks' : ~Near(Candidate(q)', k)
    BY DEF OneAtATime, Near
  <2>2. /\ \A q, p \in Runs : ~At(q, "idle") /\ ~At(p, "idle") => q = p
        /\ \A a \in Articles \ evicted : published[a] <= 1 /\ (a \in Held => published[a] = 0)
        /\ \A a, d \in marks : Near(a, d) => a = d
        /\ \A q \in Runs : At(q, "mark") => \A k \in marks : ~Near(Candidate(q), k)
    BY <1>1, <2>1 DEF IndInv, OneAtATime
  <2>3. \A q \in Runs : At(q, "idle")' = At(q, "idle") /\ At(q, "mark")' = At(q, "mark")
                        /\ Candidate(q)' = Candidate(q)
    BY <1>1 DEF At, Candidate
  <2> QED
    BY <1>1, <1>2, <1>3, <2>2, <2>3
<1> QED
  BY <1>2, <1>4, <1>5, <1>6, <1>7 DEF IndInv

\* The invariant holds before the first run.
LEMMA InitIndInv == Init => IndInv
<1> SUFFICES ASSUME Init
             PROVE  IndInv
  OBVIOUS
<1>1. NoRun \in Records
  <2>1. <<>> \in Seq(Articles)
    OBVIOUS
  <2> QED
    BY <2>1 DEF NoRun, Records
<1>2. TypeOK
  BY <1>1 DEF Init, TypeOK
<1>3. \A r \in Runs : /\ run[r].pc = "idle" /\ run[r].kept = {} /\ run[r].queue = {}
                      /\ run[r].inMemory = FALSE
  BY DEF Init, NoRun
<1>4. \A r \in Runs : RunInv(r) /\ InHand(r) = {} /\ ~At(r, "mark") /\ At(r, "idle")
  BY <1>3 DEF RunInv, InHand, At
<1>5. Held = {} /\ marks = {} /\ \A a \in Articles : published[a] = 0
  BY <1>4 DEF Held, Init
<1>6. \A a : Holders(a) = {}
  BY <1>4 DEF Holders
<1>7. CountedByRuns
  <2>1. Cardinality(Runs) \in Nat
    BY RunsAssumption, FS_CardinalityType
  <2>2. \A a : Cardinality(Holders(a)) = 0
    BY <1>6, FS_EmptySet
  <2> QED
    BY <1>5, <2>1, <2>2 DEF CountedByRuns, Holders
<1> QED
  BY <1>2, <1>4, <1>5, <1>7 DEF IndInv, NothingForgotten, OneAtATime

\* The invariant depends on the state alone.
LEMMA Stuttering == ASSUME IndInv, UNCHANGED vars PROVE IndInv'
<1>1. UNCHANGED <<run, marks, published, dlq, cutOff, fellBack, overlapped, evicted, started, faults>>
  BY DEF vars, history
<1>2. TypeOK' /\ \A r \in Runs : RunInv(r)'
  BY <1>1 DEF IndInv, TypeOK, RunInv, At, Candidate
<1>3. NothingForgotten' /\ CountedByRuns' /\ OneAtATime'
  BY <1>1 DEF IndInv, NothingForgotten, CountedByRuns, OneAtATime, Held, InHand, At, Candidate
<1> QED
  BY <1>2, <1>3 DEF IndInv
-----------------------------------------------------------------------------
\* Every step but an admitting check and an expiry is a run's own step.
LEMMA StepKinds ==
    ASSUME IndInv, Next
    PROVE  \/ \E r \in Runs : OwnStep(r)
           \/ \E r \in Runs : Check(r) /\ At(r, "mark")'
           \/ \E a \in Articles : Expire(a)
<1>1. ASSUME NEW r \in Runs, Start(r)
      PROVE  OwnStep(r)
  <2>1. Fetch(r, 0) /\ run[r].pc = "idle" /\ started' = started + 1
    BY <1>1 DEF Start, At
  <2> QED
    BY <2>1, FetchOwn
<1>2. ASSUME NEW r \in Runs, Retry(r)
      PROVE  OwnStep(r)
  <2>1. Fetch(r, run[r].tries + 1) /\ run[r].pc = "retry" /\ UNCHANGED started
    BY <1>2 DEF Retry, At
  <2>2. run[r].tries + 1 \in Nat
    BY DEF IndInv, TypeOK, Records
  <2> QED
    BY <2>1, <2>2, FetchOwn
<1>3. ASSUME NEW r \in Runs, Check(r), ~At(r, "mark")'
      PROVE  OwnStep(r)
  BY <1>3, SkipOwn
<1>4. ASSUME NEW r \in Runs, Mark(r) \/ Cut(r) \/ Produce(r) \/ FetchFails(r)
      PROVE  OwnStep(r)
  BY <1>4, MarkOwn, CutOwn, ProduceOwn, FetchFailsOwn
<1>5. ASSUME NEW r \in Runs, ProduceFails(r) \/ BufferFull(r)
      PROVE  OwnStep(r)
  BY <1>5, PublishFailsOwn
<1>6. ASSUME NEW r \in Runs, Finish(r) \/ Unwind(r) \/ Kill(r)
      PROVE  OwnStep(r)
  BY <1>6, EndOwn
<1>7. ASSUME NEW r \in Runs, NEW a \in Articles, Deliver(r, a) \/ DeliveryFails(r, a)
      PROVE  OwnStep(r)
  BY <1>7, DeliverOwn
<1> QED
  BY <1>1, <1>2, <1>3, <1>4, <1>5, <1>6, <1>7, Zenon DEF Next, Progress, Failure

\* Every step keeps the invariant.
THEOREM Invariance == Spec => []IndInv
<1>1. IndInv /\ [Next]_vars => IndInv'
  BY StepKinds, OwnStepKeeps, AdmitStep, ExpireStep, Stuttering, Zenon
<1> QED
  BY InitIndInv, <1>1, PTL DEF Spec

\* Within the life of their marks, as long as Redis answers and drops no mark
\* while a run holds the article, runs that do not overlap publish no article
\* twice and no two near duplicates, and an article reaches the topic at most
\* once for each of any number of runs.
THEOREM NoLiveDuplicatesHolds == Spec => []NoLiveDuplicates
<1>1. ASSUME IndInv, ~fellBack, NEW a \in Articles \ evicted
      PROVE  published[a] <= Cardinality(Runs)
  <2>1. published[a] \in Nat /\ published[a] + Cardinality(Holders(a)) <= Cardinality(Runs)
    BY <1>1 DEF IndInv, TypeOK, CountedByRuns, Holders
  <2> QED
    BY <2>1, HoldersFinite
<1>2. ASSUME IndInv, ~fellBack, ~overlapped, NEW a \in Articles \ evicted,
             NEW b \in Articles \ evicted,
             published[a] > 0, published[b] > 0, Near(a, b)
      PROVE  a = b /\ published[a] = 1
  <2>1. a \in marks /\ b \in marks
    BY <1>2 DEF IndInv, CountedByRuns
  <2>2. a = b /\ published[a] <= 1 /\ published[a] \in Nat
    BY <1>2, <2>1 DEF IndInv, OneAtATime, TypeOK
  <2> QED
    BY <1>2, <2>2
<1>3. IndInv => NoLiveDuplicates
  BY <1>1, <1>2 DEF NoLiveDuplicates
<1> QED
  BY Invariance, <1>3, PTL

\* Without Redis a run never lets through an article, or a near duplicate of
\* it, twice; with Redis it does so only where Redis dropped the mark of the
\* earlier one while a run held it.
THEOREM SingleRunDistinctHolds == Spec => []SingleRunDistinct
<1>1. IndInv => SingleRunDistinct
  BY DEF IndInv, RunInv, SingleRunDistinct
<1> QED
  BY Invariance, <1>1, PTL

\* Without failures nothing that was marked is lost but by the cut.
THEOREM NothingForgottenHolds == Spec => []NothingForgotten
<1>1. IndInv => NothingForgotten
  BY DEF IndInv
<1> QED
  BY Invariance, <1>1, PTL

\* A marked article that its run has let go of stays untouched, by retries and
\* by any number of other runs, for as long as the mark lives: it is neither
\* published again nor dead-lettered again.
THEOREM MarkIsFinalHolds == Spec => MarkIsFinal
<1> DEFINE Final == ~fellBack' =>
                \A a \in (marks \ Held) \intersect marks' :
                    /\ a \notin Held'
                    /\ published'[a] = published[a] /\ dlq'[a] = dlq[a]
<1>1. ASSUME IndInv, NEW r \in Runs, OwnStep(r)
      PROVE  Final
  <2>1. Held' \subseteq Held /\ InHand(r) \subseteq Held /\ run[r].queue \subseteq Held
    BY <1>1 DEF OwnStep, Held, InHand, At, Candidate
  <2> QED
    BY <1>1, <2>1 DEF OwnStep, IndInv, TypeOK
<1>2. ASSUME IndInv, NEW r \in Runs, Check(r), At(r, "mark")'
      PROVE  Final
  <2> DEFINE c == Candidate(r)
  <2>1. /\ UNCHANGED <<marks, published, dlq, fellBack>> /\ (~fellBack => c \notin marks)
        /\ InHand(r)' = InHand(r) \union {c} /\ \A q \in Runs \ {r} : run'[q] = run[q]
    BY <1>2, Admitted
  <2> HIDE DEF c
  <2>2. \A q \in Runs \ {r} : InHand(q)' = InHand(q)
    BY <2>1 DEF InHand, At, Candidate
  <2>3. Held' \subseteq Held \union {c}
    BY <2>1, <2>2 DEF Held
  <2> QED
    BY <2>1, <2>3
<1>3. ASSUME IndInv, NEW b \in Articles, Expire(b)
      PROVE  Final
  BY <1>3 DEF Expire, Held, InHand, At, Candidate, IndInv, TypeOK
<1>4. ASSUME IndInv, [Next]_vars
      PROVE  [Final]_vars
  BY <1>1, <1>2, <1>3, <1>4, StepKinds, Zenon
<1> QED
  BY Invariance, <1>4, PTL DEF Spec, MarkIsFinal
=============================================================================
