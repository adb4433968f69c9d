----------------------------- MODULE SyncProofs -----------------------------
(***************************************************************************)
(* Proofs about what the processors share: a channel's ring (Ring), the    *)
(* lock and the counter of channel ids (Ipc), and the start of the other   *)
(* processors (Smp), each for every value of its constants.                *)
(***************************************************************************)
EXTENDS Ring, Ipc, Smp, FiniteSetTheorems, TLAPS

-----------------------------------------------------------------------------
(* Ring, for every ring size and every set of messages. *)

(* The ring's index arithmetic without the remainder. *)
LEMMA Wrap ==
  ASSUME NEW N \in Nat \ {0}, NEW h \in 0 .. N - 1, NEW t \in 0 .. N - 1
  PROVE  /\ (h + 1) % N = IF h + 1 = N THEN 0 ELSE h + 1
         /\ (h + N - t) % N = IF h >= t THEN h - t ELSE h + N - t
<1>1. (h + 1) % N = IF h + 1 = N THEN 0 ELSE h + 1
  OBVIOUS
<1>2. CASE h >= t
  <2>1. (h - t) \in 0 .. N - 1 /\ h + N - t = (h - t) + N
    BY <1>2
  <2>2. ((h - t) + N) % N = h - t
    BY <2>1
  <2> QED
    BY <1>1, <1>2, <2>1, <2>2
<1>3. CASE h < t
  <2>1. h + N - t \in 0 .. N - 1
    BY <1>3
  <2>2. (h + N - t) % N = h + N - t
    BY <2>1
  <2> QED
    BY <1>1, <1>3, <2>2
<1> QED
  BY <1>2, <1>3

(* What a step of one side does to pending, and what pending says of the    *)
(* two indices.                                                             *)
LEMMA PendingFacts ==
  ASSUME NEW h \in Slots, NEW t \in Slots
  PROVE  LET p(a, b) == (a + RING_SIZE - b) % RING_SIZE
             h1 == (h + 1) % RING_SIZE
             t1 == (t + 1) % RING_SIZE
         IN  /\ p(h, t) \in Slots
             /\ h1 \in Slots /\ t1 \in Slots
             /\ h1 # t => p(h, t) < RING_SIZE - 1
             /\ h # t => p(h, t) > 0
             /\ p(h, t) > 0 => p(h, t1) = p(h, t) - 1
             /\ p(h, t) < RING_SIZE - 1 => p(h1, t) = p(h, t) + 1
             /\ p(h, t) > 0 => h # t
<1> DEFINE N == RING_SIZE
           h1 == (h + 1) % N
           t1 == (t + 1) % N
<1>1. N \in Nat \ {0} /\ h \in 0 .. N - 1 /\ t \in 0 .. N - 1
  BY RingConstants DEF Slots
<1>2. h1 = IF h + 1 = N THEN 0 ELSE h + 1
  BY <1>1, Wrap
<1>3. t1 = IF t + 1 = N THEN 0 ELSE t + 1
  BY <1>1, Wrap
<1>4. h1 \in 0 .. N - 1 /\ t1 \in 0 .. N - 1
  BY <1>1, <1>2, <1>3
<1>5. (h + N - t) % N = IF h >= t THEN h - t ELSE h + N - t
  BY <1>1, Wrap
<1> HIDE DEF N, h1, t1
<1>6. (h1 + N - t) % N = IF h1 >= t THEN h1 - t ELSE h1 + N - t
  BY <1>1, <1>4, Wrap
<1>7. (h + N - t1) % N = IF h >= t1 THEN h - t1 ELSE h + N - t1
  BY <1>1, <1>4, Wrap
<1>8. /\ (h + N - t) % N \in 0 .. N - 1
      /\ h1 # t => (h + N - t) % N < N - 1
      /\ h # t => (h + N - t) % N > 0
      /\ (h + N - t) % N > 0 => (h + N - t1) % N = ((h + N - t) % N) - 1
      /\ (h + N - t) % N < N - 1 => (h1 + N - t) % N = ((h + N - t) % N) + 1
      /\ (h + N - t) % N > 0 => h # t
  BY <1>1, <1>2, <1>3, <1>4, <1>5, <1>6, <1>7
<1> QED
  BY <1>4, <1>8 DEF N, h1, t1, Slots

(* A channel that create_channel activated satisfies RingInv. *)
LEMMA InitRingInv == RingInit => RingInv
BY RingConstants DEF RingInit, RingInv, TypeOK, Slots

(* pending is unchanged by a step that leaves head and tail alone, lowered  *)
(* by one pop and raised by one push.                                       *)
LEMMA PendingSteps ==
  ASSUME TypeOK
  PROVE  /\ pending \in Nat
         /\ ~Full(head) => pending < RING_SIZE - 1
         /\ tail # head => pending > 0
         /\ pending > 0 => tail # head
         /\ head' = head /\ tail' = tail => pending' = pending
         /\ head' = (head + 1) % RING_SIZE /\ tail' = tail /\ pending < RING_SIZE - 1
              => pending' = pending + 1 /\ head' \in Slots
         /\ tail' = (tail + 1) % RING_SIZE /\ head' = head /\ pending > 0
              => pending' = pending - 1 /\ tail' \in Slots
<1>1. head \in Slots /\ tail \in Slots
  BY DEF TypeOK
<1>2. RING_SIZE \in Nat \ {0}
  BY RingConstants
<1> DEFINE P(a, b) == (a + RING_SIZE - b) % RING_SIZE
           h1 == (head + 1) % RING_SIZE
           t1 == (tail + 1) % RING_SIZE
<1>3. /\ P(head, tail) \in Slots
      /\ h1 \in Slots /\ t1 \in Slots
      /\ h1 # tail => P(head, tail) < RING_SIZE - 1
      /\ head # tail => P(head, tail) > 0
      /\ P(head, tail) > 0 => P(head, t1) = P(head, tail) - 1
      /\ P(head, tail) < RING_SIZE - 1 => P(h1, tail) = P(head, tail) + 1
      /\ P(head, tail) > 0 => head # tail
  BY <1>1, PendingFacts
<1>4. pending = P(head, tail) /\ pending' = P(head', tail')
  BY DEF pending
<1>5. pending \in Nat
  BY <1>2, <1>3, <1>4 DEF Slots
<1>6. Full(head) <=> h1 = tail
  BY DEF Full
<1> HIDE DEF P, h1, t1
<1>7. /\ head' = h1 /\ tail' = tail /\ pending < RING_SIZE - 1
           => pending' = pending + 1 /\ head' \in Slots
      /\ tail' = t1 /\ head' = head /\ pending > 0
           => pending' = pending - 1 /\ tail' \in Slots
      /\ head' = head /\ tail' = tail => pending' = pending
  BY <1>3, <1>4
<1> QED
  BY <1>3, <1>4, <1>5, <1>6, <1>7 DEF h1, t1

(* Every step of the sender, the receiver and destroy_channel keeps         *)
(* RingInv.                                                                 *)
LEMMA RingStep == RingInv /\ [RingNext]_ringVars => RingInv'
<1> SUFFICES ASSUME RingInv, [RingNext]_ringVars PROVE RingInv'
  OBVIOUS
<1>0. TypeOK /\ RING_SIZE \in Nat \ {0}
  BY RingConstants DEF RingInv
<1> USE DEF RingInv, TypeOK
<1>1. CASE \E m \in Messages : SendStart(m)
  BY <1>0, <1>1, PendingSteps DEF SendStart, ring
<1>2. CASE PushCheck
  BY <1>0, <1>2, PendingSteps DEF PushCheck, ring
<1>3. CASE PushWrite
  <2>1. buf' \in [Slots -> Messages \cup {NoMessage}]
    BY <1>3 DEF PushWrite
  <2>2. rcv.pc = "release" => tail # snd.head
    BY <1>0, <1>3, PendingSteps DEF PushWrite
  <2>3. pending' = pending
    BY <1>0, <1>3, PendingSteps DEF PushWrite
  <2> QED
    BY <1>0, <1>3, <2>1, <2>2, <2>3 DEF PushWrite
<1>4. CASE PushPublish
  <2>1. pending' = pending + 1 /\ head' \in Slots /\ pending \in Nat
    BY <1>0, <1>4, PendingSteps DEF PushPublish
  <2> QED
    BY <1>0, <1>4, <2>1 DEF PushPublish
<1>5. CASE RecvStart
  BY <1>0, <1>5, PendingSteps DEF RecvStart, ring
<1>6. CASE PopCheck
  BY <1>0, <1>6, PendingSteps DEF PopCheck, ring
<1>7. CASE PopRead
  BY <1>0, <1>7, PendingSteps DEF PopRead, ring
<1>8. CASE PopRelease
  <2>1. pending' = pending - 1 /\ tail' \in Slots /\ pending \in Nat
    BY <1>0, <1>8, PendingSteps DEF PopRelease
  <2>2. pending < RING_SIZE - 1 => pending' < RING_SIZE - 1
    BY <1>0, <2>1
  <2>3. rcv'.pc = "idle" /\ snd' = snd /\ head' = head /\ buf' = buf
    BY <1>8 DEF PopRelease
  <2>4. TypeOK'
    BY <1>8, <2>1 DEF PopRelease
  <2> QED
    BY <2>2, <2>3, <2>4
<1>9. CASE Destroy
  BY <1>0, <1>9, PendingSteps DEF Destroy, ring
<1>10. CASE UNCHANGED ringVars
  BY <1>0, <1>10, PendingSteps DEF ringVars
<1> QED
  BY <1>1, <1>2, <1>3, <1>4, <1>5, <1>6, <1>7, <1>8, <1>9, <1>10
     DEF RingNext, Sender, Receiver

(* The ring invariant holds for every ring size. *)
THEOREM RingInvariance == RingSpec => []RingInv
BY InitRingInv, RingStep, PTL DEF RingSpec

(* The lock-free sender and receiver never touch the same slot together. *)
THEOREM NoTorn == RingSpec => []NoTornMessage
<1>1. RingInv => NoTornMessage
  <2> SUFFICES ASSUME RingInv,
                      snd.pc \in {"write", "publish"},
                      rcv.pc \in {"read", "release"}
               PROVE  snd.head # rcv.tail
    BY DEF NoTornMessage
  <2>1. snd.head = head /\ rcv.tail = tail /\ pending > 0 /\ TypeOK
    BY DEF RingInv
  <2> QED
    BY <2>1, PendingSteps
<1> QED
  BY <1>1, RingInvariance, PTL

-----------------------------------------------------------------------------
(* The slot j places behind an index, without the remainder. *)
LEMMA SlotBehind ==
  ASSUME NEW t \in Slots, NEW j \in Slots
  PROVE  /\ (t + j) % RING_SIZE = IF t + j < RING_SIZE THEN t + j ELSE t + j - RING_SIZE
         /\ (t + j) % RING_SIZE \in Slots
<1> DEFINE N == RING_SIZE
<1>1. N \in Nat \ {0} /\ t \in 0 .. N - 1 /\ j \in 0 .. N - 1
  BY RingConstants DEF Slots
<1> HIDE DEF N
<1>2. CASE t + j < N
  <2>1. t + j \in 0 .. N - 1
    BY <1>1, <1>2
  <2>2. (t + j) % N = t + j
    BY <1>1, <2>1
  <2> QED
    BY <1>2, <2>1, <2>2 DEF N, Slots
<1>3. CASE ~(t + j < N)
  <2>1. t + j - N \in 0 .. N - 1 /\ t + j = (t + j - N) + N
    BY <1>1, <1>3
  <2>2. ((t + j - N) + N) % N = t + j - N
    BY <1>1, <2>1
  <2> QED
    BY <1>3, <2>1, <2>2 DEF N, Slots
<1> QED
  BY <1>2, <1>3

Stored == Messages \cup {NoMessage}

(* Contents is a sequence of pending messages, read from tail on. *)
LEMMA ContentsFacts ==
  ASSUME TypeOK
  PROVE  /\ pending \in Slots /\ pending \in Nat
         /\ Contents \in Seq(Stored) /\ Len(Contents) = pending
         /\ \A i \in 1 .. pending : Contents[i] = buf[(tail + (i - 1)) % RING_SIZE]
         /\ (tail + pending) % RING_SIZE = head
         /\ \A i \in 1 .. pending : (tail + (i - 1)) % RING_SIZE # head
         /\ Full(head) => pending = RING_SIZE - 1
         /\ tail = head => pending = 0
<1> DEFINE N == RING_SIZE
<1>0. N \in Nat \ {0} /\ head \in 0 .. N - 1 /\ tail \in 0 .. N - 1
  BY RingConstants DEF TypeOK, Slots
<1>1. pending = IF head >= tail THEN head - tail ELSE head + N - tail
  BY <1>0, Wrap DEF pending
<1>2. pending \in 0 .. N - 1
  BY <1>0, <1>1
<1>3. \A j \in 0 .. N - 1 :
        /\ (tail + j) % N = IF tail + j < N THEN tail + j ELSE tail + j - N
        /\ (tail + j) % N \in Slots
  BY <1>0, SlotBehind DEF Slots
<1>4. Full(head) => pending = N - 1
  BY <1>0, <1>1, Wrap DEF Full
<1> HIDE DEF N
<1>5. (tail + pending) % N = head
  BY <1>0, <1>1, <1>2, <1>3
<1>6. ASSUME NEW i \in 1 .. pending
      PROVE  /\ i - 1 \in 0 .. N - 1 /\ tail + i - 1 = tail + (i - 1)
             /\ (tail + (i - 1)) % N \in Slots
             /\ (tail + (i - 1)) % N # head
  <2>1. i - 1 \in 0 .. N - 1 /\ i - 1 < pending /\ tail + i - 1 = tail + (i - 1)
    BY <1>0, <1>2
  <2>2. /\ (tail + (i - 1)) % N = IF tail + (i - 1) < N THEN tail + (i - 1) ELSE tail + (i - 1) - N
        /\ (tail + (i - 1)) % N \in Slots
    BY <1>3, <2>1
  <2>3. (tail + (i - 1)) % N # head
    BY <1>0, <1>1, <2>1, <2>2
  <2> QED
    BY <2>1, <2>2, <2>3
<1>7. \A i \in 1 .. pending : Contents[i] = buf[(tail + (i - 1)) % N] /\ Contents[i] \in Stored
  BY <1>6 DEF Contents, TypeOK, Stored, N
<1>8. Contents \in [1 .. pending -> Stored]
  BY <1>7 DEF Contents
<1>9. Contents \in Seq(Stored) /\ Len(Contents) = pending
  BY <1>2, <1>8
<1>10. tail = head => pending = 0
  BY <1>0, <1>1
<1> QED
  BY <1>2, <1>4, <1>5, <1>6, <1>7, <1>9, <1>10 DEF N, Slots

(* A step that leaves tail and pending alone, and the slots between them,   *)
(* leaves the contents alone.                                               *)
LEMMA ContentsSame ==
  ASSUME TypeOK, TypeOK', tail' = tail, head' = head,
         \A s \in Slots : s # head => buf'[s] = buf[s]
  PROVE  Contents' = Contents
<1>1. pending' = pending
  BY DEF pending
<1>2. \A i \in 1 .. pending :
        /\ (tail + (i - 1)) % RING_SIZE \in Slots
        /\ (tail + (i - 1)) % RING_SIZE # head
        /\ tail + i - 1 = tail + (i - 1)
  <2> SUFFICES ASSUME NEW i \in 1 .. pending
               PROVE  /\ (tail + (i - 1)) % RING_SIZE \in Slots
                      /\ (tail + (i - 1)) % RING_SIZE # head
                      /\ tail + i - 1 = tail + (i - 1)
    OBVIOUS
  <2>1. tail \in Slots /\ i - 1 \in Slots /\ tail \in Nat /\ i \in Nat
    BY ContentsFacts, RingConstants DEF Slots, TypeOK
  <2> QED
    BY <2>1, ContentsFacts, SlotBehind
<1> QED
  BY <1>1, <1>2 DEF Contents

(* A message that is published is appended. *)
LEMMA ContentsPush ==
  ASSUME TypeOK, TypeOK', pending < RING_SIZE - 1,
         head' = (head + 1) % RING_SIZE, tail' = tail, buf' = buf
  PROVE  Contents' = Append(Contents, buf[head])
<1>1. pending' = pending + 1 /\ pending \in Nat
  BY PendingSteps
<1>2. /\ Contents \in Seq(Stored) /\ Len(Contents) = pending
      /\ \A i \in 1 .. pending : Contents[i] = buf[(tail + (i - 1)) % RING_SIZE]
      /\ (tail + pending) % RING_SIZE = head
  BY ContentsFacts
<1>3. /\ Contents' \in Seq(Stored) /\ Len(Contents') = pending + 1
      /\ \A i \in 1 .. pending + 1 : Contents'[i] = buf[(tail + (i - 1)) % RING_SIZE]
  <2>1. (/\ Contents \in Seq(Stored) /\ Len(Contents) = pending
         /\ \A i \in 1 .. pending : Contents[i] = buf[(tail + (i - 1)) % RING_SIZE])'
    BY ContentsFacts, PTL
  <2> QED
    BY <1>1, <2>1 DEF Stored
<1>4. buf[head] \in Stored
  BY DEF TypeOK, Stored
<1> DEFINE A == Append(Contents, buf[head])
<1>5. A \in Seq(Stored) /\ Len(A) = pending + 1 /\ A[pending + 1] = buf[head]
  BY <1>1, <1>2, <1>4
<1>6. \A i \in 1 .. pending : A[i] = Contents[i]
  BY <1>1, <1>2, <1>4
<1>7. ASSUME NEW i \in 1 .. pending + 1 PROVE Contents'[i] = A[i]
  <2>1. CASE i = pending + 1
    <3>1. i - 1 = pending
      BY <1>1, <2>1
    <3> QED
      BY <1>2, <1>3, <1>5, <2>1, <3>1
  <2>2. CASE i \in 1 .. pending
    BY <1>2, <1>3, <1>6, <2>2
  <2>3. i = pending + 1 \/ i \in 1 .. pending
    BY <1>1
  <2> QED
    BY <2>1, <2>2, <2>3
<1> HIDE DEF A
<1>8. Contents' = A
  BY <1>3, <1>5, <1>7
<1> QED
  BY <1>8 DEF A

(* A message that is popped was the first one. *)
LEMMA ContentsPop ==
  ASSUME TypeOK, TypeOK', pending > 0,
         tail' = (tail + 1) % RING_SIZE, head' = head, buf' = buf
  PROVE  Contents' = Tail(Contents) /\ Head(Contents) = buf[tail] /\ Contents # <<>>
<1>0. RING_SIZE \in Nat \ {0} /\ tail \in 0 .. RING_SIZE - 1
  BY RingConstants DEF TypeOK, Slots
<1>1. pending' = pending - 1 /\ pending \in Nat
  BY PendingSteps
<1>2. /\ Contents \in Seq(Stored) /\ Len(Contents) = pending
      /\ \A i \in 1 .. pending : Contents[i] = buf[(tail + (i - 1)) % RING_SIZE]
      /\ pending \in Slots
  BY ContentsFacts
<1>3. /\ Contents' \in Seq(Stored) /\ Len(Contents') = pending - 1
      /\ \A i \in 1 .. pending - 1 : Contents'[i] = buf[(tail' + (i - 1)) % RING_SIZE]
  <2>1. (/\ Contents \in Seq(Stored) /\ Len(Contents) = pending
         /\ \A i \in 1 .. pending : Contents[i] = buf[(tail + (i - 1)) % RING_SIZE])'
    BY ContentsFacts, PTL
  <2> QED
    BY <1>1, <2>1 DEF Stored
<1>4. Contents # <<>> /\ Head(Contents) = buf[tail]
  <2>1. Head(Contents) = Contents[1] /\ Contents # <<>>
    BY <1>1, <1>2
  <2>2. Contents[1] = buf[(tail + 0) % RING_SIZE]
    BY <1>1, <1>2
  <2>3. (tail + 0) % RING_SIZE = tail
    BY <1>0
  <2> QED
    BY <2>1, <2>2, <2>3
<1> DEFINE T == Tail(Contents)
<1>5. /\ T \in Seq(Stored) /\ Len(T) = pending - 1
      /\ \A i \in 1 .. pending - 1 : T[i] = Contents[i + 1]
  BY <1>1, <1>2, <1>4
<1>6. ASSUME NEW i \in 1 .. pending - 1 PROVE Contents'[i] = T[i]
  <2>1. i + 1 \in 1 .. pending /\ (i + 1) - 1 = i /\ i \in Slots /\ i - 1 \in Slots
    BY <1>0, <1>1, <1>2 DEF Slots
  <2>2. T[i] = buf[(tail + i) % RING_SIZE]
    BY <1>2, <1>5, <2>1
  <2>3. (tail' + (i - 1)) % RING_SIZE = (tail + i) % RING_SIZE
    <3>1. tail' = IF tail + 1 = RING_SIZE THEN 0 ELSE tail + 1
      BY <1>0, Wrap
    <3>2. tail \in Slots /\ tail' \in Slots
      BY DEF TypeOK
    <3>3. (tail + i) % RING_SIZE = IF tail + i < RING_SIZE THEN tail + i ELSE tail + i - RING_SIZE
      BY <2>1, <3>2, SlotBehind
    <3>4. (tail' + (i - 1)) % RING_SIZE =
            IF tail' + (i - 1) < RING_SIZE THEN tail' + (i - 1) ELSE tail' + (i - 1) - RING_SIZE
      BY <2>1, <3>2, SlotBehind
    <3> QED
      BY <1>0, <2>1, <3>1, <3>3, <3>4 DEF Slots
  <2> QED
    BY <1>3, <2>2, <2>3
<1> HIDE DEF T
<1>7. Contents' = T
  BY <1>3, <1>5, <1>6
<1> QED
  BY <1>4, <1>7 DEF T

-----------------------------------------------------------------------------
(* The sender pushes a message of a caller. *)
SenderInv == snd.pc # "idle" => snd.msg \in Messages

(* send() passes its argument on unchanged. *)
LEMMA SenderInvariance == RingSpec => []SenderInv
<1>1. RingInit => SenderInv
  BY DEF RingInit, SenderInv
<1>2. RingInv /\ SenderInv /\ [RingNext]_ringVars => SenderInv'
  <2> SUFFICES ASSUME RingInv, SenderInv, [RingNext]_ringVars PROVE SenderInv'
    OBVIOUS
  <2>1. snd \in [pc : {"idle", "check", "write", "publish"}, head : Slots,
                 msg : Messages \cup {NoMessage}]
    BY DEF RingInv, TypeOK
  <2>2. CASE Sender
    BY <2>1, <2>2 DEF Sender, SendStart, PushCheck, PushWrite, PushPublish, SenderInv
  <2>3. CASE UNCHANGED snd
    BY <2>3 DEF SenderInv
  <2> QED
    BY <2>2, <2>3 DEF RingNext, Receiver, RecvStart, PopCheck, PopRead, PopRelease,
                      Destroy, ringVars
<1> QED
  BY <1>1, <1>2, RingInvariance, PTL DEF RingSpec

(* The empty ring is the empty queue. *)
LEMMA FifoInit == RingInit => ChannelFifo!Init
<1> SUFFICES ASSUME RingInit PROVE ChannelFifo!Init
  OBVIOUS
<1>1. RingInv
  BY InitRingInv
<1>2. pending = 0
  BY <1>1, ContentsFacts DEF RingInit, RingInv
<1>3. Contents = <<>>
  BY <1>2 DEF Contents
<1> QED
  BY <1>3 DEF RingInit, ChannelFifo!Init, Sending

(* Every step of the ring is a step of the queue or none: the store of head *)
(* sends, the store of tail receives, and a check that fails refuses.       *)
LEMMA FifoStep ==
  RingInv /\ RingInv' /\ SenderInv /\ [RingNext]_ringVars => [ChannelFifo!Next]_ChannelFifo!vars
<1> SUFFICES ASSUME RingInv, RingInv', SenderInv, [RingNext]_ringVars
             PROVE  ChannelFifo!Next \/ UNCHANGED ChannelFifo!vars
  BY DEF ChannelFifo!vars
<1>0. TypeOK /\ TypeOK' /\ RING_SIZE \in Nat \ {0}
  BY RingConstants DEF RingInv
<1>1. ASSUME UNCHANGED ring PROVE Contents' = Contents
  BY <1>1 DEF ring, Contents, pending
<1>2. Len(Contents) = pending /\ pending \in Nat /\ Contents \in Seq(Stored)
  BY <1>0, ContentsFacts
<1> USE DEF ChannelFifo!vars
<1>13. /\ snd \in [pc : {"idle", "check", "write", "publish"}, head : Slots,
                    msg : Messages \cup {NoMessage}]
      /\ rcv \in [pc : {"idle", "check", "read", "release"}, tail : Slots,
                    msg : Messages \cup {NoMessage}]
  BY <1>0 DEF TypeOK
<1>14. snd.pc # "idle" => Sending = snd.msg /\ Sending # NoMessage /\ snd.msg \in Messages
  BY RingConstants DEF Sending, SenderInv
<1>15. snd.pc = "idle" => Sending = NoMessage
  BY DEF Sending
<1>16. UNCHANGED snd => UNCHANGED Sending
  BY DEF Sending
<1>17. UNCHANGED rcv => UNCHANGED (rcv.pc # "idle")
  OBVIOUS
<1>3. ASSUME NEW m \in Messages, SendStart(m)
      PROVE  ChannelFifo!Next \/ UNCHANGED ChannelFifo!vars
  <2>1. Contents' = Contents /\ UNCHANGED <<rcv, active, got>> /\ snd.pc = "idle"
    BY <1>1, <1>3 DEF SendStart
  <2>2. CASE active
    <3>1. snd'.pc = "check" /\ snd'.msg = m /\ UNCHANGED sendRes
      BY <1>3, <2>2 DEF SendStart
    <3>2. Sending' = m
      BY <3>1 DEF Sending
    <3>3. ChannelFifo!BeginSend(m)
      BY <1>15, <1>17, <2>1, <2>2, <3>1, <3>2 DEF ChannelFifo!BeginSend
    <3> QED
      BY <3>3 DEF ChannelFifo!Next
  <2>3. CASE ~active
    <3>1. UNCHANGED snd /\ sendRes' = "refused"
      BY <1>3, <2>3 DEF SendStart
    <3>2. Sending' = NoMessage /\ Sending = NoMessage
      BY <1>15, <1>16, <2>1, <3>1
    <3>3. ChannelFifo!SendRefused
      BY <1>17, <2>1, <2>3, <3>1, <3>2 DEF ChannelFifo!SendRefused
    <3> QED
      BY <3>3 DEF ChannelFifo!Next
  <2> QED
    BY <2>2, <2>3
<1>4. CASE PushCheck
  <2>1. Contents' = Contents /\ UNCHANGED <<rcv, active, got>> /\ snd.pc = "check"
    BY <1>1, <1>4 DEF PushCheck
  <2>2. CASE ~Full(snd.head)
    <3>1. snd'.pc = "write" /\ snd'.msg = snd.msg /\ UNCHANGED sendRes
      BY <1>4, <1>13, <2>2 DEF PushCheck
    <3>2. UNCHANGED Sending
      BY <2>1, <3>1 DEF Sending
    <3> QED
      BY <1>17, <2>1, <3>1, <3>2
  <2>3. CASE Full(snd.head)
    <3>1. Len(Contents) = RING_SIZE - 1
      BY <1>0, <1>2, <1>4, <2>3, ContentsFacts DEF PushCheck, RingInv
    <3>2. snd'.pc = "idle" /\ sendRes' = "refused"
      BY <1>4, <1>13, <2>3 DEF PushCheck
    <3>3. Sending' = NoMessage
      BY <3>2 DEF Sending
    <3>4. ChannelFifo!SendRefused
      BY <1>17, <1>14, <2>1, <3>1, <3>2, <3>3 DEF ChannelFifo!SendRefused
    <3> QED
      BY <3>4 DEF ChannelFifo!Next
  <2> QED
    BY <2>2, <2>3
<1>5. CASE PushWrite
  <2>1. \A s \in Slots : s # head => buf'[s] = buf[s]
    BY <1>0, <1>5 DEF PushWrite, RingInv, TypeOK
  <2>2. Contents' = Contents
    BY <1>0, <1>5, <2>1, ContentsSame DEF PushWrite
  <2>3. snd.pc = "write" /\ snd'.pc = "publish" /\ snd'.msg = snd.msg
    BY <1>5, <1>13 DEF PushWrite
  <2>4. UNCHANGED Sending
    BY <2>3 DEF Sending
  <2> QED
    BY <1>5, <1>17, <2>2, <2>4 DEF PushWrite
<1>6. CASE PushPublish
  <2>1. pending < RING_SIZE - 1 /\ snd.head = head /\ buf[head] = snd.msg /\ snd.msg \in Messages
    BY <1>6 DEF PushPublish, RingInv, SenderInv
  <2>2. Contents' = Append(Contents, snd.msg)
    BY <1>0, <1>6, <2>1, ContentsPush DEF PushPublish
  <2>3. snd.pc = "publish" /\ snd'.pc = "idle"
    BY <1>6, <1>13 DEF PushPublish
  <2>4. Sending = snd.msg /\ Sending # NoMessage /\ Sending' = NoMessage
    BY <1>14, <2>3 DEF Sending
  <2>5. ChannelFifo!Send
    BY <1>2, <1>6, <1>17, <2>1, <2>2, <2>4 DEF PushPublish, ChannelFifo!Send
  <2> QED
    BY <2>5 DEF ChannelFifo!Next
<1>7. CASE RecvStart
  <2>1. Contents' = Contents /\ UNCHANGED <<snd, active, sendRes>> /\ rcv.pc = "idle"
    BY <1>1, <1>7 DEF RecvStart
  <2>2. CASE active
    <3>1. rcv'.pc = "check" /\ UNCHANGED got
      BY <1>7, <1>13, <2>2 DEF RecvStart
    <3>2. ChannelFifo!BeginRecv
      BY <1>16, <2>1, <2>2, <3>1 DEF ChannelFifo!BeginRecv
    <3> QED
      BY <3>2 DEF ChannelFifo!Next
  <2>3. CASE ~active
    <3>1. UNCHANGED rcv /\ got' = NoMessage
      BY <1>7, <2>3 DEF RecvStart
    <3>2. ChannelFifo!RecvNothing
      BY <1>16, <2>1, <2>3, <3>1 DEF ChannelFifo!RecvNothing
    <3> QED
      BY <3>2 DEF ChannelFifo!Next
  <2> QED
    BY <2>2, <2>3
<1>8. CASE PopCheck
  <2>1. Contents' = Contents /\ UNCHANGED <<snd, active, sendRes>> /\ rcv.pc = "check"
    BY <1>1, <1>8 DEF PopCheck
  <2>2. CASE rcv.tail # head
    <3>1. rcv'.pc = "read" /\ UNCHANGED got
      BY <1>8, <1>13, <2>2 DEF PopCheck
    <3>2. UNCHANGED (rcv.pc # "idle")
      BY <2>1, <3>1
    <3> QED
      BY <1>16, <2>1, <3>1, <3>2
  <2>3. CASE rcv.tail = head
    <3>1. pending = 0
      BY <1>0, <1>8, <2>3, ContentsFacts DEF PopCheck, RingInv
    <3>2. Contents = <<>>
      BY <3>1 DEF Contents
    <3>3. rcv'.pc = "idle" /\ got' = NoMessage
      BY <1>8, <1>13, <2>3 DEF PopCheck
    <3>4. ChannelFifo!RecvNothing
      BY <1>16, <2>1, <3>2, <3>3 DEF ChannelFifo!RecvNothing
    <3> QED
      BY <3>4 DEF ChannelFifo!Next
  <2> QED
    BY <2>2, <2>3
<1>9. CASE PopRead
  <2>1. rcv.pc = "read" /\ rcv'.pc = "release"
    BY <1>9, <1>13 DEF PopRead
  <2>2. UNCHANGED (rcv.pc # "idle")
    BY <2>1
  <2> QED
    BY <1>1, <1>9, <1>16, <2>2 DEF PopRead
<1>10. CASE PopRelease
  <2>1. pending > 0 /\ rcv.tail = tail /\ rcv.msg = buf[tail]
    BY <1>10 DEF PopRelease, RingInv
  <2>2. Contents' = Tail(Contents) /\ Head(Contents) = rcv.msg /\ Contents # <<>>
    BY <1>0, <1>10, <2>1, ContentsPop DEF PopRelease
  <2>3. rcv.pc = "release" /\ rcv'.pc = "idle"
    BY <1>10, <1>13 DEF PopRelease
  <2>4. ChannelFifo!Recv
    BY <1>10, <1>16, <2>2, <2>3 DEF PopRelease, ChannelFifo!Recv
  <2> QED
    BY <2>4 DEF ChannelFifo!Next
<1>11. CASE Destroy
  <2>1. ChannelFifo!Close
    BY <1>1, <1>11, <1>16, <1>17 DEF Destroy, ChannelFifo!Close
  <2> QED
    BY <2>1 DEF ChannelFifo!Next
<1>12. CASE UNCHANGED ringVars
  BY <1>1, <1>12, <1>16, <1>17 DEF ringVars, ring
<1> QED
  BY <1>3, <1>4, <1>5, <1>6, <1>7, <1>8, <1>9, <1>10, <1>11, <1>12 DEF RingNext, Sender, Receiver

(* The lock-free channel implements the bounded FIFO queue, for every ring  *)
(* size and every set of messages.                                          *)
THEOREM ChannelIsFifo == RingSpec => IsFifo
BY FifoInit, FifoStep, RingInvariance, SenderInvariance, PTL
   DEF RingSpec, IsFifo, ChannelFifo!Spec

-----------------------------------------------------------------------------
(* Ipc, for every number of threads and channels. *)

Labels == {"idle", "set", "undo", "cas", "spin", "try"}

(* The lock's and the threads' types, which every step needs. *)
LockTypes ==
    /\ pc \in [Threads -> Labels]
    /\ holders \subseteq Threads
    /\ locked \in {0, 1}

LockInv == LockTypes /\ MutualExclusion

-----------------------------------------------------------------------------
(* Every step keeps the types and the agreement of the lock word with the   *)
(* threads inside the lock: only a compare_exchange that saw 0 adds one,    *)
(* and only the thread inside stores 0.                                     *)
LEMMA LockStep == LockInv /\ [Next]_vars => LockInv'
<1> SUFFICES ASSUME LockInv, [Next]_vars PROVE LockInv'
  OBVIOUS
<1> USE DEF LockInv, LockTypes, MutualExclusion, Labels, Goto, channels, lock
<1>1. ASSUME NEW t \in Threads, Draw(t) PROVE LockInv'
  BY <1>1 DEF Draw
<1>2. ASSUME NEW t \in Threads, CallLock(t) PROVE LockInv'
  BY <1>2 DEF CallLock
<1>3. ASSUME NEW t \in Threads, Unlock(t) PROVE LockInv'
  BY <1>3 DEF Unlock
<1>4. ASSUME NEW t \in Threads, Undo(t) PROVE LockInv'
  BY <1>4 DEF Undo
<1>5. ASSUME NEW t \in Threads, Activate(t) PROVE LockInv'
  BY <1>5 DEF Activate
<1>6. ASSUME NEW t \in Threads, CasSucceeds(t) PROVE LockInv'
  BY <1>6 DEF CasSucceeds, Acquired
<1>7. ASSUME NEW t \in Threads, CasFails(t) PROVE LockInv'
  BY <1>7 DEF CasFails
<1>8. ASSUME NEW t \in Threads, SpinEnds(t) PROVE LockInv'
  BY <1>8 DEF SpinEnds
<1>9. ASSUME NEW t \in Threads, TryLock(t) PROVE LockInv'
  BY <1>9 DEF TryLock, Acquired
<1>10. ASSUME NEW c \in Ids, DestroyChannel(c) PROVE LockInv'
  BY <1>10 DEF DestroyChannel
<1>11. CASE UNCHANGED vars
  BY <1>11 DEF vars
<1> QED
  BY <1>1, <1>2, <1>3, <1>4, <1>5, <1>6, <1>7, <1>8, <1>9, <1>10, <1>11
     DEF Next, Step

(* The types and the lock's agreement are invariant. *)
LEMMA LockInvariance == Spec => []LockInv
<1>1. Init => LockInv
  BY DEF Init, LockInv, LockTypes, MutualExclusion, Labels
<1> QED
  BY <1>1, LockStep, PTL DEF Spec

(* SpinLock: two threads are never between lock (or a successful try_lock)  *)
(* and unlock together, and the lock word is 1 exactly while one is.        *)
THEOREM LockExcludes == Spec => []MutualExclusion
<1>1. LockInv => MutualExclusion
  BY DEF LockInv
<1> QED
  BY <1>1, LockInvariance, PTL

-----------------------------------------------------------------------------
(* How many refused calls have raised the counter and not yet lowered it. *)
Refused == Cardinality(At("undo"))

(* The counter without the refused calls in flight. *)
Drawn == NEXT_CHANNEL - Refused

(* Why ids are unique: without the refused calls the counter never passes   *)
(* MAX_CHANNELS, it is there while any refused call is in flight, and every *)
(* id drawn so far lies below it.                                           *)
CounterInv ==
    /\ id \in [Threads -> Nat \cup {NoId}]
    /\ NEXT_CHANNEL \in Nat
    /\ Drawn \in 0 .. MAX_CHANNELS
    /\ At("undo") # {} => Drawn = MAX_CHANNELS
    /\ \A t \in At("set") : id[t] \in Nat /\ id[t] < Drawn
    /\ granted \subseteq Threads \X Nat
    /\ \A g \in granted : g[2] < Drawn

IdsInv == LockTypes /\ CounterInv /\ IdsUnique

(* The u32 arithmetic of fetch_add and fetch_sub away from the wrap. *)
LEMMA NoWrap ==
  ASSUME NEW U \in Nat \ {0}, NEW n \in 0 .. U - 1
  PROVE  /\ n + 1 < U => (n + 1) % U = n + 1
         /\ n > 0 => (n + U - 1) % U = n - 1
<1>1. n + 1 < U => (n + 1) % U = n + 1
  OBVIOUS
<1>2. ASSUME n > 0 PROVE (n + U - 1) % U = n - 1
  <2>1. n - 1 \in 0 .. U - 1 /\ n + U - 1 = (n - 1) + U
    BY <1>2
  <2>2. ((n - 1) + U) % U = n - 1
    BY <2>1
  <2> QED
    BY <2>1, <2>2
<1> QED
  BY <1>1, <1>2

(* A set of threads that does not hold all of them leaves room below U32:   *)
(* the counter cannot wrap however the refused calls overlap.               *)
LEMMA CounterBelowU32 ==
  ASSUME LockTypes, CounterInv
  PROVE  /\ Refused \in Nat
         /\ NEXT_CHANNEL \in 0 .. U32 - 1
         /\ \A t \in Threads : t \notin At("undo") => NEXT_CHANNEL + 1 < U32
<1>1. /\ IsFiniteSet(Threads)
      /\ MAX_CHANNELS \in Nat
      /\ U32 \in Nat
      /\ MAX_CHANNELS + Cardinality(Threads) < U32
  BY IpcConstants
<1>2. At("undo") \in SUBSET Threads
  BY DEF At
<1>3. /\ IsFiniteSet(At("undo"))
      /\ Refused <= Cardinality(Threads)
      /\ Cardinality(Threads) = Refused => Threads = At("undo")
  BY <1>1, <1>2, FS_Subset DEF Refused
<1>4. Refused \in Nat /\ Cardinality(Threads) \in Nat
  BY <1>1, <1>3, FS_CardinalityType DEF Refused
<1>5. NEXT_CHANNEL \in Nat /\ NEXT_CHANNEL <= MAX_CHANNELS + Refused
  BY <1>1, <1>4 DEF CounterInv, Drawn
<1>6. NEXT_CHANNEL \in 0 .. U32 - 1
  BY <1>1, <1>3, <1>4, <1>5
<1>7. ASSUME NEW t \in Threads, t \notin At("undo")
      PROVE  NEXT_CHANNEL + 1 < U32
  BY <1>1, <1>3, <1>4, <1>5, <1>7
<1> QED
  BY <1>4, <1>6, <1>7

(* The refused calls in flight: one more when a call draws beyond the       *)
(* limit, one fewer when it lowers the counter, otherwise the same ones.    *)
LEMMA RefusedSteps ==
  ASSUME LockTypes, NEW t \in Threads
  PROVE  /\ Goto(t, "undo") /\ pc[t] # "undo"
              => Refused' = Refused + 1 /\ At("undo")' # {}
         /\ pc[t] = "undo" /\ Goto(t, "idle") => Refused' = Refused - 1
         /\ \A l \in Labels \ {"undo"} :
              pc[t] # "undo" /\ Goto(t, l) => At("undo")' = At("undo")
<1>1. IsFiniteSet(At("undo"))
  BY IpcConstants, FS_Subset DEF At
<1>2. ASSUME Goto(t, "undo"), pc[t] # "undo"
      PROVE  Refused' = Refused + 1 /\ At("undo")' # {}
  <2>1. At("undo")' = At("undo") \cup {t} /\ t \notin At("undo")
    BY <1>2 DEF At, Goto, LockTypes
  <2> QED
    BY <1>1, <2>1, FS_AddElement DEF Refused
<1>3. ASSUME pc[t] = "undo", Goto(t, "idle")
      PROVE  Refused' = Refused - 1
  <2>1. At("undo")' = At("undo") \ {t} /\ t \in At("undo")
    BY <1>3 DEF At, Goto, LockTypes
  <2> QED
    BY <1>1, <2>1, FS_RemoveElement DEF Refused
<1>4. ASSUME NEW l \in Labels \ {"undo"}, pc[t] # "undo", Goto(t, l)
      PROVE  At("undo")' = At("undo")
  BY <1>4 DEF At, Goto, LockTypes
<1> QED
  BY <1>2, <1>3, <1>4

(* A step that leaves the counter, the ids, the grants and the threads at   *)
(* "set" and "undo" alone keeps what is said of the ids.                    *)
LEMMA IdsFrame ==
  ASSUME CounterInv, IdsUnique,
         NEXT_CHANNEL' = NEXT_CHANNEL, id' = id, granted' = granted,
         At("undo")' = At("undo"), At("set")' = At("set")
  PROVE  CounterInv' /\ IdsUnique'
<1>1. Refused' = Refused /\ Drawn' = Drawn
  BY DEF Refused, Drawn
<1> QED
  BY <1>1 DEF CounterInv, IdsUnique

(* Every step keeps the ids unique: create_channel's draw and its undo, the *)
(* activation, and the calls that touch no id.                              *)
LEMMA IdsStep == IdsInv /\ LockInv /\ [Next]_vars => IdsInv'
<1> SUFFICES ASSUME IdsInv, LockInv, [Next]_vars PROVE IdsInv'
  OBVIOUS
<1>0. LockTypes /\ LockTypes' /\ CounterInv /\ IdsUnique
  BY LockStep DEF IdsInv, LockInv
<1>1. ASSUME NEW t \in Threads, Draw(t) PROVE CounterInv' /\ IdsUnique'
  <2>1. pc[t] = "idle" /\ t \notin At("undo") /\ t \notin At("set")
    BY <1>1 DEF Draw, At
  <2>2. /\ Refused \in Nat
        /\ NEXT_CHANNEL \in 0 .. U32 - 1
        /\ NEXT_CHANNEL + 1 < U32
    BY <1>0, <2>1, CounterBelowU32
  <2>3. NEXT_CHANNEL' = NEXT_CHANNEL + 1
    BY <1>1, <2>2, NoWrap, IpcConstants DEF Draw
  <2>4. /\ id' = [id EXCEPT ![t] = NEXT_CHANNEL]
        /\ granted' = granted
        /\ id' \in [Threads -> Nat \cup {NoId}]
    BY <1>0, <1>1, <2>2 DEF Draw, CounterInv
  <2>5. CASE NEXT_CHANNEL >= MAX_CHANNELS
    <3>1. Goto(t, "undo")
      BY <1>1, <2>5 DEF Draw
    <3>2. Refused' = Refused + 1
      BY <1>0, <2>1, <3>1, RefusedSteps
    <3>3. Drawn' = Drawn
      BY <2>2, <2>3, <3>2 DEF Drawn
    <3>4. At("set")' = At("set")
      BY <1>0, <2>1, <3>1 DEF At, Goto, LockTypes
    <3>5. \A u \in At("set") : id'[u] = id[u]
      BY <1>0, <2>1, <2>4 DEF CounterInv, At
    <3>6. Drawn = MAX_CHANNELS
      <4>1. CASE At("undo") = {}
        <5>1. Refused = 0
          BY <4>1, FS_EmptySet DEF Refused
        <5> QED
          BY <1>0, <2>2, <2>5, <5>1, IpcConstants DEF CounterInv, Drawn
      <4> QED
        BY <1>0, <4>1 DEF CounterInv
    <3>7. CounterInv'
      BY <1>0, <2>2, <2>3, <2>4, <3>3, <3>4, <3>5, <3>6 DEF CounterInv
    <3>8. IdsUnique'
      BY <1>0, <2>4, <3>4, <3>5 DEF IdsUnique
    <3> QED
      BY <3>7, <3>8
  <2>6. CASE ~(NEXT_CHANNEL >= MAX_CHANNELS)
    <3>1. Goto(t, "set")
      BY <1>1, <2>6 DEF Draw
    <3>2. At("undo") = {} /\ At("undo")' = {} /\ Refused = 0 /\ Refused' = 0
      <4>1. At("undo")' = At("undo")
        BY <1>0, <2>1, <3>1, RefusedSteps DEF Labels
      <4>2. At("undo") = {}
        BY <1>0, <2>2, <2>6, IpcConstants DEF CounterInv, Drawn
      <4> QED
        BY <4>1, <4>2, FS_EmptySet DEF Refused
    <3>3. Drawn = NEXT_CHANNEL /\ Drawn' = NEXT_CHANNEL + 1
      BY <2>2, <2>3, <3>2 DEF Drawn
    <3>4. At("set")' = At("set") \cup {t}
      BY <1>0, <2>1, <3>1 DEF At, Goto, LockTypes
    <3>5. /\ \A u \in At("set") : id'[u] = id[u] /\ u # t
          /\ id'[t] = NEXT_CHANNEL
      BY <1>0, <2>1, <2>4 DEF CounterInv, At
    <3>6. CounterInv'
      BY <1>0, <2>2, <2>3, <2>4, <2>6, <3>2, <3>3, <3>4, <3>5, IpcConstants
         DEF CounterInv
    <3>7. IdsUnique'
      BY <1>0, <2>2, <2>4, <3>3, <3>4, <3>5 DEF IdsUnique, CounterInv
    <3> QED
      BY <3>6, <3>7
  <2> QED
    BY <2>5, <2>6
<1>2. ASSUME NEW t \in Threads, Undo(t) PROVE CounterInv' /\ IdsUnique'
  <2>1. pc[t] = "undo" /\ t \in At("undo") /\ Goto(t, "idle") /\ granted' = granted
    BY <1>2 DEF Undo, At
  <2>2. Refused \in Nat /\ NEXT_CHANNEL \in 0 .. U32 - 1
    BY <1>0, CounterBelowU32
  <2>3. Refused' = Refused - 1
    BY <1>0, <2>1, RefusedSteps
  <2>4. Refused > 0
    BY <2>1, <2>2, IpcConstants, FS_Subset, FS_EmptySet DEF Refused, At
  <2>5. NEXT_CHANNEL > 0
    BY <1>0, <2>2, <2>4, IpcConstants DEF CounterInv, Drawn
  <2>6. NEXT_CHANNEL' = NEXT_CHANNEL - 1
    BY <1>2, <2>2, <2>5, NoWrap, IpcConstants DEF Undo
  <2>7. Drawn' = Drawn /\ Drawn = MAX_CHANNELS
    BY <1>0, <2>1, <2>2, <2>3, <2>6 DEF Drawn, CounterInv
  <2>8. At("set")' = At("set") /\ t \notin At("set")
    BY <1>0, <2>1 DEF At, Goto, LockTypes
  <2>9. /\ id' = [id EXCEPT ![t] = NoId]
        /\ id' \in [Threads -> Nat \cup {NoId}]
        /\ \A u \in At("set") : id'[u] = id[u]
    BY <1>0, <1>2, <2>8 DEF Undo, CounterInv, At
  <2>10. CounterInv'
    BY <1>0, <2>1, <2>2, <2>5, <2>6, <2>7, <2>8, <2>9 DEF CounterInv
  <2>11. IdsUnique'
    BY <1>0, <2>1, <2>8, <2>9 DEF IdsUnique
  <2> QED
    BY <2>10, <2>11
<1>3. ASSUME NEW t \in Threads, Activate(t) PROVE CounterInv' /\ IdsUnique'
  <2>1. /\ pc[t] = "set" /\ t \in At("set") /\ Goto(t, "idle")
        /\ granted' = granted \cup {<<t, id[t]>>}
        /\ NEXT_CHANNEL' = NEXT_CHANNEL
        /\ id' = [id EXCEPT ![t] = NoId]
    BY <1>3 DEF Activate, At
  <2>2. At("undo")' = At("undo") /\ Refused' = Refused /\ Drawn' = Drawn
    BY <1>0, <2>1, RefusedSteps DEF Labels, Refused, Drawn
  <2>3. At("set")' = At("set") \ {t}
    BY <1>0, <2>1 DEF At, Goto, LockTypes
  <2>4. /\ id' \in [Threads -> Nat \cup {NoId}]
        /\ \A u \in At("set")' : id'[u] = id[u] /\ u # t /\ u \in At("set")
    BY <1>0, <2>1, <2>3 DEF CounterInv, At
  <2>5. CounterInv'
    BY <1>0, <2>1, <2>2, <2>3, <2>4 DEF CounterInv
  <2>6. IdsUnique'
    BY <1>0, <2>1, <2>4 DEF IdsUnique, CounterInv
  <2> QED
    BY <2>5, <2>6
<1>4. ASSUME NEW t \in Threads,
             CallLock(t) \/ Unlock(t) \/ CasSucceeds(t) \/ CasFails(t)
               \/ SpinEnds(t) \/ TryLock(t)
      PROVE  CounterInv' /\ IdsUnique'
  <2>1. UNCHANGED channels
    BY <1>4 DEF CallLock, Unlock, CasSucceeds, CasFails, SpinEnds, TryLock, channels
  <2>2. At("undo")' = At("undo") /\ At("set")' = At("set")
    BY <1>0, <1>4 DEF CallLock, Unlock, CasSucceeds, CasFails, SpinEnds, TryLock,
                      Acquired, Goto, At, LockTypes
  <2> QED
    BY <1>0, <2>1, <2>2, IdsFrame DEF channels
<1>5. ASSUME NEW c \in Ids, DestroyChannel(c) PROVE CounterInv' /\ IdsUnique'
  BY <1>0, <1>5, IdsFrame DEF DestroyChannel, At
<1>6. CASE UNCHANGED vars
  BY <1>0, <1>6, IdsFrame DEF vars, channels, At, IdsInv
<1> QED
  BY <1>0, <1>1, <1>2, <1>3, <1>4, <1>5, <1>6 DEF Next, Step, IdsInv

(* create_channel: the counter and the ids drawn from it satisfy IdsInv in  *)
(* every reachable state.                                                   *)
THEOREM CounterExact == Spec => []IdsInv
<1>1. Init => IdsInv
  <2> SUFFICES ASSUME Init PROVE IdsInv
    OBVIOUS
  <2>1. At("undo") = {} /\ At("set") = {} /\ Refused = 0
    BY FS_EmptySet DEF Init, At, Refused
  <2> QED
    BY <2>1, IpcConstants
       DEF Init, IdsInv, LockTypes, Labels, CounterInv, IdsUnique, Drawn
<1> QED
  BY <1>1, IdsStep, LockInvariance, PTL DEF Spec

(* create_channel gives every id to at most one caller, for every number of *)
(* threads and channels, however many calls are refused at the limit and    *)
(* however their undo steps overlap with other calls.                       *)
THEOREM IdsNeverShared == Spec => []IdsUnique
<1>1. IdsInv => IdsUnique
  BY DEF IdsInv
<1> QED
  BY <1>1, CounterExact, PTL

-----------------------------------------------------------------------------
(* Smp, for every finite set of processors. *)

(* There are finitely many APs, one fewer than CPUs. *)
LEMMA FiniteAPs ==
  /\ IsFiniteSet(APs)
  /\ Cardinality(APs) = Cardinality(CPUs) - 1
  /\ Cardinality(CPUs) \in Nat
BY SmpConstants, FS_RemoveElement, FS_CardinalityType DEF APs

(* A count of reports that reaches the number of APs means all reported. *)
LEMMA CountIsAll ==
  ASSUME NEW S \in SUBSET APs, Cardinality(S) >= Cardinality(CPUs) - 1
  PROVE  S = APs
<1>1. IsFiniteSet(S) /\ Cardinality(S) <= Cardinality(APs)
  BY FiniteAPs, FS_Subset
<1>2. Cardinality(S) \in Nat
  BY <1>1, FS_CardinalityType
<1>3. Cardinality(S) = Cardinality(APs)
  BY <1>1, <1>2, FiniteAPs
<1> QED
  BY <1>3, FiniteAPs, FS_Subset

(* The boot CPU enters smp::init in SmpInv. *)
LEMMA InitSmpInv == SmpInit => SmpInv
<1> SUFFICES ASSUME SmpInit PROVE SmpInv
  OBVIOUS
<1>1. Reported = {}
  BY DEF SmpInit, Reported, APs
<1>2. Cardinality(Reported) = 0
  BY <1>1, FS_EmptySet
<1> QED
  BY <1>1, <1>2, SmpConstants DEF SmpInit, SmpInv, APs

(* Every step of the boot CPU and of an AP keeps SmpInv. *)
LEMMA SmpStep == SmpInv /\ [SmpNext]_smpVars => SmpInv'
<1> SUFFICES ASSUME SmpInv, [SmpNext]_smpVars PROVE SmpInv'
  OBVIOUS
<1>0. /\ BSP \in CPUs
      /\ \A c \in CPUs : SlotOf(c) \in OnlineSlots
      /\ APS_READY \in Nat
  <2>1. \A c \in CPUs : SlotOf(c) \in OnlineSlots
    BY SmpConstants DEF SlotOf, OnlineSlots
  <2>2. IsFiniteSet(Reported)
    BY FiniteAPs, FS_Subset DEF Reported
  <2> QED
    BY <2>1, <2>2, SmpConstants, FS_CardinalityType DEF SmpInv
<1> USE <1>0 DEF APs
<1>1. CASE BspOnline
  <2>1. Reported' = Reported
    BY <1>1 DEF BspOnline, GotoStage, Reported, SmpInv
  <2> QED
    BY <1>1, <2>1 DEF BspOnline, GotoStage, SmpInv, SlotOf
<1>2. CASE \E c \in APs : SendAp(c)
  <2>1. Reported' = Reported
    BY <1>2 DEF SendAp, Reported
  <2> QED
    BY <1>2, <2>1 DEF SendAp, SmpInv, SlotOf
<1>3. CASE SendDone
  <2>1. Reported' = Reported
    BY <1>3 DEF SendDone, GotoStage, Reported, SmpInv
  <2> QED
    BY <1>3, <2>1 DEF SendDone, GotoStage, SmpInv, SlotOf
<1>4. CASE BspGo
  <2>1. Reported' = Reported
    BY <1>4 DEF BspGo, GotoStage, Reported, SmpInv
  <2>2. Reported = APs
    <3>1. Reported \in SUBSET APs
      BY DEF Reported
    <3> QED
      BY <1>4, <3>1, CountIsAll DEF BspGo, AllReported, SmpInv
  <2> QED
    BY <1>4, <2>1, <2>2 DEF BspGo, GotoStage, SmpInv, SlotOf
<1>5. ASSUME NEW c \in APs, ApOnline(c) PROVE SmpInv'
  <2>1. Reported' = Reported
    BY <1>5 DEF ApOnline, GotoStage, Reported, SmpInv
  <2> QED
    BY <1>5, <2>1 DEF ApOnline, GotoStage, SmpInv, SlotOf
<1>6. ASSUME NEW c \in APs, ApReport(c) PROVE SmpInv'
  <2>1. Reported' = Reported \cup {c} /\ c \notin Reported
    BY <1>6 DEF ApReport, GotoStage, Reported, SmpInv
  <2>2. Cardinality(Reported') = Cardinality(Reported) + 1
    <3>1. IsFiniteSet(Reported)
      BY FiniteAPs, FS_Subset DEF Reported
    <3> QED
      BY <2>1, <3>1, FS_AddElement
  <2>3. ~ALL_GO
    BY <1>6, <2>1 DEF SmpInv
  <2> QED
    BY <1>6, <2>2, <2>3 DEF ApReport, GotoStage, SmpInv, SlotOf
<1>7. ASSUME NEW c \in APs, ApGo(c) PROVE SmpInv'
  <2>1. Reported' = Reported
    BY <1>7 DEF ApGo, GotoStage, Reported, SmpInv
  <2> QED
    BY <1>7, <2>1 DEF ApGo, GotoStage, SmpInv, SlotOf
<1>8. CASE UNCHANGED smpVars
  <2>1. Reported' = Reported
    BY <1>8 DEF smpVars, Reported
  <2> QED
    BY <1>8, <2>1 DEF smpVars, SmpInv, SlotOf
<1> QED
  BY <1>1, <1>2, <1>3, <1>4, <1>5, <1>6, <1>7, <1>8 DEF SmpNext, CpuStep

(* The report counter is exact and the barrier opens only when it is full. *)
THEOREM SmpInvariance == SmpSpec => []SmpInv
BY InitSmpInv, SmpStep, PTL DEF SmpSpec

(* No processor leaves the barrier before every AP is online and reported. *)
THEOREM BarrierIsSafe == SmpSpec => []BarrierSafe
<1>1. SmpInv => BarrierSafe
  BY SmpConstants DEF SmpInv, BarrierSafe, Reported, APs
<1> QED
  BY <1>1, SmpInvariance, PTL

-----------------------------------------------------------------------------
Marks == {SlotOf(c) : c \in CPUs}

(* Only entries of processors in the list are ever marked online. *)
LEMMA OnlyListedOnline == SmpSpec => [](CPU_ONLINE \subseteq Marks)
<1>1. SmpInit => CPU_ONLINE \subseteq Marks
  BY DEF SmpInit
<1>2. CPU_ONLINE \subseteq Marks /\ [SmpNext]_smpVars => (CPU_ONLINE \subseteq Marks)'
  BY SmpConstants
     DEF SmpNext, CpuStep, smpVars, BspOnline, SendAp, SendDone, BspGo, ApOnline, ApReport,
         ApGo, APs, Marks, SlotOf
<1> QED
  BY <1>1, <1>2, PTL DEF SmpSpec

(* The number of CPUs that main.rs prints after smp::init is the number of  *)
(* entries of CPU_ONLINE that their ids select: never too large, and exact  *)
(* when no two ids share an entry.                                          *)
THEOREM OnlineCountIsExact == SmpSpec => []OnlineCountExact
<1>1. SmpInv /\ BarrierSafe /\ CPU_ONLINE \subseteq Marks => OnlineCountExact
  <2> SUFFICES ASSUME SmpInv, BarrierSafe, CPU_ONLINE \subseteq Marks, stage[BSP] = "done"
               PROVE  /\ online_count = Cardinality({SlotOf(c) : c \in CPUs})
                      /\ online_count <= Cardinality(CPUs)
                      /\ (\A c, d \in CPUs : SlotOf(c) = SlotOf(d) => c = d)
                            => online_count = Cardinality(CPUs)
    BY DEF OnlineCountExact
  <2> DEFINE f == [c \in CPUs |-> SlotOf(c)]
  <2>1. CPU_ONLINE = Marks
    BY DEF SmpInv, BarrierSafe, Marks
  <2>2. f \in Surjection(CPUs, CPU_ONLINE)
    BY <2>1 DEF Surjection, Marks
  <2>3. /\ Cardinality(CPU_ONLINE) <= Cardinality(CPUs)
        /\ Cardinality(CPU_ONLINE) = Cardinality(CPUs) <=> f \in Injection(CPUs, CPU_ONLINE)
    BY <2>2, SmpConstants, FS_Surjection
  <2>4. ASSUME \A c, d \in CPUs : SlotOf(c) = SlotOf(d) => c = d
        PROVE  f \in Injection(CPUs, CPU_ONLINE)
    BY <2>1, <2>4 DEF Injection, IsInjective, Marks
  <2> QED
    BY <2>1, <2>3, <2>4 DEF online_count, Marks
<1> QED
  BY <1>1, SmpInvariance, BarrierIsSafe, OnlyListedOnline, PTL

=============================================================================
