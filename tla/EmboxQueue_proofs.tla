--------------------------- MODULE EmboxQueue_proofs ---------------------------
(***************************************************************************)
(* Proofs about EmboxQueue for any workers, any heap and any length of the *)
(* ring: every message has one owner, and the ring is the bounded fifo of  *)
(* BoundedFifo.                                                            *)
(***************************************************************************)
EXTENDS EmboxQueue, SequenceTheorems, TLAPS

USE QueueAssumption DEF sendVars, passVars, vars, Senders

-----------------------------------------------------------------------------
(* The ring                                                                 *)

Item(i) == ring[Slot(i)]
Places == 0..Count-1

\* The remainder of a number that is at most once too large.
LEMMA Remainder ==
    ASSUME NEW n \in Nat \ {0}, NEW a \in Nat, a < n + n
    PROVE  a % n = IF a < n THEN a ELSE a - n
  OBVIOUS

\* Stepping an index once round the ring.
LEMMA Stepping ==
    ASSUME NEW i \in 0..QueueLen-1
    PROVE  /\ Incr(i) = IF i = QueueLen - 1 THEN 0 ELSE i + 1
           /\ Incr(i) \in 0..QueueLen-1
<1>1. i + 1 \in Nat /\ i + 1 < QueueLen + QueueLen
  OBVIOUS
<1>2. (i + 1) % QueueLen = IF i + 1 < QueueLen THEN i + 1 ELSE i + 1 - QueueLen
  BY <1>1
<1> QED BY <1>2 DEF Incr

\* The slot i places after slot h, and where that makes the i-th message be.
SlotAfter(h, i) == (h + i) % QueueLen

LEMMA SlotAfterIs ==
    ASSUME NEW h \in 0..QueueLen-1, NEW i \in 0..QueueLen-1
    PROVE  /\ SlotAfter(h, i) = IF h + i < QueueLen THEN h + i ELSE h + i - QueueLen
           /\ SlotAfter(h, i) \in 0..QueueLen-1
<1>1. PICK a \in Nat : a = h + i /\ a < QueueLen + QueueLen
  OBVIOUS
<1>2. a % QueueLen = IF a < QueueLen THEN a ELSE a - QueueLen
  BY <1>1, Remainder
<1> QED BY <1>1, <1>2 DEF SlotAfter

LEMMA SlotIs ==
    ASSUME TypeOK, NEW i \in 0..QueueLen-1
    PROVE  /\ Slot(i) = IF head + i < QueueLen THEN head + i ELSE head + i - QueueLen
           /\ Slot(i) \in 0..QueueLen-1
<1>1. Slot(i) = SlotAfter(head, i)
  BY DEF Slot, SlotAfter
<1> QED BY <1>1, SlotAfterIs DEF TypeOK

\* The ring holds at most QueueLen - 1 messages, and so many exactly if it is full.
LEMMA CountBounds ==
    ASSUME TypeOK
    PROVE  /\ Count \in 0..QueueLen-1
           /\ Full <=> Count = QueueLen - 1
           /\ Empty <=> Count = 0
<1>1. head \in 0..QueueLen-1 /\ tail \in 0..QueueLen-1
  BY DEF TypeOK
<1>2. Incr(tail) = IF tail = QueueLen - 1 THEN 0 ELSE tail + 1
  BY <1>1, Stepping
<1> QED BY <1>1, <1>2 DEF Count, Full, Empty

\* Appending a message at the tail.
LEMMA RingPut ==
    ASSUME TypeOK, TypeOK', ~Full, NEW m,
           ring' = [ring EXCEPT ![tail] = m], tail' = Incr(tail), head' = head
    PROVE  /\ Count' = Count + 1
           /\ \A i \in 0..Count : Item(i)' = IF i = Count THEN m ELSE Item(i)
<1>1. Count' = Count + 1 /\ Count \in 0..QueueLen-2
  <2>1. head \in 0..QueueLen-1 /\ tail \in 0..QueueLen-1
    BY DEF TypeOK
  <2>2. tail' = IF tail = QueueLen - 1 THEN 0 ELSE tail + 1
    BY <2>1, Stepping
  <2>3. tail' # head
    BY DEF Full
  <2> QED BY <2>1, <2>2, <2>3 DEF Count
<1>2. \A i \in 0..Count : Slot(i)' = Slot(i) /\ Slot(i) \in 0..QueueLen-1
  BY <1>1, SlotIs DEF Slot
<1>3. \A i \in 0..Count : Slot(i) = tail <=> i = Count
  <2> SUFFICES ASSUME NEW i \in 0..Count PROVE Slot(i) = tail <=> i = Count
    OBVIOUS
  <2>1. head \in 0..QueueLen-1 /\ tail \in 0..QueueLen-1 /\ i \in 0..QueueLen-1
    BY <1>1 DEF TypeOK
  <2>2. Slot(i) = IF head + i < QueueLen THEN head + i ELSE head + i - QueueLen
    BY <2>1, SlotIs
  <2> QED BY <1>1, <2>1, <2>2 DEF Count
<1> QED BY <1>1, <1>2, <1>3 DEF Item, TypeOK

\* Taking the message at the head.
LEMMA RingTake ==
    ASSUME TypeOK, TypeOK', ~Empty, head' = NextHead, UNCHANGED <<ring, tail>>
    PROVE  /\ Count' = Count - 1
           /\ Count \in 1..QueueLen-1
           /\ ring[head] = Item(0)
           /\ \A i \in 0..Count-2 : Item(i)' = Item(i + 1)
<1>1. Count' = Count - 1 /\ Count \in 1..QueueLen-1
  <2>1. head \in 0..QueueLen-1 /\ tail \in 0..QueueLen-1
    BY DEF TypeOK
  <2>2. head' = IF head = QueueLen - 1 THEN 0 ELSE head + 1
    BY <2>1, Stepping DEF NextHead
  <2> QED BY <2>1, <2>2 DEF Count, Empty
<1>2. Slot(0) = head
  BY SlotIs DEF TypeOK
<1>3. \A i \in 0..Count-2 : Slot(i)' = Slot(i + 1)
  <2> SUFFICES ASSUME NEW i \in 0..Count-2 PROVE Slot(i)' = Slot(i + 1)
    OBVIOUS
  <2>1. i \in 0..QueueLen-1 /\ i + 1 \in 0..QueueLen-1
    BY <1>1
  <2>2. Slot(i + 1) = IF head + (i + 1) < QueueLen THEN head + (i + 1) ELSE head + (i + 1) - QueueLen
    BY <2>1, SlotIs
  <2>3. Slot(i)' = IF head' + i < QueueLen THEN head' + i ELSE head' + i - QueueLen
    <3>1. Slot(i)' = SlotAfter(head', i)
      BY DEF Slot, SlotAfter
    <3>2. head' \in 0..QueueLen-1
      BY DEF TypeOK
    <3> QED BY <2>1, <3>1, <3>2, SlotAfterIs
  <2>4. head' = IF head = QueueLen - 1 THEN 0 ELSE head + 1
    BY Stepping DEF NextHead, TypeOK
  <2> QED BY <2>1, <2>2, <2>3, <2>4 DEF TypeOK
<1> QED BY <1>1, <1>2, <1>3 DEF Item

-----------------------------------------------------------------------------
(* The owners of messages                                                   *)

\* A sender or the consumer that has a message has an allocated one, and no two of them
\* have the same.
Hands ==
    /\ \A p \in Senders : IF ppc[p] = "idle" THEN pmsg[p] = NoMsg ELSE pmsg[p] \in heap
    /\ \A p, r \in Senders : pmsg[p] = pmsg[r] /\ pmsg[p] # NoMsg => p = r
    /\ IF spc \in {"deliver", "free"} THEN smsg \in heap ELSE smsg = NoMsg
    /\ \A p \in Senders : pmsg[p] = smsg => smsg = NoMsg

\* QueuedOnce and NoLeak, told by places from the head.
Exclusive ==
    \A i \in Places :
        /\ Item(i) \in heap
        /\ Item(i) # smsg
        /\ \A p \in Senders : Item(i) # pmsg[p]
        /\ \A k \in Places : k # i => Item(k) # Item(i)

Kept ==
    \A m \in heap :
        \/ \E i \in Places : m = Item(i)
        \/ m = smsg
        \/ \E p \in Senders : m = pmsg[p]

OwnerInv == TypeOK /\ Hands /\ Exclusive /\ Kept

LEMMA OwnersAreSound ==
    ASSUME OwnerInv
    PROVE  QueueSound
<1>1. Places = {i \in 0..QueueLen-1 : InRing(i)}
  BY CountBounds DEF Places, InRing, OwnerInv
<1>2. \A i \in 0..QueueLen-1 : InRing(i) => i \in Places
  BY <1>1
<1>3. QueuedOnce
  BY <1>2 DEF QueuedOnce, OwnerInv, Exclusive, Item
<1>4. Queued = {Item(i) : i \in Places}
  BY <1>1 DEF Queued, Item
<1>5. NoLeak
  BY <1>4 DEF NoLeak, OwnerInv, Kept
<1> QED BY <1>3, <1>5 DEF QueueSound, OwnerInv

\* Indices, messages and places keep their types.
LEMMA TypePreserved ==
    ASSUME OwnerInv, [Next]_vars
    PROVE  TypeOK'
<1> USE DEF OwnerInv, TypeOK
<1>1. ASSUME NEW p \in Senders, Build(p) PROVE TypeOK'
  BY <1>1 DEF Build
<1>2. ASSUME NEW p \in Senders, LockSend(p) PROVE TypeOK'
  BY <1>2 DEF LockSend
<1>3. ASSUME NEW p \in Senders, Put(p) PROVE TypeOK'
  <2>1. Incr(tail) \in 0..QueueLen-1
    BY Stepping
  <2> QED BY <1>3, <2>1 DEF Put
<1>4. ASSUME NEW p \in Senders, Drop(p) PROVE TypeOK'
  BY <1>4 DEF Drop
<1>5. CASE StartPass
  BY <1>5 DEF StartPass
<1>6. CASE LockTake
  BY <1>6 DEF LockTake, Spend
<1>7. CASE EndPass
  BY <1>7 DEF EndPass
<1>8. CASE Take
  <2>1. NextHead \in 0..QueueLen-1
    BY Stepping DEF NextHead
  <2> QED BY <1>8, <2>1 DEF Take
<1>9. CASE Delivered
  BY <1>9 DEF Delivered
<1>10. CASE FreeMsg
  BY <1>10 DEF FreeMsg, Freed
<1>11. CASE UNCHANGED vars
  BY <1>11
<1> QED BY <1>1, <1>2, <1>3, <1>4, <1>5, <1>6, <1>7, <1>8, <1>9, <1>10, <1>11
           DEF Next, SendStep, PassStep

\* A step that leaves the ring alone leaves its messages in their places.
LEMMA RingKept ==
    ASSUME UNCHANGED <<ring, head, tail>>
    PROVE  Places' = Places /\ \A i \in Places : Item(i)' = Item(i)
  BY DEF Places, Item, Slot, Count

\* A new copy comes from the free part of the heap, so that nobody else has it.
LEMMA BuildPreserves ==
    ASSUME OwnerInv, TypeOK', NEW p \in Senders, Build(p)
    PROVE  OwnerInv'
<1> USE DEF OwnerInv, TypeOK
<1>1. PICK m \in Msgs \ heap : heap' = heap \cup {m} /\ pmsg' = [pmsg EXCEPT ![p] = m]
  BY DEF Build
<1>2. ppc' = [ppc EXCEPT ![p] = "lock"] /\ UNCHANGED <<ring, head, tail, spc, smsg>>
  BY DEF Build
<1>3. Hands'
  BY <1>1, <1>2 DEF Hands
<1>4. Places' = Places /\ \A i \in Places : Item(i)' = Item(i)
  BY <1>2, RingKept
<1>5. Exclusive'
  BY <1>1, <1>2, <1>4 DEF Exclusive
<1>6. pmsg[p] = NoMsg
  BY DEF Build, Hands
<1>7. Kept'
  BY <1>1, <1>2, <1>4, <1>6 DEF Kept
<1> QED BY <1>3, <1>5, <1>7

\* The message goes from its sender to the place behind the last; the sender forgets it.
LEMMA PutPreserves ==
    ASSUME OwnerInv, TypeOK', NEW p \in Senders, Put(p), ~Full
    PROVE  OwnerInv'
<1> USE DEF OwnerInv, TypeOK
<1>1. /\ ring' = [ring EXCEPT ![tail] = pmsg[p]]
      /\ tail' = Incr(tail)
      /\ ppc' = [ppc EXCEPT ![p] = "idle"]
      /\ pmsg' = [pmsg EXCEPT ![p] = NoMsg]
      /\ UNCHANGED <<head, heap, spc, smsg>>
  BY DEF Put
<1>2. pmsg[p] \in heap
  BY DEF Hands, Put
<1>3. Count \in Nat /\ Places' = 0..Count
  <2>1. Count \in 0..QueueLen-1
    BY CountBounds
  <2>2. Count' = Count + 1
    BY <1>1, RingPut
  <2> QED BY <2>1, <2>2 DEF Places
<1>4. \A i \in 0..Count : Item(i)' = IF i = Count THEN pmsg[p] ELSE Item(i)
  BY <1>1, RingPut
<1>5. Hands'
  BY <1>1 DEF Hands
<1>6. Exclusive'
  <2> SUFFICES ASSUME NEW i \in 0..Count
               PROVE  /\ Item(i)' \in heap
                      /\ Item(i)' # smsg
                      /\ \A r \in Senders : Item(i)' # pmsg'[r]
                      /\ \A k \in 0..Count : k # i => Item(k)' # Item(i)'
    BY <1>1, <1>3 DEF Exclusive
  <2>1. CASE i = Count
    BY <1>1, <1>2, <1>3, <1>4, <2>1 DEF Exclusive, Hands, Places
  <2>2. CASE i # Count
    <3>1. i \in Places
      BY <1>3, <2>2 DEF Places
    <3> QED BY <1>1, <1>2, <1>3, <1>4, <2>2, <3>1 DEF Exclusive, Places
  <2> QED BY <2>1, <2>2
<1>7. Kept'
  <2> SUFFICES ASSUME NEW m \in heap
               PROVE  \/ \E i \in 0..Count : m = Item(i)'
                      \/ m = smsg
                      \/ \E r \in Senders : m = pmsg'[r]
    BY <1>1, <1>3 DEF Kept
  <2>1. CASE \E i \in Places : m = Item(i)
    BY <1>3, <1>4, <2>1 DEF Places
  <2>2. CASE m = pmsg[p]
    BY <1>3, <1>4, <2>2
  <2>3. CASE \E r \in Senders : m = pmsg[r] /\ r # p
    BY <1>1, <2>3
  <2> QED BY <2>1, <2>2, <2>3 DEF Kept
<1> QED BY <1>5, <1>6, <1>7

\* A full ring: the copy is freed and the sender forgets it.
LEMMA DropPreserves ==
    ASSUME OwnerInv, TypeOK', NEW p \in Senders, Drop(p)
    PROVE  OwnerInv'
<1> USE DEF OwnerInv, TypeOK
<1>1. /\ heap' = heap \ {pmsg[p]}
      /\ ppc' = [ppc EXCEPT ![p] = "idle"]
      /\ pmsg' = [pmsg EXCEPT ![p] = NoMsg]
      /\ UNCHANGED <<ring, head, tail, spc, smsg>>
  BY DEF Drop
<1>2. Hands'
  BY <1>1 DEF Hands, Drop
<1>3. Places' = Places /\ \A i \in Places : Item(i)' = Item(i)
  BY <1>1, RingKept
<1>4. Exclusive'
  BY <1>1, <1>3 DEF Exclusive
<1>5. Kept'
  BY <1>1, <1>3 DEF Kept
<1> QED BY <1>2, <1>4, <1>5

\* The first message goes to the consumer, and the others move up.
LEMMA TakePreserves ==
    ASSUME OwnerInv, TypeOK', Take, ~Empty
    PROVE  OwnerInv'
<1> USE DEF OwnerInv, TypeOK
<1>1. /\ smsg' = ring[head]
      /\ head' = NextHead
      /\ spc' \in {"deliver", "free"}
      /\ UNCHANGED <<ring, tail, heap, ppc, pmsg>>
  BY DEF Take
<1>2. /\ Count \in Nat \ {0}
      /\ Places' = 0..Count-2
      /\ smsg' = Item(0)
      /\ \A i \in 0..Count-2 : Item(i)' = Item(i + 1)
  BY <1>1, RingTake DEF Places
<1>3. 0 \in Places /\ \A i \in 0..Count-2 : i + 1 \in Places
  BY <1>2 DEF Places
<1>4. smsg = NoMsg
  BY DEF Hands, Take
<1>5. Hands'
  BY <1>1, <1>2, <1>3 DEF Hands, Exclusive
<1>6. Exclusive'
  <2> SUFFICES ASSUME NEW i \in 0..Count-2
               PROVE  /\ Item(i + 1) \in heap
                      /\ Item(i + 1) # Item(0)
                      /\ \A r \in Senders : Item(i + 1) # pmsg[r]
                      /\ \A k \in 0..Count-2 : k # i => Item(k + 1) # Item(i + 1)
    BY <1>1, <1>2 DEF Exclusive
  <2>1. i + 1 # 0 /\ \A k \in 0..Count-2 : k # i => k + 1 # i + 1
    BY <1>2
  <2> QED BY <1>3, <2>1 DEF Exclusive
<1>7. Kept'
  <2> SUFFICES ASSUME NEW m \in heap
               PROVE  \/ \E i \in 0..Count-2 : m = Item(i + 1)
                      \/ m = Item(0)
                      \/ \E r \in Senders : m = pmsg[r]
    BY <1>1, <1>2 DEF Kept
  <2>1. ASSUME NEW j \in Places, m = Item(j), j # 0
        PROVE  \E i \in 0..Count-2 : m = Item(i + 1)
    <3>1. j - 1 \in 0..Count-2 /\ (j - 1) + 1 = j
      BY <1>2, <2>1 DEF Places
    <3> QED BY <2>1, <3>1
  <2>2. m # smsg
    BY <1>4
  <2> QED BY <2>1, <2>2 DEF Kept
<1> QED BY <1>5, <1>6, <1>7

\* The message is freed after its handler, and the consumer forgets it.
LEMMA FreePreserves ==
    ASSUME OwnerInv, TypeOK', FreeMsg
    PROVE  OwnerInv'
<1> USE DEF OwnerInv, TypeOK
<1>1. /\ heap' = heap \ {smsg} /\ smsg' = NoMsg /\ spc' = "next"
      /\ UNCHANGED <<ring, head, tail, ppc, pmsg>>
  BY DEF FreeMsg, Freed
<1>2. Hands'
  BY <1>1 DEF Hands, FreeMsg
<1>3. Places' = Places /\ \A i \in Places : Item(i)' = Item(i)
  BY <1>1, RingKept
<1>4. Exclusive'
  BY <1>1, <1>3 DEF Exclusive
<1>5. Kept'
  BY <1>1, <1>3 DEF Kept
<1> QED BY <1>2, <1>4, <1>5

\* Steps that move no message.
LEMMA NoMessageMoves ==
    ASSUME OwnerInv, TypeOK', UNCHANGED <<ring, head, tail, heap, pmsg, smsg>>,
           \A p \in Senders : ppc'[p] = "idle" <=> ppc[p] = "idle",
           spc' \in {"deliver", "free"} <=> spc \in {"deliver", "free"}
    PROVE  OwnerInv'
<1>1. Places' = Places /\ \A i \in Places : Item(i)' = Item(i)
  BY RingKept
<1>2. Hands'
  BY DEF OwnerInv, Hands
<1>3. Exclusive'
  BY <1>1 DEF OwnerInv, Exclusive
<1>4. Kept'
  BY <1>1 DEF OwnerInv, Kept
<1> QED BY <1>2, <1>3, <1>4 DEF OwnerInv

LEMMA OwnerInvPreserved == OwnerInv /\ [Next]_vars => OwnerInv'
<1> SUFFICES ASSUME OwnerInv, [Next]_vars
             PROVE  OwnerInv'
  OBVIOUS
<1>0. TypeOK /\ TypeOK'
  BY TypePreserved DEF OwnerInv
<1>1. ASSUME NEW p \in Senders, Build(p) \/ SendStep(p)
      PROVE  OwnerInv'
  <2>1. CASE Build(p)
    BY <1>0, <2>1, BuildPreserves
  <2>2. CASE LockSend(p)
    BY <1>0, <2>2, NoMessageMoves DEF LockSend, TypeOK
  <2>3. CASE Put(p) /\ ~Full
    BY <1>0, <2>3, PutPreserves
  <2>4. CASE Put(p) /\ Full
    BY <1>0, <2>4, NoMessageMoves DEF Put, TypeOK
  <2>5. CASE Drop(p)
    BY <1>0, <2>5, DropPreserves
  <2> QED BY <1>1, <2>1, <2>2, <2>3, <2>4, <2>5 DEF SendStep
<1>2. CASE StartPass \/ LockTake \/ EndPass \/ Delivered
  BY <1>0, <1>2, NoMessageMoves DEF StartPass, LockTake, EndPass, Delivered
<1>3. CASE Take /\ ~Empty
  BY <1>0, <1>3, TakePreserves
<1>4. CASE Take /\ Empty
  BY <1>0, <1>4, NoMessageMoves DEF Take
<1>5. CASE FreeMsg
  BY <1>0, <1>5, FreePreserves
<1>6. CASE UNCHANGED vars
  BY <1>0, <1>6, NoMessageMoves
<1> QED BY <1>1, <1>2, <1>3, <1>4, <1>5, <1>6 DEF Next, PassStep

LEMMA OwnerInvInitially == Init => OwnerInv
<1> SUFFICES ASSUME Init PROVE OwnerInv
  OBVIOUS
<1>1. TypeOK
  BY DEF Init, TypeOK
<1>2. Places = {}
  BY DEF Init, Places, Count
<1>3. Hands
  BY DEF Init, Hands
<1>4. Exclusive /\ Kept
  BY <1>2 DEF Init, Exclusive, Kept
<1> QED BY <1>1, <1>3, <1>4 DEF OwnerInv

\* Every copy has one owner: a sender, a place in the ring or the consumer.
THEOREM OwnerInvariant == Spec => []OwnerInv
  BY OwnerInvInitially, OwnerInvPreserved, PTL DEF Spec

\* The indices stay within the ring, no message is queued twice, handled or freed twice or
\* under somebody's hands, and none is forgotten, for any number of senders and any ring.
THEOREM QueueIsSound == Spec => []QueueSound
<1>1. OwnerInv => QueueSound
  BY OwnersAreSound
<1> QED BY <1>1, OwnerInvariant, PTL

-----------------------------------------------------------------------------
(* The ring implements BoundedFifo                                          *)

\* The ring as a sequence.
RingIsSeq ==
    /\ AsSeq \in Seq(Msgs)
    /\ Len(AsSeq) = Count
    /\ Count \in 0..QueueLen-1
    /\ \A i \in 1..Count : AsSeq[i] = Item(i - 1)

LEMMA RingAsSeq == OwnerInv => RingIsSeq
<1> SUFFICES ASSUME OwnerInv PROVE RingIsSeq
  OBVIOUS
<1>1. Count \in 0..QueueLen-1
  BY CountBounds DEF OwnerInv
<1>2. \A i \in 1..Count : Item(i - 1) \in Msgs
  <2>1. \A i \in 1..Count : i - 1 \in Places
    BY <1>1 DEF Places
  <2> QED BY <2>1 DEF OwnerInv, Exclusive, TypeOK
<1>3. AsSeq \in [1..Count -> Msgs]
  BY <1>2 DEF AsSeq, Item
<1>4. AsSeq \in Seq(Msgs)
  BY <1>1, <1>3, SeqDef
<1>5. Len(AsSeq) = Count
  BY <1>1, <1>3, <1>4, LenProperties
<1> QED BY <1>1, <1>4, <1>5 DEF RingIsSeq, AsSeq, Item

\* A step that leaves ring and consumer alone is invisible.
LEMMA FifoStutters ==
    ASSUME UNCHANGED <<ring, head, tail, smsg>>
    PROVE  UNCHANGED <<AsSeq, smsg>>
  BY DEF AsSeq, Slot, Count

\* Put on a ring with room appends.
LEMMA PutAppends ==
    ASSUME OwnerInv, OwnerInv', NEW p \in Senders, Put(p), ~Full
    PROVE  Fifo!Next
<1>1. /\ ring' = [ring EXCEPT ![tail] = pmsg[p]]
      /\ tail' = Incr(tail)
      /\ UNCHANGED <<head, smsg>>
  BY DEF Put
<1>2. pmsg[p] \in Msgs
  BY DEF OwnerInv, Hands, Put, TypeOK
<1>3. /\ AsSeq \in Seq(Msgs) /\ Len(AsSeq) = Count /\ Count \in 0..QueueLen-1
      /\ \A i \in 1..Count : AsSeq[i] = Item(i - 1)
  BY RingAsSeq DEF RingIsSeq
<1>4. /\ AsSeq' \in Seq(Msgs) /\ Len(AsSeq') = Count'
      /\ \A i \in 1..Count' : AsSeq'[i] = Item(i - 1)'
  <2>1. RingIsSeq'
    BY RingAsSeq, PTL
  <2> QED BY <2>1 DEF RingIsSeq
<1>5. /\ Count' = Count + 1
      /\ \A i \in 0..Count : Item(i)' = IF i = Count THEN pmsg[p] ELSE Item(i)
  BY <1>1, RingPut DEF OwnerInv
<1>6. /\ Append(AsSeq, pmsg[p]) \in Seq(Msgs)
      /\ Len(Append(AsSeq, pmsg[p])) = Count + 1
      /\ \A i \in 1..Count : Append(AsSeq, pmsg[p])[i] = AsSeq[i]
      /\ Append(AsSeq, pmsg[p])[Count + 1] = pmsg[p]
  BY <1>2, <1>3, AppendProperties
<1>7. \A i \in 1..Count+1 : AsSeq'[i] = Append(AsSeq, pmsg[p])[i]
  <2> SUFFICES ASSUME NEW i \in 1..Count+1 PROVE AsSeq'[i] = Append(AsSeq, pmsg[p])[i]
    OBVIOUS
  <2>1. AsSeq'[i] = IF i - 1 = Count THEN pmsg[p] ELSE Item(i - 1)
    <3>1. i \in 1..Count' /\ i - 1 \in 0..Count
      BY <1>3, <1>5
    <3> QED BY <1>4, <1>5, <3>1
  <2> QED BY <1>3, <1>6, <2>1
<1>8. AsSeq' = Append(AsSeq, pmsg[p])
  BY <1>3, <1>4, <1>5, <1>6, <1>7, SeqEqual
<1>9. Len(AsSeq) < QueueLen - 1
  BY <1>3, CountBounds DEF OwnerInv
<1> QED BY <1>1, <1>2, <1>8, <1>9 DEF Fifo!Next, Fifo!Put

\* Take on a ring that is not empty hands out the oldest message.
LEMMA TakeTakes ==
    ASSUME OwnerInv, OwnerInv', Take, ~Empty
    PROVE  Fifo!Next
<1>1. smsg' = ring[head] /\ head' = NextHead /\ UNCHANGED <<ring, tail>>
  BY DEF Take
<1>2. smsg = NoMsg
  BY DEF OwnerInv, Hands, Take
<1>3. /\ AsSeq \in Seq(Msgs) /\ Len(AsSeq) = Count /\ Count \in 0..QueueLen-1
      /\ \A i \in 1..Count : AsSeq[i] = Item(i - 1)
  BY RingAsSeq DEF RingIsSeq
<1>4. /\ AsSeq' \in Seq(Msgs) /\ Len(AsSeq') = Count'
      /\ \A i \in 1..Count' : AsSeq'[i] = Item(i - 1)'
  <2>1. RingIsSeq'
    BY RingAsSeq, PTL
  <2> QED BY <2>1 DEF RingIsSeq
<1>5. /\ Count' = Count - 1 /\ Count \in 1..QueueLen-1
      /\ ring[head] = Item(0)
      /\ \A i \in 0..Count-2 : Item(i)' = Item(i + 1)
  BY <1>1, RingTake DEF OwnerInv
<1>6. AsSeq # <<>>
  BY <1>3, <1>5, EmptySeq
<1>7. Head(AsSeq) = smsg'
  BY <1>1, <1>3, <1>5, <1>6
<1>8. /\ Tail(AsSeq) \in Seq(Msgs)
      /\ Len(Tail(AsSeq)) = Count - 1
      /\ \A i \in 1..Count-1 : Tail(AsSeq)[i] = AsSeq[i + 1]
  BY <1>3, <1>6, HeadTailProperties
<1>9. \A i \in 1..Count-1 : AsSeq'[i] = Tail(AsSeq)[i]
  <2> SUFFICES ASSUME NEW i \in 1..Count-1 PROVE AsSeq'[i] = Tail(AsSeq)[i]
    OBVIOUS
  <2>1. i \in 1..Count' /\ i - 1 \in 0..Count-2 /\ i + 1 \in 1..Count /\ (i - 1) + 1 = (i + 1) - 1
    BY <1>5
  <2> QED BY <1>3, <1>4, <1>5, <1>8, <2>1
<1>10. AsSeq' = Tail(AsSeq)
  BY <1>4, <1>5, <1>8, <1>9, SeqEqual
<1> QED BY <1>2, <1>6, <1>7, <1>10 DEF Fifo!Next, Fifo!Take

\* Each step of the ring is a step of the fifo or invisible in it.
LEMMA StepImplementsFifo ==
    ASSUME OwnerInv, OwnerInv', [Next]_vars
    PROVE  [Fifo!Next]_<<AsSeq, smsg>>
<1>1. ASSUME NEW p \in Senders, Build(p) \/ LockSend(p) \/ Drop(p) \/ (Put(p) /\ Full)
      PROVE  UNCHANGED <<AsSeq, smsg>>
  BY <1>1, FifoStutters DEF Build, LockSend, Drop, Put
<1>2. ASSUME NEW p \in Senders, Put(p), ~Full
      PROVE  Fifo!Next
  BY <1>2, PutAppends
<1>3. CASE StartPass \/ LockTake \/ EndPass \/ Delivered \/ (Take /\ Empty) \/ UNCHANGED vars
  BY <1>3, FifoStutters DEF StartPass, LockTake, EndPass, Delivered, Take
<1>4. CASE Take /\ ~Empty
  BY <1>4, TakeTakes
<1>5. CASE FreeMsg
  <2>1. smsg # NoMsg /\ smsg' = NoMsg
    BY <1>5 DEF FreeMsg, OwnerInv, Hands, TypeOK
  <2>2. AsSeq' = AsSeq
    BY <1>5 DEF FreeMsg, AsSeq, Slot, Count
  <2> QED BY <2>1, <2>2 DEF Fifo!Next, Fifo!Done
<1> QED BY <1>1, <1>2, <1>3, <1>4, <1>5 DEF Next, SendStep, PassStep

\* The ring of any length is a first-in first-out queue of QueueLen - 1 messages, which
\* loses only what it refuses.
THEOREM RingImplementsFifo == Spec => ImplementsFifo
<1>1. Init => Fifo!Init
  <2> SUFFICES ASSUME Init PROVE Fifo!Init
    OBVIOUS
  <2>1. AsSeq \in Seq(Msgs) /\ Len(AsSeq) = Count
    BY OwnerInvInitially, RingAsSeq DEF RingIsSeq
  <2>2. Count = 0
    BY DEF Init, Count
  <2>3. AsSeq = <<>>
    BY <2>1, <2>2, EmptySeq
  <2> QED BY <2>3 DEF Init, Fifo!Init
<1>2. OwnerInv /\ OwnerInv' /\ [Next]_vars => [Fifo!Next]_<<AsSeq, smsg>>
  BY StepImplementsFifo
<1> QED BY <1>1, <1>2, OwnerInvariant, PTL DEF Spec, ImplementsFifo, Fifo!Spec
=============================================================================
