--------------------------- MODULE SpscRingProofs ---------------------------
EXTENDS SpscRing, Integers, SequenceTheorems, TLAPS

LEMMA ModulusBounds ==
  /\ Capacity \in Nat /\ Capacity > 1
  /\ Modulus \in Nat /\ Modulus >= 2 * Capacity
<1>1. PICK k \in 2 .. Modulus : Modulus = k * Capacity
  BY RingAssumption
<1>2. k * Capacity >= 2 * Capacity
  <2>1. k \in Nat /\ k >= 2 /\ Capacity \in Nat
    BY <1>1, RingAssumption
  <2>2. (k - 2) * Capacity >= 0
    BY <2>1
  <2> QED BY <2>1, <2>2
<1> QED BY <1>1, <1>2, RingAssumption

LEMMA CounterArithmetic ==
  ASSUME NEW s \in Counters
  PROVE  /\ Succ(s) \in Counters
         /\ \A t \in Counters : Distance(t, s) \in 0 .. Modulus - 1
         /\ \A k \in Counters : Advance(s, k) \in Counters
BY ModulusBounds DEF Counters, Succ, Distance, Advance

LEMMA SlotInRange == \A s \in Counters : Slot(s) \in Slots
BY ModulusBounds DEF Counters, Slot, Slots

LEMMA Modular ==
  ASSUME NEW s \in Counters
  PROVE  \E q \in Nat : s = q * Capacity + Slot(s)
<1>1. s \div Capacity \in Nat /\ s = (s \div Capacity) * Capacity + (s % Capacity)
  BY ModulusBounds DEF Counters
<1> QED BY <1>1 DEF Slot

LEMMA VisibleBetween ==
  ASSUME NEW seen \in Counters, NEW now \in Counters, NEW s \in Visible(seen, now)
  PROVE  /\ s \in Counters
         /\ Distance(now, s) + Distance(s, seen) = Distance(now, seen)
<1>1. PICK k \in 0 .. Distance(now, seen) : s = Advance(seen, k)
  BY DEF Visible
<1> QED BY <1>1, ModulusBounds DEF Counters, Distance, Advance

LEMMA NoMultipleInside ==
  ASSUME NEW n \in Int
  PROVE  ~(0 < n * Capacity /\ n * Capacity < Capacity)
<1>1. CASE n >= 1
  <2>1. (n - 1) * Capacity >= 0
    BY <1>1, ModulusBounds
  <2>2. n * Capacity = (n - 1) * Capacity + Capacity
    BY ModulusBounds
  <2> QED BY <2>1, <2>2, ModulusBounds
<1>2. CASE n <= 0
  <2>1. (0 - n) * Capacity >= 0
    BY <1>2, ModulusBounds
  <2>2. n * Capacity = 0 - ((0 - n) * Capacity)
    BY ModulusBounds
  <2> QED BY <2>1, <2>2, ModulusBounds
<1> QED BY <1>1, <1>2

(* Counters less than Capacity apart, wrapped or not, use different slots. *)
LEMMA DistinctSlots ==
  ASSUME NEW s \in Counters, NEW t \in Counters,
         0 < Distance(s, t), Distance(s, t) < Capacity
  PROVE  Slot(s) # Slot(t)
<1> SUFFICES ASSUME Slot(s) = Slot(t) PROVE FALSE
  OBVIOUS
<1>1. PICK i \in Nat : s = i * Capacity + Slot(s)
  BY Modular
<1>2. PICK j \in Nat : t = j * Capacity + Slot(t)
  BY Modular
<1>3. PICK k \in 2 .. Modulus : Modulus = k * Capacity
  BY RingAssumption
<1>4. Slot(s) \in Nat /\ Capacity \in Nat /\ k \in Nat /\ s \in Nat /\ t \in Nat
  BY SlotInRange, ModulusBounds DEF Slots, Counters
<1>5. CASE s >= t
  <2>1. Distance(s, t) = (i - j) * Capacity
    <3>1. Distance(s, t) = i * Capacity - j * Capacity
      BY <1>1, <1>2, <1>4, <1>5 DEF Distance
    <3> QED BY <3>1, <1>4
  <2> QED BY <2>1, <1>4, NoMultipleInside
<1>6. CASE ~(s >= t)
  <2>1. Distance(s, t) = (i - j + k) * Capacity
    <3>1. Distance(s, t) = i * Capacity - j * Capacity + k * Capacity
      BY <1>1, <1>2, <1>3, <1>4, <1>6 DEF Distance
    <3> QED BY <3>1, <1>4
  <2> QED BY <2>1, <1>4, NoMultipleInside
<1> QED BY <1>5, <1>6
-----------------------------------------------------------------------------
IInv == TypeOK /\ Inv

(* The facts about the counters that every step below works with.          *)
LEMMA CounterFacts ==
  ASSUME IInv
  PROVE  /\ write \in Counters /\ read \in Counters
         /\ pSeen \in Counters /\ cSeen \in Counters
         /\ Distance(write, read) \in 0 .. Capacity
         /\ Distance(write, pSeen) \in 0 .. Capacity
         /\ pPc \in {"store", "publish"} => Distance(write, pSeen) < Capacity
         /\ Distance(write, read) <= Distance(write, pSeen)
         /\ cPc \in {"copy", "release"} => Distance(write, read) > 0
BY ModulusBounds
DEF IInv, TypeOK, Inv, StaleIsSafe, RoomHeld, ValueHeld, Full, Counters, Distance

LEMMA InitIInv == Init => IInv
<1> SUFFICES ASSUME Init PROVE IInv
  OBVIOUS
<1>1. TypeOK
  BY ModulusBounds, RingAssumption DEF Init, TypeOK, Counters, Slots
<1>2. Distance(0, 0) = 0
  BY DEF Distance
<1>3. Inv
  BY <1>2, ModulusBounds 
     DEF Init, Inv, StaleIsSafe, RoomHeld, ValueHeld, StoredPending, CallShape,
         Filled, CopyStable
<1> QED BY <1>1, <1>3 DEF IInv

LEMMA BatchIsSequence ==
  ASSUME NEW vs \in Batches
  PROVE  vs \in Seq(Values) /\ vs # <<>>
BY RingAssumption DEF Batches

LEMMA TypeStep == IInv /\ [Next]_vars => TypeOK'
<1> SUFFICES ASSUME IInv, [Next]_vars PROVE TypeOK'
  OBVIOUS
<1> USE DEF IInv, TypeOK
<1>0. MaxBatch \in Nat
  BY RingAssumption
<1>1. ASSUME NEW vs \in Batches, PushCall(vs) PROVE TypeOK'
  BY <1>1, BatchIsSequence DEF PushCall, consumerVars
<1>2. CASE PushCheck
  <2>1. pSeen' \in Counters
    BY <1>2, VisibleBetween DEF PushCheck
  <2>2. (pPc' = "idle" /\ pArgs' = <<>>) \/ (pPc' = "store" /\ pArgs' = pArgs)
    BY <1>2 DEF PushCheck
  <2>3. pArgs \in Seq(Values) /\ <<>> \in Seq(Values)
    OBVIOUS
  <2>4. pArgs' \in Seq(Values) /\ pPc' \in {"idle", "store"}
    BY <2>2, <2>3
  <2> QED BY <2>1, <2>4, <1>2 DEF PushCheck, consumerVars
<1>3. CASE PushStore
  <2>1. Head(pArgs) \in Values
    BY <1>3 DEF PushStore, Inv, CallShape
  <2> QED BY <2>1, <1>3 DEF PushStore, consumerVars
<1>4. CASE PushPublish
  <2>1. Tail(pArgs) \in Seq(Values) /\ Succ(write) \in Counters
    BY <1>4, CounterArithmetic DEF PushPublish, Inv, CallShape
  <2> QED BY <2>1, <1>4 DEF PushPublish, consumerVars
<1>5. ASSUME NEW n \in 1 .. MaxBatch, PopCall(n) PROVE TypeOK'
  BY <1>5, <1>0 DEF PopCall, producerVars
<1>6. CASE PopCheck
  BY <1>6, <1>0, VisibleBetween DEF PopCheck, producerVars
<1>7. CASE PopCopy
  <2>1. storage[Slot(read)] \in Values \cup {Nil}
    BY SlotInRange
  <2> QED BY <2>1, <1>7 DEF PopCopy, producerVars
<1>8. CASE PopRelease
  <2>1. Succ(read) \in Counters /\ cWant - 1 \in 0 .. MaxBatch
    BY <1>8, <1>0, CounterArithmetic DEF PopRelease, Inv, CallShape
  <2> QED BY <2>1, <1>8 DEF PopRelease, producerVars
<1>9. CASE Reset
  <2>1. 0 \in Counters
    BY ModulusBounds DEF Counters
  <2> QED BY <2>1, <1>9 DEF Reset
<1>10. CASE UNCHANGED vars
  BY <1>10 DEF vars, producerVars, consumerVars
<1> HIDE DEF IInv, TypeOK
<1> QED
  BY <1>1, <1>2, <1>3, <1>4, <1>5, <1>6, <1>7, <1>8, <1>9, <1>10
  DEF Next, Producer, Consumer

-----------------------------------------------------------------------------
(* Walking k <= Distance(w, r) counters on from r stays below w and ends   *)
(* Distance(w, r) - k below it; the oldest value is in the slot of r.      *)
LEMMA WalkToWrite ==
  ASSUME NEW w \in Counters, NEW r \in Counters
  PROVE  /\ \A k \in 0 .. Distance(w, r) :
              /\ Advance(r, k) \in Counters
              /\ Distance(w, Advance(r, k)) = Distance(w, r) - k
         /\ Advance(r, 0) = r
         /\ Advance(r, Distance(w, r)) = w
BY ModulusBounds DEF Counters, Distance, Advance

(* The slot the producer fills is none of those that hold a value.         *)
LEMMA StoreKeepsContents ==
  ASSUME IInv, PushStore
  PROVE  \A k \in 0 .. Distance(write, read) - 1 :
           storage'[Slot(Advance(read, k))] = storage[Slot(Advance(read, k))]
<1> SUFFICES ASSUME NEW k \in 0 .. Distance(write, read) - 1
             PROVE  storage'[Slot(Advance(read, k))] = storage[Slot(Advance(read, k))]
  OBVIOUS
<1>1. Distance(write, read) \in 0 .. Capacity - 1
  BY CounterFacts, ModulusBounds DEF PushStore
<1>2. /\ Advance(read, k) \in Counters /\ write \in Counters
      /\ 0 < Distance(write, Advance(read, k))
      /\ Distance(write, Advance(read, k)) < Capacity
  BY <1>1, CounterFacts, WalkToWrite, ModulusBounds
<1>3. Slot(write) # Slot(Advance(read, k))
  BY <1>2, DistinctSlots
<1> QED BY <1>2, <1>3, SlotInRange DEF PushStore, IInv, TypeOK

LEMMA StoreStutters == IInv /\ PushStore => Contents' = Contents
<1> SUFFICES ASSUME IInv, PushStore PROVE Contents' = Contents
  OBVIOUS
<1>1. write' = write /\ read' = read
  BY DEF PushStore
<1>2. Distance(write, read) \in Nat
  BY CounterFacts, ModulusBounds
<1>3. \A i \in 1 .. Distance(write, read) :
        storage'[Slot(Advance(read, i - 1))] = storage[Slot(Advance(read, i - 1))]
  BY <1>2, StoreKeepsContents
<1> QED BY <1>1, <1>3 DEF Contents

LEMMA PublishAppends ==
  ASSUME IInv, PushPublish
  PROVE  /\ Distance(write', read) = Distance(write, read) + 1
         /\ Contents' = [i \in 1 .. Distance(write, read) + 1 |->
                           IF i <= Distance(write, read) THEN Contents[i]
                                                        ELSE Head(pArgs)]
<1>1. write' = Succ(write) /\ read' = read /\ storage' = storage
  BY DEF PushPublish
<1>2. Distance(write, read) \in 0 .. Capacity - 1
  BY CounterFacts, ModulusBounds DEF PushPublish
<1>3. Distance(write', read) = Distance(write, read) + 1
  BY <1>1, <1>2, CounterFacts, ModulusBounds DEF Counters, Succ, Distance
<1>4. storage[Slot(Advance(read, Distance(write, read)))] = Head(pArgs)
  BY CounterFacts, WalkToWrite DEF PushPublish, IInv, Inv, StoredPending
<1>5. Contents' = [i \in 1 .. Distance(write, read) + 1 |->
                     storage[Slot(Advance(read, i - 1))]]
  BY <1>1, <1>3 DEF Contents
<1>6. ASSUME NEW i \in 1 .. Distance(write, read) + 1
      PROVE  storage[Slot(Advance(read, i - 1))]
               = IF i <= Distance(write, read) THEN Contents[i] ELSE Head(pArgs)
  <2>1. CASE i <= Distance(write, read)
    <3>1. i \in 1 .. Distance(write, read)
      BY <2>1, <1>2
    <3> QED BY <3>1, <2>1 DEF Contents
  <2>2. CASE ~(i <= Distance(write, read))
    <3>1. i - 1 = Distance(write, read)
      BY <2>2, <1>2
    <3> QED BY <3>1, <2>2, <1>4
  <2> QED BY <2>1, <2>2
<1> QED BY <1>3, <1>5, <1>6

LEMMA ReleaseRemoves ==
  ASSUME IInv, PopRelease
  PROVE  /\ Distance(write, read) > 0
         /\ Distance(write, read') = Distance(write, read) - 1
         /\ Contents' = [i \in 1 .. Distance(write, read) - 1 |-> Contents[i + 1]]
         /\ Contents[1] = cVal
<1>1. read' = Succ(read) /\ write' = write /\ storage' = storage
  BY DEF PopRelease
<1>2. Distance(write, read) \in 1 .. Capacity
  BY CounterFacts, ModulusBounds DEF PopRelease
<1>3. Distance(write, read') = Distance(write, read) - 1
  BY <1>1, <1>2, CounterFacts, ModulusBounds DEF Counters, Succ, Distance
<1>4. \A i \in 1 .. Distance(write, read) - 1 : Advance(Succ(read), i - 1) = Advance(read, i)
  BY <1>2, CounterFacts, ModulusBounds DEF Counters, Succ, Advance
<1>5. Contents' = [i \in 1 .. Distance(write, read) - 1 |->
                     storage[Slot(Advance(read, i))]]
  BY <1>1, <1>3, <1>4 DEF Contents
<1>6. \A i \in 1 .. Distance(write, read) - 1 :
        Contents[i + 1] = storage[Slot(Advance(read, i))]
  BY <1>2 DEF Contents
<1>7. Contents[1] = storage[Slot(read)]
  BY <1>2, CounterFacts, WalkToWrite DEF Contents
<1>8. cVal = storage[Slot(read)]
  BY DEF PopRelease, IInv, Inv, CopyStable
<1> QED BY <1>2, <1>3, <1>5, <1>6, <1>7, <1>8

-----------------------------------------------------------------------------
LEMMA DistanceIsNat ==
  \A s, t \in Counters : Distance(s, t) \in Nat
BY ModulusBounds DEF Counters, Distance

(* A point between two counters: moving past it keeps it between.          *)
LEMMA BetweenTransitive ==
  ASSUME NEW w \in Counters, NEW r \in Counters, NEW s \in Counters,
         NEW t \in Counters,
         Distance(w, r) + Distance(r, s) = Distance(w, s),
         Distance(r, t) + Distance(t, s) = Distance(r, s)
  PROVE  /\ Distance(w, r) + Distance(r, t) = Distance(w, t)
         /\ Distance(w, t) <= Distance(w, s)
BY ModulusBounds DEF Counters, Distance

LEMMA OneFurther ==
  ASSUME NEW s \in Counters, NEW t \in Counters
  PROVE  /\ Distance(s, t) < Capacity => Distance(Succ(s), t) = Distance(s, t) + 1
         /\ Distance(s, t) > 0 => Distance(s, Succ(t)) = Distance(s, t) - 1
         /\ Distance(s, t) < Capacity => Distance(Succ(s), s) = 1
BY ModulusBounds DEF Counters, Distance, Succ

LEMMA CountersStep == IInv /\ [Next]_vars => (StaleIsSafe /\ RoomHeld /\ ValueHeld)'
<1> SUFFICES ASSUME IInv, [Next]_vars
             PROVE  (StaleIsSafe /\ RoomHeld /\ ValueHeld)'
  OBVIOUS
<1> USE CounterFacts, ModulusBounds
<1> USE DEF StaleIsSafe, RoomHeld, ValueHeld
<1>0. StaleIsSafe /\ RoomHeld /\ ValueHeld
  BY DEF IInv, Inv
<1>1. ASSUME NEW vs \in Batches, PushCall(vs)
      PROVE  (StaleIsSafe /\ RoomHeld /\ ValueHeld)'
  BY <1>0, <1>1 DEF PushCall, consumerVars
<1>2. CASE PushCheck
  <2>1. /\ pSeen' \in Counters
        /\ Distance(read, pSeen') + Distance(pSeen', pSeen) = Distance(read, pSeen)
    BY <1>2, VisibleBetween DEF PushCheck
  <2>2. StaleIsSafe'
    <3>1. write' = write /\ read' = read /\ cSeen' = cSeen
      BY <1>2 DEF PushCheck, consumerVars
    <3>2. /\ Distance(write, read) + Distance(read, pSeen') = Distance(write, pSeen')
          /\ Distance(write, pSeen') <= Distance(write, pSeen)
      BY <2>1, <1>0, BetweenTransitive
    <3>3. Distance(write, pSeen') \in Nat /\ Distance(write, pSeen) \in Nat
      BY <2>1, DistanceIsNat
    <3> QED BY <3>1, <3>2, <3>3, <1>0
  <2>3. RoomHeld' /\ ValueHeld'
    BY <1>0, <1>2 DEF PushCheck, consumerVars
  <2> QED BY <2>2, <2>3
<1>3. CASE PushStore
  BY <1>0, <1>3 DEF PushStore, consumerVars
<1>4. CASE PushPublish
  <2>1. /\ write' = Succ(write) /\ read' = read /\ pSeen' = pSeen /\ cSeen' = cSeen
        /\ Distance(write, pSeen) < Capacity
    BY <1>4 DEF PushPublish, consumerVars
  <2>2. /\ Distance(write, read) \in Nat /\ Distance(read, pSeen) \in Nat
        /\ Distance(write, cSeen) \in Nat /\ Distance(cSeen, read) \in Nat
        /\ Distance(write, pSeen) \in Nat
    BY DistanceIsNat
  <2>3. Distance(write, read) < Capacity /\ Distance(write, cSeen) < Capacity
    BY <1>0, <2>1, <2>2
  <2>4. /\ Distance(Succ(write), read) = Distance(write, read) + 1
        /\ Distance(Succ(write), cSeen) = Distance(write, cSeen) + 1
        /\ Distance(Succ(write), pSeen) = Distance(write, pSeen) + 1
    BY <2>1, <2>3, OneFurther
  <2>5. StaleIsSafe'
    BY <1>0, <2>1, <2>2, <2>4
  <2>6. RoomHeld' /\ ValueHeld'
    BY <1>0, <1>4 DEF PushPublish, consumerVars
  <2> QED BY <2>5, <2>6
<1>5. ASSUME NEW n \in 1 .. MaxBatch, PopCall(n)
      PROVE  (StaleIsSafe /\ RoomHeld /\ ValueHeld)'
  BY <1>0, <1>5 DEF PopCall, producerVars
<1>6. CASE PopCheck
  <2>1. /\ cSeen' \in Counters
        /\ Distance(write, cSeen') + Distance(cSeen', cSeen) = Distance(write, cSeen)
    BY <1>6, VisibleBetween DEF PopCheck
  <2>2. StaleIsSafe'
    BY <2>1, <1>0, <1>6 DEF PopCheck, producerVars, Counters, Distance
  <2>3. RoomHeld' /\ ValueHeld'
    BY <1>0, <1>6 DEF PopCheck, producerVars
  <2> QED BY <2>2, <2>3
<1>7. CASE PopCopy
  BY <1>0, <1>7 DEF PopCopy, producerVars
<1>8. CASE PopRelease
  <2>1. StaleIsSafe'
    BY <1>0, <1>8 DEF PopRelease, producerVars, Counters, Distance, Succ
  <2>2. RoomHeld' /\ ValueHeld'
    BY <1>0, <1>8 DEF PopRelease, producerVars
  <2> QED BY <2>1, <2>2
<1>9. CASE Reset
  BY <1>9 DEF Reset, Distance
<1>10. CASE UNCHANGED vars
  BY <1>0, <1>10 DEF vars, producerVars, consumerVars
<1> QED
  BY <1>1, <1>2, <1>3, <1>4, <1>5, <1>6, <1>7, <1>8, <1>9, <1>10
  DEF Next, Producer, Consumer

LEMMA CallsStep == IInv /\ [Next]_vars => (StoredPending /\ CallShape)'
<1> SUFFICES ASSUME IInv, [Next]_vars PROVE (StoredPending /\ CallShape)'
  OBVIOUS
<1>0. /\ StoredPending /\ CallShape /\ pArgs \in Seq(Values) /\ cWant \in Nat
      /\ storage \in [Slots -> Values \cup {Nil}] /\ Slot(write) \in Slots
  BY SlotInRange, RingAssumption DEF IInv, Inv, TypeOK
<1> USE DEF StoredPending, CallShape
<1>1. ASSUME NEW vs \in Batches, PushCall(vs) PROVE (StoredPending /\ CallShape)'
  BY <1>0, <1>1, BatchIsSequence DEF PushCall, consumerVars
<1>2. CASE PushCheck
  <2>1. (pPc' = "idle" /\ pArgs' = <<>>) \/ (pPc' = "store" /\ pArgs' = pArgs)
    BY <1>2 DEF PushCheck
  <2> QED BY <2>1, <1>0, <1>2 DEF PushCheck, consumerVars
<1>3. CASE PushStore
  BY <1>0, <1>3 DEF PushStore, consumerVars
<1>4. CASE PushPublish
  BY <1>0, <1>4 DEF PushPublish, consumerVars
<1>5. ASSUME NEW n \in 1 .. MaxBatch, PopCall(n) PROVE (StoredPending /\ CallShape)'
  BY <1>0, <1>5 DEF PopCall, producerVars
<1>6. CASE PopCheck
  BY <1>0, <1>6 DEF PopCheck, producerVars
<1>7. CASE PopCopy
  BY <1>0, <1>7 DEF PopCopy, producerVars
<1>8. CASE PopRelease
  BY <1>0, <1>8 DEF PopRelease, producerVars
<1>9. CASE Reset
  BY <1>0, <1>9 DEF Reset
<1>10. CASE UNCHANGED vars
  BY <1>0, <1>10 DEF vars, producerVars, consumerVars
<1> QED
  BY <1>1, <1>2, <1>3, <1>4, <1>5, <1>6, <1>7, <1>8, <1>9, <1>10
  DEF Next, Producer, Consumer

LEMMA ContentsStep == IInv /\ [Next]_vars => (Filled /\ CopyStable)'
<1> SUFFICES ASSUME IInv, [Next]_vars PROVE (Filled /\ CopyStable)'
  OBVIOUS
<1>0. Filled /\ CopyStable /\ Distance(write, read) \in Nat
  BY CounterFacts, ModulusBounds DEF IInv, Inv
<1>1. ASSUME UNCHANGED <<storage, write, read>>,
             UNCHANGED <<cPc, cVal>> \/ cPc' # "release"
      PROVE  (Filled /\ CopyStable)'
  <2>1. Contents' = Contents
    BY <1>1 DEF Contents
  <2>2. Filled'
    BY <2>1, <1>0, <1>1 DEF Filled
  <2>3. CopyStable'
    BY <1>0, <1>1 DEF CopyStable
  <2> QED BY <2>2, <2>3
<1>2. CASE PushStore
  <2>1. Filled'
    BY <1>0, <1>2, StoreStutters DEF PushStore, Filled
  <2>2. ASSUME cPc = "release" PROVE storage'[Slot(read)] = storage[Slot(read)]
    <3>1. 0 \in 0 .. Distance(write, read) - 1
      BY <2>2, CounterFacts, ModulusBounds
    <3>2. Advance(read, 0) = read
      BY CounterFacts, WalkToWrite
    <3> QED BY <3>1, <3>2, <1>2, StoreKeepsContents
  <2>3. CopyStable'
    BY <2>2, <1>0, <1>2 DEF PushStore, CopyStable, consumerVars
  <2> QED BY <2>1, <2>3
<1>3. CASE PushPublish
  <2>1. Head(pArgs) \in Values
    BY <1>3 DEF PushPublish, IInv, TypeOK, Inv, CallShape
  <2>2. Filled'
    <3>1. write' = Succ(write) /\ read' = read
      BY <1>3 DEF PushPublish
    <3>2. SUFFICES ASSUME NEW i \in 1 .. Distance(write, read) + 1
                   PROVE  Contents'[i] \in Values
      BY <3>1, <1>3, PublishAppends DEF Filled
    <3>3. CASE i <= Distance(write, read)
      <4>1. i \in 1 .. Distance(write, read)
        BY <3>3, <1>0
      <4> QED BY <4>1, <3>3, <1>0, <1>3, PublishAppends DEF Filled
    <3>4. CASE ~(i <= Distance(write, read))
      BY <3>4, <2>1, <1>3, PublishAppends
    <3> QED BY <3>3, <3>4
  <2>3. CopyStable'
    BY <1>0, <1>3 DEF PushPublish, CopyStable, consumerVars
  <2> QED BY <2>2, <2>3
<1>4. CASE PopCopy
  <2>1. Contents' = Contents /\ Filled'
    BY <1>0, <1>4 DEF PopCopy, Contents, Filled
  <2>2. /\ 1 \in 1 .. Distance(write, read)
        /\ Advance(read, 0) = read
    BY <1>4, CounterFacts, WalkToWrite, ModulusBounds DEF PopCopy
  <2>3. Contents[1] = storage[Slot(read)]
    BY <2>2 DEF Contents
  <2>4. CopyStable'
    BY <2>2, <2>3, <1>0, <1>4 DEF PopCopy, CopyStable, Filled
  <2> QED BY <2>1, <2>4
<1>5. CASE PopRelease
  <2>1. write' = write /\ cPc' # "release"
    BY <1>5 DEF PopRelease
  <2>2. Filled'
    <3>1. SUFFICES ASSUME NEW i \in 1 .. Distance(write, read) - 1
                   PROVE  Contents'[i] \in Values
      BY <2>1, <1>5, ReleaseRemoves DEF Filled
    <3>2. i + 1 \in 1 .. Distance(write, read)
      BY <1>0
    <3> QED BY <3>2, <1>0, <1>5, ReleaseRemoves DEF Filled
  <2> QED BY <2>1, <2>2 DEF CopyStable
<1>6. CASE Reset
  <2>1. Distance(write, read)' = 0
    BY <1>6 DEF Reset, Distance
  <2> QED BY <2>1, <1>6 DEF Reset, Filled, CopyStable
<1>7. ASSUME NEW vs \in Batches, PushCall(vs) PROVE (Filled /\ CopyStable)'
  BY <1>1, <1>7 DEF PushCall, consumerVars
<1>8. CASE PushCheck
  BY <1>1, <1>8 DEF PushCheck, consumerVars
<1>9. ASSUME NEW n \in 1 .. MaxBatch, PopCall(n) PROVE (Filled /\ CopyStable)'
  BY <1>1, <1>9 DEF PopCall
<1>10. CASE PopCheck
  BY <1>1, <1>10 DEF PopCheck
<1>11. CASE UNCHANGED vars
  BY <1>1, <1>11 DEF vars, consumerVars
<1> QED
  BY <1>2, <1>3, <1>4, <1>5, <1>6, <1>7, <1>8, <1>9, <1>10, <1>11
  DEF Next, Producer, Consumer

(* The counters stay in range and every conjunct of Inv holds, for every   *)
(* capacity and every counter width the capacity divides.                  *)
THEOREM Invariance == Spec => []IInv
<1>1. IInv /\ [Next]_vars => IInv'
  BY TypeStep, CountersStep, CallsStep, ContentsStep DEF IInv, Inv
<1> QED BY InitIInv, <1>1, PTL DEF Spec

(* TypeOK alone, the form in which the run checks it.                      *)
THEOREM TypeCorrect == Spec => []TypeOK
<1>1. IInv => TypeOK
  BY DEF IInv
<1> QED BY <1>1, Invariance, PTL

(* Lock-free access to storage_ never races.                               *)
THEOREM RaceFree == Spec => []NoDataRace
<1>1. IInv => NoDataRace
  <2> SUFFICES ASSUME IInv, pPc = "store", cPc = "copy" PROVE Slot(write) # Slot(read)
    BY DEF NoDataRace
  <2> QED BY CounterFacts, DistinctSlots, ModulusBounds
<1> QED BY <1>1, Invariance, PTL

(* A copied value is an accepted one and stays in its slot until released. *)
THEOREM CopiesStable == Spec => []CopyStable
<1>1. IInv => CopyStable
  BY DEF IInv, Inv
<1> QED BY <1>1, Invariance, PTL
-----------------------------------------------------------------------------
(* Refinement.  Publishing is the abstract Enqueue, releasing the Dequeue. *)
LEMMA ContentsIsSequence ==
  IInv => /\ Contents \in Seq(Values)
          /\ Len(Contents) = Distance(write, read)
<1> SUFFICES ASSUME IInv
             PROVE  /\ Contents \in Seq(Values)
                    /\ Len(Contents) = Distance(write, read)
  OBVIOUS
<1>1. Distance(write, read) \in Nat
  BY CounterFacts, DistanceIsNat
<1>2. Contents \in [1 .. Distance(write, read) -> Values]
  BY DEF IInv, Inv, Filled, Contents
<1> QED BY <1>1, <1>2

LEMMA ContentsStaysSequence ==
  IInv' => (/\ Contents \in Seq(Values)
            /\ Len(Contents) = Distance(write, read))'
BY ContentsIsSequence, PTL

LEMMA PublishRefines ==
  ASSUME IInv, IInv', PushPublish
  PROVE  \E v \in Values : Fifo!Enqueue(v)
<1> DEFINE v == Head(pArgs)
<1>1. v \in Values
  BY DEF PushPublish, IInv, TypeOK, Inv, CallShape
<1>2. /\ Contents \in Seq(Values) /\ Len(Contents) = Distance(write, read)
      /\ Contents' \in Seq(Values) /\ Len(Contents') = Distance(write', read')
  BY ContentsIsSequence, ContentsStaysSequence
<1>3. read' = read /\ delivered' = delivered
  BY DEF PushPublish, consumerVars
<1>4. Distance(write, read) \in Nat /\ Distance(write, read) < Capacity
  BY CounterFacts, DistanceIsNat, ModulusBounds DEF PushPublish
<1>5. Contents' = Append(Contents, v)
  <2>1. /\ Append(Contents, v) \in Seq(Values)
        /\ Len(Append(Contents, v)) = Len(Contents) + 1
        /\ \A i \in 1 .. Len(Contents) : Append(Contents, v)[i] = Contents[i]
        /\ Append(Contents, v)[Len(Contents) + 1] = v
    BY <1>1, <1>2, AppendProperties
  <2>2. Len(Contents') = Len(Contents) + 1
    BY <1>2, <1>3, PublishAppends
  <2>3. ASSUME NEW i \in 1 .. Len(Contents')
        PROVE  Contents'[i] = Append(Contents, v)[i]
    <3>1. CASE i <= Len(Contents)
      <4>1. i \in 1 .. Len(Contents) /\ i \in 1 .. Distance(write, read) + 1
        BY <3>1, <2>2, <1>2, <1>4
      <4> QED BY <4>1, <2>1, <1>2, PublishAppends
    <3>2. CASE ~(i <= Len(Contents))
      <4>1. i = Len(Contents) + 1 /\ i \in 1 .. Distance(write, read) + 1
        BY <3>2, <2>2, <1>2, <1>4
      <4> QED BY <4>1, <3>2, <2>1, <1>2, PublishAppends
    <3> QED BY <3>1, <3>2
  <2> QED BY <2>1, <2>2, <2>3, <1>2, SeqEqual
<1> QED BY <1>1, <1>2, <1>3, <1>4, <1>5 DEF Fifo!Enqueue

LEMMA ReleaseRefines ==
  ASSUME IInv, IInv', PopRelease
  PROVE  Fifo!Dequeue
<1>1. /\ Contents \in Seq(Values) /\ Len(Contents) = Distance(write, read)
      /\ Contents' \in Seq(Values) /\ Len(Contents') = Distance(write', read')
  BY ContentsIsSequence, ContentsStaysSequence
<1>2. write' = write /\ delivered' = cVal
  BY DEF PopRelease
<1>3. Distance(write, read) \in Nat /\ Distance(write, read) > 0
  BY CounterFacts, DistanceIsNat, ReleaseRemoves
<1>4. Contents # <<>> /\ Head(Contents) = cVal
  BY <1>1, <1>3, EmptySeq, ReleaseRemoves
<1>5. Contents' = Tail(Contents)
  <2>1. /\ Tail(Contents) \in Seq(Values)
        /\ Len(Tail(Contents)) = Len(Contents) - 1
        /\ \A i \in 1 .. Len(Tail(Contents)) : Tail(Contents)[i] = Contents[i + 1]
    BY <1>1, <1>4, HeadTailProperties
  <2>2. Len(Contents') = Len(Contents) - 1
    BY <1>1, <1>2, ReleaseRemoves
  <2>3. \A i \in 1 .. Len(Contents') : Contents'[i] = Contents[i + 1]
    BY <2>2, <1>1, ReleaseRemoves
  <2> QED BY <2>1, <2>2, <2>3, <1>1, SeqEqual
<1> QED BY <1>2, <1>4, <1>5 DEF Fifo!Dequeue

LEMMA ResetRefines ==
  ASSUME IInv', Reset
  PROVE  Fifo!Clear
<1>1. Distance(write, read)' = 0
  BY DEF Reset, Distance
<1>2. Contents' \in Seq(Values) /\ Len(Contents') = 0
  BY <1>1, ContentsStaysSequence
<1>3. Contents' = <<>>
  BY <1>2, EmptySeq
<1> QED BY <1>3 DEF Reset, Fifo!Clear

LEMMA StepRefines == IInv /\ IInv' /\ [Next]_vars => [Fifo!Next]_(Fifo!vars)
<1> SUFFICES ASSUME IInv, IInv', [Next]_vars PROVE [Fifo!Next]_(Fifo!vars)
  OBVIOUS
<1>1. ASSUME UNCHANGED <<storage, write, read, delivered>>
      PROVE  UNCHANGED Fifo!vars
  BY <1>1 DEF Fifo!vars, Contents
<1>2. ASSUME NEW vs \in Batches, PushCall(vs) PROVE UNCHANGED Fifo!vars
  BY <1>1, <1>2 DEF PushCall, consumerVars
<1>3. CASE PushCheck
  BY <1>1, <1>3 DEF PushCheck, consumerVars
<1>4. CASE PushStore
  BY <1>4, StoreStutters DEF PushStore, consumerVars, Fifo!vars
<1>5. CASE PushPublish
  BY <1>5, PublishRefines DEF Fifo!Next
<1>6. ASSUME NEW n \in 1 .. MaxBatch, PopCall(n) PROVE UNCHANGED Fifo!vars
  BY <1>1, <1>6 DEF PopCall
<1>7. CASE PopCheck
  BY <1>1, <1>7 DEF PopCheck
<1>8. CASE PopCopy
  BY <1>1, <1>8 DEF PopCopy
<1>9. CASE PopRelease
  BY <1>9, ReleaseRefines DEF Fifo!Next
<1>10. CASE Reset
  BY <1>10, ResetRefines DEF Fifo!Next
<1>11. CASE UNCHANGED vars
  BY <1>1, <1>11 DEF vars, consumerVars
<1> QED
  BY <1>2, <1>3, <1>4, <1>5, <1>6, <1>7, <1>8, <1>9, <1>10, <1>11
  DEF Next, Producer, Consumer

(* SpscRingBuffer is a bounded FIFO queue for its two threads.             *)
THEOREM Refinement == Spec => ImplementsFifo
<1>1. Init => Fifo!Init
  <2> SUFFICES ASSUME Init PROVE Fifo!Init
    OBVIOUS
  <2>1. IInv /\ Distance(write, read) = 0
    BY InitIInv DEF Init, Distance
  <2>2. Contents = <<>>
    BY <2>1, ContentsIsSequence, EmptySeq
  <2> QED BY <2>2 DEF Init, Fifo!Init
<1> QED BY <1>1, StepRefines, Invariance, PTL DEF Spec, ImplementsFifo, Fifo!Spec
=============================================================================
