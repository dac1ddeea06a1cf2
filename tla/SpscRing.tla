------------------------------ MODULE SpscRing ------------------------------
(***************************************************************************)
(* SpscRingBuffer of include/ubridge/core/realtime_buffer.hpp, one atomic  *)
(* access per step.  The two 64-bit sequence counters wrap at Modulus.     *)
(*                                                                         *)
(* Memory order.  Each counter has one writer, whose own loads (relaxed)   *)
(* are exact.  An acquire load of the other thread's counter may return    *)
(* any value that counter has had since the last one this thread loaded    *)
(* (pSeen, cSeen): Visible.  The release/acquire pairs order the plain     *)
(* slot accesses with the counters, so slots need no staleness of their    *)
(* own as long as the two threads are never in one slot together.          *)
(***************************************************************************)
EXTENDS Naturals, Sequences

CONSTANTS Capacity,  \* template argument: slots in storage_
          Modulus,   \* 2^64 in the code: values of a sequence counter
          Values,    \* payloads
          Nil,       \* an untouched slot, no value popped
          MaxBatch   \* bound: longest span given to one batch call

ASSUME RingAssumption ==
  /\ Capacity \in Nat /\ Capacity > 1
  /\ MaxBatch \in Nat
  /\ Modulus \in Nat
  /\ \E k \in 2 .. Modulus : Modulus = k * Capacity
  /\ Nil \notin Values

VARIABLES
  storage,    \* storage_
  write,      \* write_sequence_, stored by the producer only
  read,       \* read_sequence_, stored by the consumer only
  pPc,        \* producer: "idle", "check", "store" or "publish"
  pArgs,      \* producer: values of the running call not yet accepted
  pSeen,      \* producer: read_sequence_ as it last loaded it
  cPc,        \* consumer: "idle", "check", "copy" or "release"
  cWant,      \* consumer: values the running call may still pop
  cSeen,      \* consumer: write_sequence_ as it last loaded it
  cVal,       \* consumer: the slot it copied
  delivered   \* value of the last completed pop

producerVars == <<pPc, pArgs, pSeen>>
consumerVars == <<cPc, cWant, cSeen, cVal, delivered>>
vars == <<storage, write, read, producerVars, consumerVars>>

Slots == 0 .. Capacity - 1
Counters == 0 .. Modulus - 1

(***************************************************************************)
(* Arithmetic of std::uint64_t: + 1, and subtraction, both modulo Modulus. *)
(***************************************************************************)
SuccUnbounded(s) == s + 1
Succ(s) == IF s = Modulus - 1 THEN 0 ELSE s + 1
Distance(to, from) == IF to >= from THEN to - from ELSE to - from + Modulus
Advance(s, k) == IF s + k < Modulus THEN s + k ELSE s + k - Modulus

Slot(s) == s % Capacity

(* What an acquire load may return of a counter now at "now".              *)
Visible(seen, now) == {Advance(seen, k) : k \in 0 .. Distance(now, seen)}

FullOffByOne(w, r) == Distance(w, r) > Capacity
Full(w, r) == Distance(w, r) >= Capacity
-----------------------------------------------------------------------------
Init ==
  /\ storage = [i \in Slots |-> Nil]
  /\ write = 0 /\ read = 0
  /\ pPc = "idle" /\ pArgs = <<>> /\ pSeen = 0
  /\ cPc = "idle" /\ cWant = 0 /\ cSeen = 0 /\ cVal = Nil
  /\ delivered = Nil

(* try_push(span); try_push(value) is the call with one value.             *)
PushCall(vs) ==
  /\ pPc = "idle"
  /\ pPc' = "check" /\ pArgs' = vs
  /\ UNCHANGED <<storage, write, read, pSeen, consumerVars>>

(* Load both counters; on a full ring the call returns what it has so far. *)
PushCheck ==
  /\ pPc = "check"
  /\ \E r \in Visible(pSeen, read) :
       /\ pSeen' = r
       /\ \/ Full(write, r) /\ pPc' = "idle" /\ pArgs' = <<>>
          \/ ~Full(write, r) /\ pPc' = "store" /\ UNCHANGED pArgs
  /\ UNCHANGED <<storage, write, read, consumerVars>>

PushStore ==
  /\ pPc = "store"
  /\ storage' = [storage EXCEPT ![Slot(write)] = Head(pArgs)]
  /\ pPc' = "publish"
  /\ UNCHANGED <<write, read, pArgs, pSeen, consumerVars>>

PushPublish ==
  /\ pPc = "publish"
  /\ write' = Succ(write)
  /\ pArgs' = Tail(pArgs)
  /\ pPc' = IF Tail(pArgs) = <<>> THEN "idle" ELSE "check"
  /\ UNCHANGED <<storage, read, pSeen, consumerVars>>

(* try_pop(span of n); try_pop(value) is the call with n = 1.              *)
PopCall(n) ==
  /\ cPc = "idle"
  /\ cPc' = "check" /\ cWant' = n
  /\ UNCHANGED <<storage, write, read, cSeen, cVal, delivered, producerVars>>

PopCheckSpins ==
  /\ cPc = "check"
  /\ \E w \in Visible(cSeen, write) :
       /\ cSeen' = w
       /\ cPc' = IF read = w THEN "check" ELSE "copy"
  /\ UNCHANGED <<storage, write, read, cWant, cVal, delivered, producerVars>>

PopCheck ==
  /\ cPc = "check"
  /\ \E w \in Visible(cSeen, write) :
       /\ cSeen' = w
       /\ \/ read = w /\ cPc' = "idle" /\ cWant' = 0
          \/ read # w /\ cPc' = "copy" /\ UNCHANGED cWant
  /\ UNCHANGED <<storage, write, read, cVal, delivered, producerVars>>

PopCopy ==
  /\ cPc = "copy"
  /\ cVal' = storage[Slot(read)]
  /\ cPc' = "release"
  /\ UNCHANGED <<storage, write, read, cWant, cSeen, delivered, producerVars>>

PopRelease ==
  /\ cPc = "release"
  /\ read' = Succ(read)
  /\ delivered' = cVal
  /\ cWant' = cWant - 1
  /\ cPc' = IF cWant = 1 THEN "idle" ELSE "check"
  /\ UNCHANGED <<storage, write, cSeen, cVal, producerVars>>

(* reset(), under its stated condition: both threads are stopped.          *)
ResetReadOnly ==
  /\ pPc = "idle" /\ cPc = "idle"
  /\ read' = 0 /\ pSeen' = 0 /\ cSeen' = 0
  /\ UNCHANGED <<storage, write, pPc, pArgs, cPc, cWant, cVal, delivered>>

Reset ==
  /\ pPc = "idle" /\ cPc = "idle"
  /\ read' = 0 /\ write' = 0
  /\ pSeen' = 0 /\ cSeen' = 0
  /\ UNCHANGED <<storage, pPc, pArgs, cPc, cWant, cVal, delivered>>

Batches == UNION {[1 .. n -> Values] : n \in 1 .. MaxBatch}

Producer == \/ \E vs \in Batches : PushCall(vs)
            \/ PushCheck \/ PushStore \/ PushPublish
Consumer == \/ \E n \in 1 .. MaxBatch : PopCall(n)
            \/ PopCheck \/ PopCopy \/ PopRelease
Next == Producer \/ Consumer \/ Reset

Spec == Init /\ [][Next]_vars

(* A thread that is inside a call keeps running.                           *)
ProducerRuns == WF_vars(PushCheck \/ PushStore \/ PushPublish)
ConsumerRuns == WF_vars(PopCheck \/ PopCopy \/ PopRelease)
-----------------------------------------------------------------------------
TypeOK ==
  /\ storage \in [Slots -> Values \cup {Nil}]
  /\ write \in Counters /\ read \in Counters
  /\ pPc \in {"idle", "check", "store", "publish"}
  /\ pArgs \in Seq(Values)
  /\ pSeen \in Counters
  /\ cPc \in {"idle", "check", "copy", "release"}
  /\ cWant \in 0 .. MaxBatch
  /\ cSeen \in Counters
  /\ cVal \in Values \cup {Nil}
  /\ delivered \in Values \cup {Nil}

(* Both threads are never in the same slot: the plain reads and writes of  *)
(* storage_ do not race although no lock protects them.                    *)
NoDataRace ==
  ~(pPc = "store" /\ cPc = "copy" /\ Slot(write) = Slot(read))

(* A pop never hands out a slot that no push has filled, and the copy it   *)
(* took is still the slot's content when it gives the slot back.           *)
CopyStable ==
  cPc = "release" => cVal \in Values /\ cVal = storage[Slot(read)]

(* What each thread believes of the other is stale only in the safe        *)
(* direction: the producer never sees more room, nor the consumer more     *)
(* values, than there really is.                                           *)
StaleIsSafe ==
  /\ Distance(write, read) + Distance(read, pSeen) = Distance(write, pSeen)
  /\ Distance(write, cSeen) + Distance(cSeen, read) = Distance(write, read)
  /\ Distance(write, pSeen) <= Capacity

(* Values in the ring, oldest first.                                       *)
Contents == [i \in 1 .. Distance(write, read) |->
               storage[Slot(Advance(read, i - 1))]]

(* The inductive invariant: between their check and their store or release *)
(* the threads still hold the room or the value they saw, and every slot   *)
(* between the counters holds an accepted value.                           *)
RoomHeld == pPc \in {"store", "publish"} => ~Full(write, pSeen)
ValueHeld == cPc \in {"copy", "release"} => cSeen # read
StoredPending == pPc = "publish" => storage[Slot(write)] = Head(pArgs)
CallShape == /\ pPc # "idle" <=> pArgs # <<>>
             /\ cPc # "idle" <=> cWant # 0
Filled == \A i \in 1 .. Distance(write, read) : Contents[i] \in Values

Inv == /\ StaleIsSafe /\ RoomHeld /\ ValueHeld
       /\ StoredPending /\ CallShape /\ Filled /\ CopyStable

(* The ring implements a bounded FIFO queue: nothing accepted is lost,     *)
(* repeated or reordered, at any interleaving and across counter wrap.     *)
Fifo == INSTANCE BoundedFifo WITH queue <- Contents
ImplementsFifo == Fifo!Spec

(* push and pop never wait for each other: a call returns if its own       *)
(* thread runs, even when the other thread stops for good in the middle of *)
(* one of its own.                                                         *)
CallsReturn == /\ ProducerRuns => (pPc # "idle" ~> pPc = "idle")
               /\ ConsumerRuns => (cPc # "idle" ~> cPc = "idle")
=============================================================================
