------------------------ MODULE HardwareBackendsProofs ------------------------
(***************************************************************************)
(* The two backends of hardware_backends.cpp.                              *)
(*                                                                         *)
(* AudioCapture, for every queue capacity, packet size, number of channels,*)
(* captures and packets: the types, the accounting and the order hold.     *)
(* The three are inductive together: order needs the accounting to know    *)
(* that a pushed sample comes after all that is queued, and both need the  *)
(* types to know that no packet is in hand when a capture ends.            *)
(*                                                                         *)
(* MidiBackend, for every number of processes, instruments, clock pulses   *)
(* and mishaps: no instrument is left sounding or rolling, and a callback  *)
(* has its input.  The invariant says what a process has at each stage of  *)
(* its command, that an output has one owner, and that whatever sounds or  *)
(* rolls has an owner at the stage before the one that ends it.            *)
(***************************************************************************)
EXTENDS AudioCapture, MidiBackend, SequenceTheorems, TLAPS

Inv == TypeOK /\ SamplesAccounted /\ QueueIsTheStream
Kind == Nat \X (Nat \ {0})

(* A whole packet is worth as many samples as its frames have channels.    *)
LEMMA PacketCounted ==
  ASSUME NEW f \in Nat
  PROVE  /\ PacketSamples \in Nat
         /\ f * Channels \in Nat
         /\ (f + Frames) * Channels = f * Channels + PacketSamples
BY CaptureAssumption, SMT DEF PacketSamples

(* What the types say of the queue and of the sum that it is held against. *)
QueueTyped ==
  /\ samples_ \in Seq(Kind)
  /\ Len(samples_) \in Nat /\ Len(samples_) <= Capacity
  /\ DOMAIN samples_ = 1 .. Len(samples_)
  /\ \A i \in 1 .. Len(samples_) : samples_[i] \in Kind /\ samples_[i][2] \in Nat
  /\ Delivered \in Nat
  /\ samples_read \in Nat /\ samples_dropped \in Nat

LEMMA QueueFacts == TypeOK => QueueTyped
<1> SUFFICES ASSUME TypeOK PROVE QueueTyped
  OBVIOUS
<1>1. samples_ \in Seq(Kind) /\ Len(samples_) <= Capacity
  BY DEF TypeOK, Kind
<1>2. /\ Len(samples_) \in Nat /\ DOMAIN samples_ = 1 .. Len(samples_)
      /\ \A i \in 1 .. Len(samples_) : samples_[i] \in Kind
  BY <1>1, LenProperties
<1>3. \A i \in 1 .. Len(samples_) : samples_[i][2] \in Nat
  BY <1>2 DEF Kind
<1>4. Delivered \in Nat
  <2>1. frames_captured \in Nat /\ index \in Nat
    BY DEF TypeOK
  <2>2. frames_captured * Channels \in Nat
    BY <2>1, PacketCounted
  <2> QED
    BY <2>1, <2>2 DEF Delivered
<1> QED
  BY <1>1, <1>2, <1>3, <1>4 DEF TypeOK, QueueTyped

(* Reading takes a prefix of the queue and adds its length to what was     *)
(* read: what remains keeps its place in the device's stream.              *)
LEMMA ReadKeepsInv == Inv /\ ReadCapture => Inv'
<1> SUFFICES ASSUME Inv, ReadCapture PROVE Inv'
  OBVIOUS
<1>0. QueueTyped
  BY QueueFacts DEF Inv
<1>1. PICK taken \in Nat :
        /\ taken <= Len(samples_)
        /\ samples_' = SubSeq(samples_, taken + 1, Len(samples_))
        /\ samples_read' = samples_read + taken
  <2>1. Len(samples_) \in Nat
    BY <1>0 DEF QueueTyped
  <2>2. PICK size \in 1 .. Batch :
          LET taken == IF size < Len(samples_) THEN size ELSE Len(samples_) IN
          /\ samples_' = SubSeq(samples_, taken + 1, Len(samples_))
          /\ samples_read' = samples_read + taken
    BY DEF ReadCapture
  <2>3. size \in Nat
    BY CaptureAssumption
  <2>4. CASE size < Len(samples_)
    BY <2>1, <2>2, <2>3, <2>4
  <2>5. CASE ~ (size < Len(samples_))
    BY <2>1, <2>2, <2>5
  <2> QED
    BY <2>4, <2>5
<1>2. /\ samples_' \in Seq(Kind)
      /\ Len(samples_') = Len(samples_) - taken
      /\ \A i \in 1 .. Len(samples_') : samples_'[i] = samples_[i + taken]
  <2>1. \A i \in taken + 1 .. Len(samples_) : samples_[i] \in Kind
    BY <1>1, <1>0 DEF QueueTyped
  <2>2. /\ samples_' \in Seq(Kind)
        /\ Len(samples_') = IF taken + 1 <= Len(samples_) THEN Len(samples_) - (taken + 1) + 1 ELSE 0
        /\ \A i \in 1 .. Len(samples_) - (taken + 1) + 1 : samples_'[i] = samples_[taken + 1 + i - 1]
    BY <1>1, <2>1, <1>0, SubSeqProperties DEF QueueTyped
  <2>3. Len(samples_') = Len(samples_) - taken
    BY <1>1, <2>2, <1>0 DEF QueueTyped
  <2>4. Len(samples_) \in Nat
    BY <1>0 DEF QueueTyped
  <2>5. ASSUME NEW i \in 1 .. Len(samples_') PROVE samples_'[i] = samples_[i + taken]
    <3>1. i \in 1 .. Len(samples_) - (taken + 1) + 1
      BY <1>1, <2>3, <2>4
    <3>2. taken + 1 + i - 1 = i + taken
      BY <1>1, <3>1
    <3> QED
      BY <2>2, <3>1, <3>2
  <2> QED
    BY <2>2, <2>3, <2>5
<1>3. DOMAIN samples_' = 1 .. Len(samples_')
  BY <1>2, LenProperties
<1>4. Delivered' = Delivered /\ samples_dropped' = samples_dropped /\ run' = run
  BY DEF ReadCapture, counters, workerVars, Delivered
<1>5. TypeOK'
  <2>1. samples_read' \in Nat /\ Len(samples_') <= Capacity
    <3>1. Len(samples_) \in Nat /\ Len(samples_) <= Capacity /\ samples_read \in Nat /\ Capacity \in Nat
      BY <1>0, CaptureAssumption DEF QueueTyped
    <3>2. Len(samples_') = Len(samples_) - taken /\ samples_read' = samples_read + taken
      BY <1>1, <1>2
    <3> QED
      BY <3>1, <3>2
  <2> QED
    BY <1>2, <2>1 DEF Inv, TypeOK, ReadCapture, counters, workerVars, PacketSamples, Kind
<1>6. SamplesAccounted'
  <2>1. /\ Len(samples_) \in Nat /\ samples_read \in Nat /\ samples_dropped \in Nat
        /\ Delivered = samples_read + Len(samples_) + samples_dropped
    BY <1>0 DEF QueueTyped, Inv, SamplesAccounted
  <2>2. Delivered = (samples_read + taken) + (Len(samples_) - taken) + samples_dropped
    BY <2>1, <1>1
  <2> QED
    BY <1>1, <1>2, <1>4, <2>2 DEF SamplesAccounted
<1>7. QueueIsTheStream'
  <2>1. \A i \in 1 .. Len(samples_') : i + taken \in 1 .. Len(samples_)
    <3>1. Len(samples_) \in Nat
      BY <1>0 DEF QueueTyped
    <3> QED
      BY <1>1, <1>2, <3>1
  <2>2. ASSUME NEW i \in DOMAIN samples_'
        PROVE  /\ samples_'[i][1] = run'
               /\ samples_'[i][2] >= samples_read' + i /\ samples_'[i][2] <= Delivered'
               /\ samples_dropped' = 0 => samples_'[i][2] = samples_read' + i
    <3>1. /\ samples_[i + taken][1] = run
          /\ samples_[i + taken][2] >= samples_read + (i + taken)
          /\ samples_[i + taken][2] <= Delivered
          /\ samples_dropped = 0 => samples_[i + taken][2] = samples_read + (i + taken)
      <4>1. i + taken \in DOMAIN samples_
        BY <1>3, <2>1, <1>0 DEF QueueTyped
      <4> QED
        BY <4>1 DEF Inv, QueueIsTheStream
    <3>2. samples_read + (i + taken) = samples_read' + i
      <4>1. samples_read \in Nat /\ samples_read' = samples_read + taken
        BY <1>0, <1>1 DEF QueueTyped
      <4>2. i \in Int
        BY <1>3
      <4> QED
        BY <4>1, <4>2
    <3>3. samples_'[i] = samples_[i + taken]
      BY <1>2, <1>3
    <3> QED
      BY <1>4, <3>1, <3>2, <3>3
  <2>3. ASSUME NEW i \in DOMAIN samples_', NEW j \in DOMAIN samples_', i < j
        PROVE  samples_'[i][2] < samples_'[j][2]
    <3>1. /\ i + taken \in DOMAIN samples_ /\ j + taken \in DOMAIN samples_
          /\ samples_'[i] = samples_[i + taken] /\ samples_'[j] = samples_[j + taken]
      BY <1>0, <1>2, <1>3, <2>1 DEF QueueTyped
    <3>2. i + taken < j + taken
      BY <1>1, <1>2, <1>3, <2>3
    <3> QED
      BY <3>1, <3>2 DEF Inv, QueueIsTheStream
  <2> QED
    BY <2>2, <2>3 DEF QueueIsTheStream
<1> QED
  BY <1>5, <1>6, <1>7 DEF Inv

(* A pushed sample is the next of the stream: by the accounting that is    *)
(* behind all that is queued, and right behind it if none was dropped.     *)
LEMMA PushKeepsInv == Inv /\ PushSample => Inv'
<1> SUFFICES ASSUME Inv, PushSample PROVE Inv'
  OBVIOUS
<1>0. QueueTyped
  BY QueueFacts DEF Inv
<1>1. /\ worker = "pushing" /\ index \in Nat /\ index + 1 \in 0 .. PacketSamples
      /\ index' = index + 1 /\ Delivered' = Delivered + 1
  <2>1. worker = "pushing" /\ index < PacketSamples /\ index' = index + 1 /\ frames_captured' = frames_captured
    BY DEF PushSample
  <2>2. PacketSamples \in Nat /\ frames_captured \in Nat /\ index \in 0 .. PacketSamples
    BY PacketCounted DEF Inv, TypeOK
  <2>3. frames_captured * Channels \in Nat
    BY <2>2, PacketCounted
  <2>4. Delivered' = frames_captured * Channels + (index + 1)
    BY <2>1 DEF Delivered
  <2> QED
    BY <2>1, <2>2, <2>3, <2>4 DEF Delivered
<1>2. CASE Len(samples_) < Capacity /\ samples_' = Append(samples_, Sample) /\ UNCHANGED samples_dropped
  <2>1. Sample \in Kind /\ Sample[1] = run /\ Sample[2] = Delivered + 1
    <3>1. run \in Nat /\ Delivered + 1 \in Nat \ {0}
      BY <1>0 DEF QueueTyped, Inv, TypeOK
    <3> QED
      BY <3>1 DEF Sample, Kind
  <2>2. /\ samples_' \in Seq(Kind) /\ Len(samples_') = Len(samples_) + 1
        /\ \A i \in 1 .. Len(samples_) : samples_'[i] = samples_[i]
        /\ samples_'[Len(samples_) + 1] = Sample
        /\ DOMAIN samples_' = 1 .. Len(samples_) + 1
    BY <1>2, <2>1, <1>0, AppendProperties, LenProperties DEF QueueTyped
  <2>3. TypeOK'
    <3>1. Len(samples_') <= Capacity
      BY <1>2, <2>2, <1>0, CaptureAssumption DEF QueueTyped
    <3> QED
      BY <1>1, <1>2, <2>2, <3>1 DEF Inv, TypeOK, PushSample, ownerVars, PacketSamples, Kind
  <2>4. samples_read' = samples_read /\ run' = run
    BY DEF PushSample, ownerVars
  <2>5. SamplesAccounted'
    BY <1>1, <1>2, <2>2, <2>4, <1>0 DEF QueueTyped, Inv, SamplesAccounted
  <2>6. \A i \in DOMAIN samples_' : i \in DOMAIN samples_ \/ i = Len(samples_) + 1
    BY <2>2, <1>0 DEF QueueTyped
  <2>7. QueueIsTheStream'
    <3>1. Delivered + 1 = samples_read + Len(samples_) + samples_dropped + 1
      BY <1>0 DEF QueueTyped, Inv, SamplesAccounted
    <3>2. ASSUME NEW i \in DOMAIN samples_'
          PROVE  /\ samples_'[i][1] = run'
                 /\ samples_'[i][2] >= samples_read' + i /\ samples_'[i][2] <= Delivered'
                 /\ samples_dropped' = 0 => samples_'[i][2] = samples_read' + i
      <4>1. CASE i \in DOMAIN samples_
        BY <1>1, <1>2, <2>2, <2>4, <4>1, <1>0 DEF QueueTyped, Inv, QueueIsTheStream
      <4>2. CASE i = Len(samples_) + 1
        BY <1>1, <1>2, <2>1, <2>2, <2>4, <3>1, <4>2, <1>0 DEF QueueTyped
      <4> QED
        BY <2>6, <4>1, <4>2
    <3>3. ASSUME NEW i \in DOMAIN samples_', NEW j \in DOMAIN samples_', i < j
          PROVE  samples_'[i][2] < samples_'[j][2]
      <4>1. i \in DOMAIN samples_
        BY <2>2, <3>3, <1>0 DEF QueueTyped
      <4>2. CASE j \in DOMAIN samples_
        BY <2>2, <3>3, <4>1, <4>2, <1>0 DEF QueueTyped, Inv, QueueIsTheStream
      <4>3. CASE j = Len(samples_) + 1
        BY <2>1, <2>2, <4>1, <4>3, <1>0 DEF QueueTyped, Inv, QueueIsTheStream
      <4> QED
        BY <2>6, <4>2, <4>3
    <3> QED
      BY <3>2, <3>3 DEF QueueIsTheStream
  <2> QED
    BY <2>3, <2>5, <2>7 DEF Inv
<1>3. CASE samples_dropped' = samples_dropped + 1 /\ UNCHANGED samples_
  <2>1. samples_read' = samples_read /\ run' = run /\ samples_' = samples_
    BY <1>3 DEF PushSample, ownerVars
  <2>2. TypeOK'
    BY <1>1, <1>3 DEF Inv, TypeOK, PushSample, ownerVars, PacketSamples
  <2>3. SamplesAccounted'
    BY <1>1, <1>3, <2>1, <1>0 DEF QueueTyped, Inv, SamplesAccounted
  <2>4. QueueIsTheStream'
    <3>1. samples_dropped' # 0
      BY <1>3, <1>0 DEF QueueTyped
    <3>2. \A i \in DOMAIN samples_ : samples_[i][2] <= Delivered'
      BY <1>1, <1>0 DEF QueueTyped, Inv, QueueIsTheStream
    <3> QED
      BY <2>1, <3>1, <3>2 DEF Inv, QueueIsTheStream
  <2> QED
    BY <2>2, <2>3, <2>4 DEF Inv
<1> QED
  BY <1>2, <1>3 DEF PushSample

(* No other step moves a sample: they keep the queue and every term of the *)
(* accounting, or, at the end of a packet, move its samples between two.   *)
LEMMA CountKeepsInv == Inv /\ CountFrames => Inv'
<1> SUFFICES ASSUME Inv, CountFrames PROVE Inv'
  OBVIOUS
<1>1. Delivered' = Delivered
  BY PacketCounted DEF Inv, TypeOK, CountFrames, Delivered
<1>2. TypeOK'
  BY CaptureAssumption, PacketCounted DEF Inv, TypeOK, CountFrames, ownerVars, PacketSamples
<1> QED
  BY <1>1, <1>2 DEF Inv, CountFrames, ownerVars, SamplesAccounted, QueueIsTheStream

(* A new capture starts with nothing in hand, since the join left no       *)
(* worker, and with nothing queued, read or dropped.                       *)
LEMMA LaunchKeepsInv == Inv /\ ResetAndLaunch => Inv'
<1> SUFFICES ASSUME Inv, ResetAndLaunch PROVE Inv'
  OBVIOUS
<1>1. samples_' = << >> /\ Delivered' = 0 /\ samples_read' = 0 /\ samples_dropped' = 0
  <2>1. owner = "resetting" /\ worker # "pushing" /\ index' = index
    BY DEF ResetAndLaunch, Inv, TypeOK
  <2>2. index = 0
    BY <2>1 DEF Inv, TypeOK
  <2>3. 0 * Channels = 0
    BY CaptureAssumption
  <2> QED
    BY <2>1, <2>2, <2>3 DEF ResetAndLaunch, Cleared, Delivered
<1>2. TypeOK'
  <2>1. samples_' \in Seq(Nat \X (Nat \ {0})) /\ Len(samples_') <= Capacity
    BY <1>1, CaptureAssumption
  <2>2. index' \in 0 .. PacketSamples /\ index' = 0
    BY DEF Inv, TypeOK, ResetAndLaunch
  <2>3. run' \in Nat /\ after' \in {"idle", "resetting"}
    BY DEF Inv, TypeOK, ResetAndLaunch
  <2>4. /\ owner' = "polling" /\ worker' = "opening" /\ capture_state' = "starting"
        /\ stop_requested' = FALSE
        /\ frames_captured' = 0 /\ samples_dropped' = 0 /\ discontinuities' = 0
        /\ samples_read' = 0
    BY DEF ResetAndLaunch, Cleared
  <2>5. capture_state' \in AudioCaptureState
    BY <2>4 DEF AudioCaptureState
  <2>6. index' \in 0 .. PacketSamples'
    BY <2>2 DEF PacketSamples
  <2> QED
    BY <2>1, <2>2, <2>3, <2>4, <2>5, <2>6 DEF TypeOK, AudioCaptureState
<1>3. Len(samples_') = 0 /\ DOMAIN samples_' = {}
  BY <1>1
<1> QED
  BY <1>1, <1>2, <1>3 DEF Inv, SamplesAccounted, QueueIsTheStream

LEMMA ControlKeepsInv ==
  ASSUME Inv,
         \/ Stop \/ BeginCapture \/ Join \/ PollStart \/ DecideStart
         \/ Open \/ CheckSampleSize \/ CheckStop \/ Wait \/ GetBuffer \/ ReleaseBuffer \/ Cleanup
  PROVE  Inv'
<1> USE DEF Inv, TypeOK, PacketSamples, AudioCaptureState, Failures
<1>1. /\ samples_' = samples_ /\ run' = run /\ index' = index
      /\ samples_read' = samples_read /\ samples_dropped' = samples_dropped
      /\ frames_captured' = frames_captured
  BY DEF Stop, StopCapture, BeginCapture, Join, PollStart, DecideStart, Open, CheckSampleSize,
         CheckStop, Wait, GetBuffer, ReleaseBuffer, Cleanup, NextPacket, Fail, WorkerRest,
         ownerVars, workerVars, counters
<1>2. CASE Stop \/ BeginCapture
  BY <1>2 DEF Stop, BeginCapture, StopCapture, ownerVars, workerVars, counters, Delivered,
              SamplesAccounted, QueueIsTheStream
<1>3. CASE Join
  BY <1>3 DEF Join, ownerVars, workerVars, counters, Delivered, SamplesAccounted, QueueIsTheStream
<1>4. CASE PollStart \/ DecideStart
  BY <1>4 DEF PollStart, DecideStart, StopCapture, ownerVars, workerVars, counters, Delivered,
              SamplesAccounted, QueueIsTheStream
<1>5. CASE Open \/ CheckSampleSize \/ CheckStop \/ Wait \/ ReleaseBuffer \/ Cleanup
  <2>1. TypeOK'
    BY <1>1, <1>5 DEF Open, CheckSampleSize, CheckStop, Wait, ReleaseBuffer, Cleanup, NextPacket,
                      Fail, WorkerRest, ownerVars, counters
  <2> QED
    BY <1>1, <2>1 DEF Delivered, SamplesAccounted, QueueIsTheStream
<1>6. CASE GetBuffer
  <2>1. TypeOK'
    BY <1>1, <1>6 DEF GetBuffer, Fail, ownerVars
  <2> QED
    BY <1>1, <2>1 DEF Delivered, SamplesAccounted, QueueIsTheStream
<1> QED
  BY <1>2, <1>3, <1>4, <1>5, <1>6

LEMMA InitInv == Init => Inv
<1> SUFFICES ASSUME Init PROVE Inv
  OBVIOUS
<1>1. Delivered = 0 /\ Len(samples_) = 0 /\ DOMAIN samples_ = {}
  BY CaptureAssumption DEF Init, Delivered
<1>2. samples_ \in Seq(Nat \X (Nat \ {0})) /\ Len(samples_) <= Capacity
  BY <1>1, CaptureAssumption DEF Init
<1>3. index \in 0 .. PacketSamples
  BY PacketCounted DEF Init
<1>4. TypeOK
  BY <1>2, <1>3 DEF Init, TypeOK, AudioCaptureState
<1> QED
  BY <1>1, <1>4 DEF Init, Inv, SamplesAccounted, QueueIsTheStream

(* The three invariants hold in every reachable state.                     *)
THEOREM Invariance == Spec => []Inv
<1>1. Inv /\ [Next]_vars => Inv'
  <2> SUFFICES ASSUME Inv, [Next]_vars PROVE Inv'
    OBVIOUS
  <2>1. CASE UNCHANGED vars
    BY <2>1 DEF Inv, TypeOK, SamplesAccounted, QueueIsTheStream, Delivered, PacketSamples, vars,
                ownerVars, workerVars, counters
  <2> QED
    BY <2>1, ReadKeepsInv, PushKeepsInv, CountKeepsInv, LaunchKeepsInv, ControlKeepsInv DEF Next
<1> QED
  BY <1>1, InitInv, PTL DEF Spec

(* Types, and the states in which a worker exists: the owner never resets  *)
(* the queue while one does.                                               *)
THEOREM TypeCorrect == Spec => []TypeOK
BY Invariance, PTL DEF Inv

(* No sample of a capture is lost from the report, whatever fails in it.   *)
THEOREM Accounted == Spec => []SamplesAccounted
BY Invariance, PTL DEF Inv

(* What is read is this capture's stream, gapless until the first drop.    *)
THEOREM InStreamOrder == Spec => []QueueIsTheStream
BY Invariance, PTL DEF Inv
-----------------------------------------------------------------------------
USE MidiAssumption

(* The states of a process that runs one of the three commands.            *)
Stages == {"idle", "found", "first", "pulses", "last", "closing", "monitoring"}
ProcessState ==
  [pc : Stages, command : Commands, port : Nat, handle : Instruments \cup {None, Dead},
   pulse : Nat, ok : BOOLEAN, flows : BOOLEAN, input : BOOLEAN]
MidiTypes ==
  /\ ports \in Seq(Instruments)
  /\ process \in [Processes -> ProcessState]
  /\ calling \subseteq Processes

(* What a process has and does at each stage of its command.               *)
Proper(s) ==
  /\ s.pc \in {"idle", "found"} => s.handle = None /\ s.pulse = 0
  /\ s.pc \in {"first", "closing"} => s.command # "monitor"
  /\ s.pc = "last" => s.command = "note"
  /\ s.pc = "pulses" => s.command = "transport"
  /\ s.pc = "monitoring" => s.command = "monitor" /\ s.pulse \in 0 .. 3 /\ s.input
  /\ s.flows => s.pc = "monitoring" /\ s.pulse = 0
(* WinMM may be in a callback: the port of the input is not closed yet.    *)
Callable(s) == s.pc = "monitoring" /\ s.pulse # 3

Staged == \A p \in Processes : Proper(process[p])
CallsIn == \A p \in calling : Callable(process[p])

(* An output has one owner.                                                *)
Owns(p, d) == process[p].handle = d /\ process[p].command # "monitor"
OneOwner == \A p, q \in Processes, d \in Instruments : Owns(p, d) /\ Owns(q, d) => p = q

(* What sounds or rolls has an owner that is about to end it.              *)
Ending(p, d, pc) == process[p].handle = d /\ process[p].pc = pc
Attended ==
  \A d \in Instruments \ excused :
    /\ d \in sounding => \E p \in Processes : Ending(p, d, "last")
    /\ d \in rolling => \E p \in Processes : Ending(p, d, "pulses")

(* The invariant; what the steps of one process do to all but Attended.    *)
LinkInv == MidiTypes /\ Staged /\ CallsIn /\ OneOwner
MidiInv == LinkInv /\ Attended

(* A process that ended, or has not begun, holds nothing.                  *)
LEMMA IdleIsProper == Idle \in ProcessState /\ Proper(Idle)
  BY DEF Idle, ProcessState, Stages, Commands, Proper

(* A step of one process, from what becomes of that process alone.         *)
LEMMA ProcessSteps ==
  ASSUME LinkInv, NEW p \in Processes, NEW s \in ProcessState,
         process' = [process EXCEPT ![p] = s], ports' = ports, calling' \subseteq calling,
         Proper(s), p \in calling' => Callable(s),
         \/ s.handle \notin Instruments \/ s.command = "monitor"
         \/ s.handle = process[p].handle /\ process[p].command # "monitor"
         \/ \A q \in Processes : ~Owns(q, s.handle)
  PROVE  LinkInv'
<1>1. \A q \in Processes : process'[q] = IF q = p THEN s ELSE process[q]
  BY DEF LinkInv, MidiTypes
<1>2. MidiTypes'
  BY <1>1 DEF LinkInv, MidiTypes
<1>3. Staged'
  BY <1>1 DEF LinkInv, Staged, Proper
<1>4. CallsIn'
  BY <1>1 DEF LinkInv, MidiTypes, CallsIn, Callable
<1>5. OneOwner'
  BY <1>1 DEF LinkInv, OneOwner, Owns
<1>6. QED
  BY <1>2, <1>3, <1>4, <1>5 DEF LinkInv

(* The instruments stay attended while it ends none by itself.             *)
LEMMA StaysAttended ==
  ASSUME MidiInv, NEW p \in Processes, NEW s \in ProcessState,
         process' = [process EXCEPT ![p] = s],
         sounding' \subseteq sounding, rolling' \subseteq rolling, excused \subseteq excused',
         \/ process[p].pc \notin {"last", "pulses"}
         \/ process[p].handle = s.handle /\ process[p].pc = s.pc
         \/ process[p].handle \in excused'
         \/ process[p].handle \notin Instruments
  PROVE  Attended'
<1>1. \A q \in Processes : process'[q] = IF q = p THEN s ELSE process[q]
  BY DEF MidiInv, LinkInv, MidiTypes
<1>2. QED
  BY <1>1 DEF MidiInv, Attended, Ending

(* Finding an endpoint takes nothing yet.                                  *)
LEMMA FindKeeps ==
  ASSUME MidiInv, NEW p \in Processes, NEW c \in Commands, NEW w \in Instruments, Find(p, c, w)
  PROVE  MidiInv'
<1>1. PICK i \in DOMAIN ports :
         process' = [process EXCEPT ![p] = [@ EXCEPT !.pc = "found", !.command = c, !.port = i]]
  BY Zenon DEF Find
<1> DEFINE s == [process[p] EXCEPT !.pc = "found", !.command = c, !.port = i]
<1>2. process[p] \in ProcessState /\ Proper(process[p]) /\ process[p].pc = "idle" /\ i \in Nat
  BY DEF MidiInv, LinkInv, MidiTypes, Staged, Find, At
<1>3. s \in ProcessState /\ Proper(s) /\ s.handle \notin Instruments
  BY <1>2 DEF ProcessState, Stages, Proper
<1>4. process' = [process EXCEPT ![p] = s]
  BY <1>1
<1>5. p \notin calling
  BY <1>2 DEF MidiInv, LinkInv, CallsIn, Callable
<1> HIDE DEF s
<1>6. LinkInv'
  BY <1>3, <1>4, <1>5, ProcessSteps DEF Find, LinkRest, MidiInv
<1>7. Attended'
  BY <1>2, <1>3, <1>4, StaysAttended DEF Find, LinkRest
<1>8. QED
  BY <1>6, <1>7 DEF MidiInv

(* A port that cannot be opened ends the command.                          *)
LEMMA OpenFailsKeeps ==
  ASSUME MidiInv, NEW p \in Processes, OpenFails(p)
  PROVE  MidiInv'
<1>1. process' = [process EXCEPT ![p] = Idle] /\ process[p].pc = "found"
  BY DEF OpenFails, Ends, At
<1>2. Idle.handle \notin Instruments
  BY DEF Idle
<1>3. p \notin calling
  BY <1>1 DEF MidiInv, LinkInv, CallsIn, Callable
<1>4. LinkInv'
  BY <1>1, <1>2, <1>3, IdleIsProper, ProcessSteps DEF OpenFails, LinkRest, MidiInv
<1>5. Attended'
  BY <1>1, IdleIsProper, StaysAttended DEF OpenFails, LinkRest
<1>6. QED
  BY <1>4, <1>5 DEF MidiInv

(* The system gives an output to one process at a time.                    *)
LEMMA OpenOutputKeeps ==
  ASSUME MidiInv, NEW p \in Processes, OpenOutput(p)
  PROVE  MidiInv'
<1> DEFINE s == [process[p] EXCEPT !.pc = "first", !.handle = ports[process[p].port]]
<1>1. process[p] \in ProcessState /\ Proper(process[p]) /\ process[p].pc = "found"
  BY DEF MidiInv, LinkInv, MidiTypes, Staged, OpenOutput, At
<1>2. ports[process[p].port] \in Instruments
  BY <1>1 DEF MidiInv, LinkInv, MidiTypes, OpenOutput, CanOpen, ProcessState
<1>3. s \in ProcessState /\ Proper(s) /\ s.handle = ports[process[p].port]
  BY <1>1, <1>2 DEF ProcessState, Stages, Proper, OpenOutput
<1>4. process' = [process EXCEPT ![p] = s]
  BY DEF OpenOutput
<1>5. p \notin calling
  BY <1>1 DEF MidiInv, LinkInv, CallsIn, Callable
<1>6. \A q \in Processes : ~Owns(q, s.handle)
  BY <1>3 DEF OpenOutput, CanOpen, Busy, Owns
<1> HIDE DEF s
<1>7. LinkInv'
  BY <1>3, <1>4, <1>5, <1>6, ProcessSteps DEF OpenOutput, LinkRest, MidiInv
<1>8. Attended'
  BY <1>1, <1>3, <1>4, StaysAttended DEF OpenOutput, LinkRest
<1>9. QED
  BY <1>7, <1>8 DEF MidiInv

(* The input exists before its port is opened.                             *)
LEMMA OpenInputKeeps ==
  ASSUME MidiInv, NEW p \in Processes, OpenInput(p)
  PROVE  MidiInv'
<1> DEFINE s == [process[p] EXCEPT !.pc = "monitoring", !.input = TRUE, !.flows = TRUE,
                                   !.handle = ports[process[p].port]]
<1>1. process[p] \in ProcessState /\ Proper(process[p]) /\ process[p].pc = "found"
  BY DEF MidiInv, LinkInv, MidiTypes, Staged, OpenInput, At
<1>2. ports[process[p].port] \in Instruments
  BY <1>1 DEF MidiInv, LinkInv, MidiTypes, OpenInput, CanOpen, ProcessState
<1>3. s \in ProcessState /\ Proper(s) /\ s.command = "monitor" /\ Callable(s)
  <2>1. s \in ProcessState
    BY <1>1, <1>2 DEF ProcessState, Stages
  <2>2. /\ s.pc = "monitoring" /\ s.command = "monitor" /\ s.pulse = 0
        /\ s.input = TRUE /\ s.flows = TRUE
    BY <1>1 DEF ProcessState, Proper, OpenInput
  <2>3. QED
    BY <2>1, <2>2 DEF Proper, Callable
<1>4. process' = [process EXCEPT ![p] = s] \/ process' = [process EXCEPT ![p] = Idle]
  <2>1. \/ process' = [process EXCEPT ![p] = [@ EXCEPT !.pc = "monitoring", !.input = TRUE,
                            !.flows = TRUE, !.handle = ports[process[p].port]]]
        \/ process' = [process EXCEPT ![p] = Idle]
    BY Zenon DEF OpenInput, Ends
  <2>2. QED
    BY <2>1
<1>5. ports' = ports /\ calling' = calling /\ sounding' = sounding /\ rolling' = rolling
      /\ excused' = excused
  BY DEF OpenInput, LinkRest
<1>6. p \notin calling
  BY <1>1 DEF MidiInv, LinkInv, CallsIn, Callable
<1> HIDE DEF s
<1>7. LinkInv'
  <2>1. CASE process' = [process EXCEPT ![p] = s]
    BY <1>3, <1>5, <1>6, <2>1, ProcessSteps DEF MidiInv
  <2>2. CASE process' = [process EXCEPT ![p] = Idle]
    <3>1. Idle.handle \notin Instruments
      BY DEF Idle
    <3>2. QED
      BY <1>5, <1>6, <2>2, <3>1, IdleIsProper, ProcessSteps DEF MidiInv
  <2>3. QED
    BY <1>4, <2>1, <2>2
<1>8. Attended'
  BY <1>1, <1>3, <1>4, <1>5, IdleIsProper, StaysAttended
<1>9. QED
  BY <1>7, <1>8 DEF MidiInv

(* What an owner is the only one to attend to.                             *)
LEMMA OwnerAlone ==
  ASSUME MidiInv, NEW p \in Processes, NEW d \in Instruments \ excused, Owns(p, d)
  PROVE  /\ d \in sounding => process[p].pc = "last"
         /\ d \in rolling => process[p].pc = "pulses"
BY DEF MidiInv, LinkInv, MidiTypes, Staged, Proper, OneOwner, Owns, Attended, Ending

(* send by the owner of an output: it goes on, and its instrument is told  *)
(* or, when it could not be told to stop, excused.                         *)
LEMMA SendKeeps ==
  ASSUME MidiInv, NEW p \in Processes, process[p].command # "monitor",
         NEW message, NEW sent \in ProcessState, NEW failed \in ProcessState,
         Send(p, message, sent, failed), ports' = ports, calling' = calling,
         Proper(sent), Proper(failed), sent.pc # "monitoring", failed.pc # "monitoring",
         process[p].pc # "monitoring",
         sent.handle = process[p].handle, failed.handle = process[p].handle,
         sent.command = process[p].command, failed.command = process[p].command,
         \/ /\ message = "note_on" /\ process[p].pc = "first"
            /\ sent.pc = "last" /\ failed.pc = "last"
         \/ /\ message = "start" /\ process[p].pc = "first"
            /\ sent.pc = "pulses" /\ failed.pc = "pulses"
         \/ /\ message = "clock" /\ process[p].pc = "pulses"
            /\ sent.pc = "pulses" /\ failed.pc = "pulses"
         \/ message = "note_off" /\ process[p].pc = "last"
         \/ message = "stop" /\ process[p].pc = "pulses"
  PROVE  MidiInv'
<1> DEFINE d == process[p].handle
<1>1. p \notin calling
  BY DEF MidiInv, LinkInv, CallsIn, Callable
<1>2. PICK s \in {sent, failed} : process' = [process EXCEPT ![p] = s]
  BY DEF Send
<1>3. LinkInv'
  BY <1>1, <1>2, ProcessSteps DEF MidiInv
<1>4. \A q \in Processes : process'[q] = IF q = p THEN s ELSE process[q]
  BY <1>2 DEF MidiInv, LinkInv, MidiTypes
<1>5. Attended'
  <2>1. CASE Connected(d) /\ Told(p, message) /\ excused' = excused \cap (sounding' \cup rolling')
    <3>1. d \in Instruments
      BY <2>1 DEF Connected, MidiInv, LinkInv, MidiTypes
    <3> SUFFICES ASSUME NEW e \in Instruments \ excused',
                        e \in sounding' \/ e \in rolling'
                 PROVE  /\ e \in sounding' => \E q \in Processes : Ending(q, e, "last")'
                        /\ e \in rolling' => \E q \in Processes : Ending(q, e, "pulses")'
      BY DEF Attended
    <3>2. e \notin excused
      BY <2>1
    <3>3. CASE e = d
      <4>1. /\ d \in sounding => process[p].pc = "last"
            /\ d \in rolling => process[p].pc = "pulses"
        BY <3>1, <3>2, <3>3, OwnerAlone DEF Owns
      <4>2. QED
        BY <1>2, <1>4, <2>1, <3>3, <4>1 DEF Told, Ending
    <3>4. CASE e # d
      <4>1. (e \in sounding' => e \in sounding) /\ (e \in rolling' => e \in rolling)
        BY <2>1, <3>4 DEF Told
      <4>2. QED
        BY <1>4, <3>2, <3>4, <4>1 DEF MidiInv, Attended, Ending
    <3>5. QED
      BY <3>3, <3>4
  <2>2. CASE /\ UNCHANGED <<sounding, rolling>>
             /\ excused' = IF message \in {"note_off", "stop"} THEN excused \cup {d} ELSE excused
    BY <1>2, <2>2, StaysAttended
  <2>3. QED
    BY <2>1, <2>2 DEF Send
<1>6. QED
  BY <1>3, <1>5 DEF MidiInv

(* Whether or not the first message is sent, the last one comes next.      *)
LEMMA FirstKeeps ==
  ASSUME MidiInv, NEW p \in Processes, First(p)
  PROVE  MidiInv'
<1> DEFINE next == [process[p] EXCEPT
                      !.pc = IF process[p].command = "note" THEN "last" ELSE "pulses"]
           failed == [next EXCEPT !.ok = FALSE]
<1>1. process[p] \in ProcessState /\ Proper(process[p]) /\ process[p].pc = "first"
  BY DEF MidiInv, LinkInv, MidiTypes, Staged, First, At
<1>2. /\ next \in ProcessState /\ Proper(next)
      /\ next.handle = process[p].handle /\ next.command = process[p].command
      /\ next.pc = IF process[p].command = "note" THEN "last" ELSE "pulses"
  BY <1>1 DEF ProcessState, Stages, Proper, Commands
<1> HIDE DEF next
<1>3. /\ failed \in ProcessState /\ Proper(failed)
      /\ failed.handle = process[p].handle /\ failed.command = process[p].command
      /\ failed.pc = next.pc
  BY <1>2 DEF ProcessState, Proper
<1>4. /\ Send(p, IF process[p].command = "note" THEN "note_on" ELSE "start", next, failed)
      /\ ports' = ports /\ calling' = calling
  BY Zenon DEF First, next
<1>5. process[p].command # "monitor"
  BY <1>1 DEF Proper
<1> HIDE DEF failed
<1>6. CASE process[p].command = "note"
  BY <1>1, <1>2, <1>3, <1>4, <1>5, <1>6, SendKeeps
<1>7. CASE process[p].command # "note"
  BY <1>1, <1>2, <1>3, <1>4, <1>5, <1>7, SendKeeps
<1>8. QED
  BY <1>6, <1>7

(* A clock pulse starts and ends nothing.                                  *)
LEMMA PulseKeeps ==
  ASSUME MidiInv, NEW p \in Processes, Pulse(p)
  PROVE  MidiInv'
<1> DEFINE next == [process[p] EXCEPT !.pulse = @ + 1]
           failed == [process[p] EXCEPT !.ok = FALSE]
<1>1. process[p] \in ProcessState /\ Proper(process[p]) /\ process[p].pc = "pulses"
  BY DEF MidiInv, LinkInv, MidiTypes, Staged, Pulse, At
<1>2. /\ next \in ProcessState /\ Proper(next) /\ next.pc = "pulses"
      /\ next.handle = process[p].handle /\ next.command = process[p].command
  BY <1>1 DEF ProcessState, Proper
<1>3. /\ failed \in ProcessState /\ Proper(failed) /\ failed.pc = "pulses"
      /\ failed.handle = process[p].handle /\ failed.command = process[p].command
  BY <1>1 DEF ProcessState, Proper
<1>4. Send(p, "clock", next, failed) /\ ports' = ports /\ calling' = calling
  BY DEF Pulse
<1>5. process[p].command # "monitor"
  BY <1>1 DEF Proper
<1> HIDE DEF next, failed
<1>6. QED
  BY <1>1, <1>2, <1>3, <1>4, <1>5, SendKeeps

(* The last message ends what the first began, or the instrument is        *)
(* excused.                                                                *)
LEMMA LastKeeps ==
  ASSUME MidiInv, NEW p \in Processes, Last(p)
  PROVE  MidiInv'
<1> DEFINE next == [process[p] EXCEPT !.pc = "closing"]
<1>1. process[p] \in ProcessState /\ Proper(process[p]) /\ process[p].pc \in {"last", "pulses"}
  BY DEF MidiInv, LinkInv, MidiTypes, Staged, Last, At
<1>2. process[p].command = (IF process[p].pc = "last" THEN "note" ELSE "transport")
  BY <1>1 DEF Proper
<1>3. /\ next \in ProcessState /\ Proper(next) /\ next.pc = "closing"
      /\ next.handle = process[p].handle /\ next.command = process[p].command
  BY <1>1, <1>2 DEF ProcessState, Stages, Proper
<1>4. /\ Send(p, IF process[p].command = "note" THEN "note_off" ELSE "stop", next, next)
      /\ ports' = ports /\ calling' = calling
  BY DEF Last
<1> HIDE DEF next
<1>5. CASE process[p].pc = "last"
  BY <1>2, <1>3, <1>4, <1>5, SendKeeps
<1>6. CASE process[p].pc = "pulses"
  BY <1>2, <1>3, <1>4, <1>6, SendKeeps
<1>7. QED
  BY <1>1, <1>5, <1>6

(* By the time an output is closed nothing is attended to through it.      *)
LEMMA CloseOutputKeeps ==
  ASSUME MidiInv, NEW p \in Processes, CloseOutput(p)
  PROVE  MidiInv'
<1>1. /\ process' = [process EXCEPT ![p] = Idle] /\ process[p].pc = "closing"
      /\ ports' = ports /\ calling' = calling /\ excused' = excused /\ rolling' = rolling
      /\ sounding' \subseteq sounding
  BY DEF CloseOutput, Ends, At
<1>2. Idle.handle \notin Instruments
  BY DEF Idle
<1>3. p \notin calling
  BY <1>1 DEF MidiInv, LinkInv, CallsIn, Callable
<1>4. LinkInv'
  BY <1>1, <1>2, <1>3, IdleIsProper, ProcessSteps DEF MidiInv
<1>5. Attended'
  BY <1>1, IdleIsProper, StaysAttended
<1>6. QED
  BY <1>4, <1>5 DEF MidiInv

(* A step of a monitor.                                                    *)
LEMMA InputStepKeeps ==
  ASSUME MidiInv, NEW p \in Processes, process[p].pc = "monitoring", NEW s \in ProcessState,
         process' = [process EXCEPT ![p] = s], Proper(s),
         UNCHANGED <<ports, calling, sounding, rolling, excused>>,
         p \notin calling \/ Callable(s), s.handle = None \/ s.command = "monitor"
  PROVE  MidiInv'
<1>1. LinkInv'
  BY ProcessSteps DEF MidiInv
<1>2. Attended'
  BY StaysAttended
<1>3. QED
  BY <1>1, <1>2 DEF MidiInv

(* The first call of close ends the callbacks to come, the third waits for *)
(* the one that runs: only then is the input freed.                        *)
LEMMA CloseInputKeeps ==
  ASSUME MidiInv, NEW p \in Processes, CloseInput(p)
  PROVE  MidiInv'
<1> DEFINE at == process[p].pulse
           next(n) == [process[p] EXCEPT !.pulse = n]
           stopped == [next(1) EXCEPT !.flows = FALSE]
           closed == [next(3) EXCEPT !.handle = None]
           freed == [Idle EXCEPT !.input = FALSE]
           onward(n) == IF n = Len(CloseOrder) THEN Idle ELSE next(n)
           becomes(n) == CASE CloseOrder[n] = "midiInStop"  -> [onward(n) EXCEPT !.flows = FALSE]
                           [] CloseOrder[n] = "midiInReset" -> onward(n)
                           [] CloseOrder[n] = "midiInClose" -> [onward(n) EXCEPT !.handle = None]
                           [] CloseOrder[n] = "erase"       -> [onward(n) EXCEPT !.input = FALSE]
<1>1. process[p] \in ProcessState /\ Proper(process[p]) /\ process[p].pc = "monitoring"
  BY DEF MidiInv, LinkInv, MidiTypes, Staged, CloseInput, At
<1>2. at \in 0 .. 3 /\ process[p].command = "monitor" /\ process[p].input
  BY <1>1 DEF Proper
<1>3. /\ CloseOrder[1] = "midiInStop" /\ CloseOrder[2] = "midiInReset"
      /\ CloseOrder[3] = "midiInClose" /\ CloseOrder[4] = "erase" /\ Len(CloseOrder) = 4
  BY DEF CloseOrder
<1>4. UNCHANGED <<ports, calling, sounding, rolling, excused>>
  BY DEF CloseInput, LinkRest
<1>5. \A n \in {1, 2, 3} :
         /\ next(n) \in ProcessState /\ next(n).pc = "monitoring" /\ next(n).command = "monitor"
         /\ next(n).pulse = n /\ next(n).input /\ next(n).flows = process[p].flows
  BY <1>1, <1>2 DEF ProcessState
<1>6. PICK n : /\ n = at + 1
               /\ process' = [process EXCEPT ![p] = becomes(n)]
               /\ CloseOrder[n] = "midiInClose" => p \notin calling
  BY Zenon DEF CloseInput
<1> HIDE DEF next
<1>7. becomes(1) = stopped /\ becomes(2) = next(2) /\ becomes(3) = closed /\ becomes(4) = freed
  BY <1>3
<1> HIDE DEF becomes, stopped, closed, freed
<1>8. CASE at = 0
  <2> n = 1
    BY <1>6, <1>8
  <2>1. process' = [process EXCEPT ![p] = stopped]
    BY <1>6, <1>7
  <2>2. stopped \in ProcessState
    BY <1>5 DEF ProcessState, stopped
  <2>3. /\ stopped.pc = "monitoring" /\ stopped.command = "monitor" /\ stopped.pulse = 1
        /\ stopped.flows = FALSE /\ stopped.input
    BY <1>5 DEF ProcessState, stopped
  <2>4. Proper(stopped) /\ Callable(stopped)
    BY <2>3 DEF Proper, Callable
  <2>5. QED
    BY <1>1, <1>4, <2>1, <2>2, <2>3, <2>4, InputStepKeeps
<1>9. CASE at = 1
  <2> n = 2
    BY <1>6, <1>9
  <2>1. process' = [process EXCEPT ![p] = next(2)]
    BY <1>6, <1>7
  <2>2. Proper(next(2)) /\ Callable(next(2))
    BY <1>1, <1>5, <1>9 DEF Proper, Callable
  <2>3. QED
    BY <1>1, <1>4, <1>5, <2>1, <2>2, InputStepKeeps
<1>10. CASE at = 2
  <2> n = 3
    BY <1>6, <1>10
  <2>1. process' = [process EXCEPT ![p] = closed] /\ p \notin calling
    BY <1>3, <1>6, <1>7
  <2>2. closed \in ProcessState
    BY <1>5 DEF ProcessState, closed
  <2>3. /\ closed.pc = "monitoring" /\ closed.command = "monitor" /\ closed.pulse = 3
        /\ closed.flows = process[p].flows /\ closed.input
    BY <1>5 DEF ProcessState, closed
  <2>4. Proper(closed)
    BY <1>1, <1>10, <2>3 DEF Proper
  <2>5. QED
    BY <1>1, <1>4, <2>1, <2>2, <2>3, <2>4, InputStepKeeps
<1>11. CASE at = 3
  <2> n = 4
    BY <1>6, <1>11
  <2>1. process' = [process EXCEPT ![p] = freed]
    BY <1>6, <1>7
  <2>2. freed \in ProcessState /\ Proper(freed) /\ freed.handle = None
    BY DEF Idle, ProcessState, Stages, Commands, Proper, freed
  <2>3. p \notin calling
    BY <1>11 DEF MidiInv, LinkInv, CallsIn, Callable
  <2>4. QED
    BY <1>1, <1>4, <2>1, <2>2, <2>3, InputStepKeeps
<1>12. QED
  BY <1>2, <1>8, <1>9, <1>10, <1>11

(* A callback begins only while messages flow.                             *)
LEMMA CallsKeep ==
  ASSUME MidiInv, NEW p \in Processes, Receive(p) \/ Received(p)
  PROVE  MidiInv'
<1>1. /\ UNCHANGED <<ports, process, sounding, rolling, excused>>
      /\ calling' \subseteq Processes
      /\ \A q \in calling' : q \in calling \/ (q = p /\ process[p].flows)
  BY DEF Receive, Received, MidiInv, LinkInv, MidiTypes
<1>2. process[p].flows => Callable(process[p])
  BY DEF MidiInv, LinkInv, Staged, Proper, Callable
<1>3. LinkInv'
  BY <1>1, <1>2 DEF MidiInv, LinkInv, MidiTypes, Staged, Proper, CallsIn, Callable, OneOwner, Owns
<1>4. Attended'
  BY <1>1 DEF MidiInv, Attended, Ending
<1>5. QED
  BY <1>3, <1>4 DEF MidiInv

(* What a process that ends had, is excused.                               *)
LEMMA KilledKeeps ==
  ASSUME MidiInv, NEW p \in Processes, Killed(p)
  PROVE  MidiInv'
<1>1. /\ process' = [process EXCEPT ![p] = Idle] /\ calling' = calling \ {p}
      /\ UNCHANGED <<ports, sounding, rolling>> /\ excused \subseteq excused'
      /\ process[p].handle = None \/ process[p].handle \in excused'
  BY DEF Killed, Ends
<1>2. Idle.handle \notin Instruments
  BY DEF Idle
<1>3. LinkInv'
  BY <1>1, <1>2, IdleIsProper, ProcessSteps DEF MidiInv
<1>4. Attended'
  BY <1>1, IdleIsProper, StaysAttended
<1>5. QED
  BY <1>3, <1>4 DEF MidiInv

(* An unplugged instrument is silent and has no owner any more.            *)
LEMMA UnplugKeeps ==
  ASSUME MidiInv, NEW i \in DOMAIN ports, Unplug(i)
  PROVE  MidiInv'
<1> DEFINE dead(p) == [process[p] EXCEPT !.handle = Dead]
<1>1. ports \in Seq(Instruments) /\ process \in [Processes -> ProcessState]
  BY DEF MidiInv, LinkInv, MidiTypes
<1>2. i \in 1 .. Len(ports) /\ Len(ports) \in Nat /\ ports[i] \in Instruments
  BY <1>1
<1>3. ports' \in Seq(Instruments)
  <2>1. SubSeq(ports, 1, i - 1) \in Seq(Instruments)
    BY <1>1, <1>2, SubSeqProperties
  <2>2. SubSeq(ports, i + 1, Len(ports)) \in Seq(Instruments)
    BY <1>1, <1>2, SubSeqProperties
  <2>3. QED
    BY <2>1, <2>2, ConcatProperties DEF Unplug
<1>4. \A p \in Processes :
         /\ dead(p) \in ProcessState /\ dead(p).handle = Dead
         /\ dead(p).pc = process[p].pc /\ dead(p).command = process[p].command
         /\ dead(p).pulse = process[p].pulse /\ dead(p).input = process[p].input
         /\ dead(p).flows = process[p].flows
  BY <1>1 DEF ProcessState
<1>5. /\ process' = [p \in Processes |-> IF process[p].handle = ports[i] THEN dead(p) ELSE process[p]]
      /\ sounding' = sounding \ {ports[i]} /\ rolling' = rolling \ {ports[i]}
      /\ calling' = calling /\ excused' = excused
  BY DEF Unplug
<1> HIDE DEF dead
<1>6. \A p \in Processes :
         /\ process'[p] \in ProcessState
         /\ process'[p].handle = (IF process[p].handle = ports[i] THEN Dead ELSE process[p].handle)
         /\ process'[p].pc = process[p].pc /\ process'[p].command = process[p].command
         /\ process'[p].pulse = process[p].pulse /\ process'[p].input = process[p].input
         /\ process'[p].flows = process[p].flows
  BY <1>1, <1>4, <1>5
<1>7. MidiTypes'
  BY <1>3, <1>4, <1>5, <1>1 DEF MidiInv, LinkInv, MidiTypes
<1>8. Staged'
  BY <1>2, <1>6 DEF MidiInv, LinkInv, Staged, Proper
<1>9. CallsIn' /\ OneOwner'
  BY <1>2, <1>5, <1>6 DEF MidiInv, LinkInv, MidiTypes, CallsIn, Callable, OneOwner, Owns
<1>10. Attended'
  BY <1>2, <1>5, <1>6 DEF MidiInv, Attended, Ending
<1>11. QED
  BY <1>7, <1>8, <1>9, <1>10 DEF MidiInv, LinkInv

(* An instrument plugged in again is nobody's yet.                         *)
LEMMA PlugKeeps ==
  ASSUME MidiInv, NEW d \in Instruments, Plug(d)
  PROVE  MidiInv'
<1>1. ports' \in Seq(Instruments) /\ UNCHANGED <<process, calling, sounding, rolling, excused>>
  BY AppendProperties DEF Plug, MidiInv, LinkInv, MidiTypes
<1>2. QED
  BY <1>1 DEF MidiInv, LinkInv, MidiTypes, Staged, Proper, CallsIn, Callable, OneOwner, Owns,
              Attended, Ending

(* At first nothing sounds or rolls.                                       *)
LEMMA MidiStarts == MidiInit => MidiInv
<1> SUFFICES ASSUME MidiInit PROVE MidiInv
  OBVIOUS
<1>1. /\ ports \in Seq(Instruments) /\ \A p \in Processes : process[p] = Idle
      /\ process = [p \in Processes |-> Idle] /\ calling = {} /\ sounding = {} /\ rolling = {}
  <2>1. PICK first, second \in Instruments : ports \in {<<first>>, <<first, second>>}
    BY DEF MidiInit
  <2>2. <<first>> \in Seq(Instruments) /\ <<first, second>> \in Seq(Instruments)
    OBVIOUS
  <2>3. QED
    BY <2>1, <2>2 DEF MidiInit
<1>2. Idle.handle = None
  BY DEF Idle
<1>3. QED
  BY <1>1, <1>2, IdleIsProper
     DEF MidiInv, LinkInv, MidiTypes, Staged, CallsIn, OneOwner, Owns, Attended

(* The invariant holds of every state.                                     *)
THEOREM MidiInvariance == MidiSpec => []MidiInv
<1>1. MidiInv /\ [MidiNext]_midiVars => MidiInv'
  <2> SUFFICES ASSUME MidiInv, [MidiNext]_midiVars PROVE MidiInv'
    OBVIOUS
  <2>1. ASSUME NEW p \in Processes, Work(p) PROVE MidiInv'
    BY <2>1, FindKeeps, OpenFailsKeeps, OpenOutputKeeps, OpenInputKeeps, FirstKeeps, PulseKeeps,
       LastKeeps, CloseOutputKeeps, CloseInputKeeps DEF Work
  <2>2. ASSUME NEW p \in Processes, Receive(p) \/ Received(p) \/ Killed(p) PROVE MidiInv'
    BY <2>2, CallsKeep, KilledKeeps
  <2>3. CASE UNCHANGED midiVars
    BY <2>3 DEF midiVars, MidiInv, LinkInv, MidiTypes, Staged, Proper, CallsIn, Callable, OneOwner,
                Owns, Attended, Ending
  <2>4. QED
    BY <2>1, <2>2, <2>3, UnplugKeeps, PlugKeeps DEF MidiNext
<1>2. QED
  BY <1>1, MidiStarts, PTL DEF MidiSpec

(* No instrument without an owner of its output plays a test note or runs  *)
(* a test transport, unless it could not be told to stop: whatever failed  *)
(* before, was unplugged or was opened by another process meanwhile.       *)
THEOREM NothingIsLeftRunning == MidiSpec => []NothingLeftRunning
<1>1. MidiInv => NothingLeftRunning
  <2> SUFFICES ASSUME MidiInv, NEW d \in Instruments, ~Busy(d, FALSE), d \notin excused
               PROVE  d \notin sounding \cup rolling
    BY DEF NothingLeftRunning
  <2>1. \A p \in Processes : process[p].handle = d => process[p].command = "monitor"
    BY DEF Busy
  <2>2. QED
    BY <2>1 DEF MidiInv, LinkInv, Staged, Proper, Attended, Ending
<1>2. QED
  BY <1>1, MidiInvariance, PTL

(* No callback of the driver runs on an Input that was freed.              *)
THEOREM CallbacksHaveTheirInput == MidiSpec => []CallbackHasItsInput
<1>1. MidiInv => CallbackHasItsInput
  BY DEF MidiInv, LinkInv, MidiTypes, Staged, Proper, CallsIn, Callable, CallbackHasItsInput
<1>2. QED
  BY <1>1, MidiInvariance, PTL
=============================================================================
