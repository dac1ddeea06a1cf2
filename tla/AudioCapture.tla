----------------------------- MODULE AudioCapture -----------------------------
(***************************************************************************)
(* WindowsAudioBackend of src/platform/hardware_backends.cpp: begin_capture, *)
(* read_capture and stop_capture in one owner thread, as                   *)
(* capture_audio_smoke of src/main.cpp calls them, and capture_worker in a *)
(* thread of its own that pushes samples one by one to a bounded queue.    *)
(* The queue is the FIFO queue that SpscRing implements while reset never  *)
(* runs against a push.  A sample is its capture and its place in it; the  *)
(* sample formats and the rate are left out.                               *)
(***************************************************************************)
EXTENDS Naturals, Sequences

CONSTANTS Capacity,   \* samples the queue holds
          Channels,   \* channels of the device's mix format
          Frames,     \* frames in a packet
          Batch,      \* largest destination handed to read_capture
          MaxRuns,    \* bound: captures begun
          MaxPackets  \* bound: packets the device delivers in a capture

ASSUME CaptureAssumption ==
  /\ Capacity \in Nat \ {0} /\ Channels \in Nat \ {0} /\ Frames \in Nat \ {0}
  /\ Batch \in Nat \ {0} /\ MaxRuns \in Nat /\ MaxPackets \in Nat

VARIABLES
  owner,   \* where the owner is: "idle", "joining", "resetting", "polling", "deciding"
  after,   \* where stop_capture returns to
  worker,  \* where capture_worker is; "none" without a thread
  index,   \* samples of the packet in hand that it has pushed or dropped
  stop_requested, capture_state, frames_captured, samples_dropped, discontinuities,
  samples_,      \* the queue
  run,           \* captures begun so far
  samples_read   \* what the owner has read of this capture

counters == <<frames_captured, samples_dropped, discontinuities>>
ownerVars == <<owner, after, run, samples_read>>
workerVars == <<worker, index>>
vars == <<ownerVars, workerVars, stop_requested, capture_state, counters, samples_>>

PacketSamples == Frames * Channels
Failures == {"open_failed", "format_mismatch", "stream_failed"}
AudioCaptureState == {"idle", "starting", "capturing", "stopped"} \cup Failures

Init ==
  /\ owner = "idle" /\ after = "idle" /\ worker = "none" /\ index = 0
  /\ stop_requested = FALSE /\ capture_state = "idle"
  /\ frames_captured = 0 /\ samples_dropped = 0 /\ discontinuities = 0
  /\ samples_ = << >>
  /\ run = 0 /\ samples_read = 0
-----------------------------------------------------------------------------
(* stop_capture: ask, join, settle the state.                              *)
StopCapture(next) ==
  /\ stop_requested' = TRUE
  /\ owner' = "joining" /\ after' = next

WithoutJoin ==
  /\ owner = "joining"
  /\ owner' = after
  /\ UNCHANGED <<after, run, samples_read, workerVars, stop_requested, capture_state, counters, samples_>>
Join ==
  /\ owner = "joining" /\ worker \in {"none", "ended"}
  /\ worker' = "none"
  /\ capture_state' = IF capture_state \in {"starting", "capturing"} THEN "stopped" ELSE capture_state
  /\ owner' = after
  /\ UNCHANGED <<after, run, samples_read, index, stop_requested, counters, samples_>>

Stop ==
  /\ owner = "idle"
  /\ StopCapture("idle")
  /\ UNCHANGED <<run, samples_read, workerVars, capture_state, counters, samples_>>

(* begin_capture                                                           *)
BeginCapture ==
  /\ owner = "idle" /\ run < MaxRuns
  /\ StopCapture("resetting")
  /\ UNCHANGED <<run, samples_read, workerVars, capture_state, counters, samples_>>

ClearedWithoutDrops ==
  /\ samples_' = << >>
  /\ frames_captured' = 0 /\ discontinuities' = 0
  /\ UNCHANGED samples_dropped
ClearedWithoutQueue ==
  /\ frames_captured' = 0 /\ samples_dropped' = 0 /\ discontinuities' = 0
  /\ UNCHANGED samples_
Cleared ==
  /\ samples_' = << >>
  /\ frames_captured' = 0 /\ samples_dropped' = 0 /\ discontinuities' = 0
ResetAndLaunch ==
  /\ owner = "resetting"
  /\ Cleared
  /\ stop_requested' = FALSE /\ capture_state' = "starting"
  /\ worker' = "opening"
  /\ owner' = "polling" /\ run' = run + 1 /\ samples_read' = 0
  /\ UNCHANGED <<after, index>>

(* The wait ends with the state's first change or after five seconds.      *)
PollStart ==
  /\ owner = "polling"
  /\ owner' = "deciding"
  /\ UNCHANGED <<after, run, samples_read, workerVars, stop_requested, capture_state, counters, samples_>>
DecideStart ==
  /\ owner = "deciding"
  /\ \/ capture_state = "capturing" /\ owner' = "idle" /\ UNCHANGED <<after, stop_requested>>
     \/ capture_state # "capturing" /\ StopCapture("idle")
  /\ UNCHANGED <<run, samples_read, workerVars, capture_state, counters, samples_>>

ReadCapture ==
  /\ owner = "idle" /\ samples_ # << >>
  /\ \E size \in 1 .. Batch :
       LET taken == IF size < Len(samples_) THEN size ELSE Len(samples_) IN
       /\ samples_' = SubSeq(samples_, taken + 1, Len(samples_))
       /\ samples_read' = samples_read + taken
  /\ UNCHANGED <<owner, after, run, workerVars, stop_requested, capture_state, counters>>
-----------------------------------------------------------------------------
(* capture_worker.                                                         *)
Fail(state) == capture_state' = state /\ worker' = "cleanup"
WorkerRest == UNCHANGED <<ownerVars, index, stop_requested, counters, samples_>>

Open ==
  /\ worker = "opening"
  /\ \/ Fail("open_failed")
     \/ Fail("format_mismatch")
     \/ Fail("stream_failed")
     \/ capture_state' = "capturing" /\ worker' = "formatting"
  /\ WorkerRest

(* The sample size is only looked at once the stream runs.                 *)
CheckSampleSize ==
  /\ worker = "formatting"
  /\ \/ Fail("format_mismatch")
     \/ worker' = "looping" /\ UNCHANGED capture_state
  /\ WorkerRest

CheckStop ==
  /\ worker = "looping"
  /\ worker' = IF stop_requested THEN "cleanup" ELSE "waiting"
  /\ UNCHANGED capture_state /\ WorkerRest

More == frames_captured < MaxPackets * Frames
NextPacket ==
  \/ Fail("stream_failed")
  \/ worker' = "looping" /\ UNCHANGED capture_state
  \/ More /\ worker' = "draining" /\ UNCHANGED capture_state

Wait == worker = "waiting" /\ NextPacket /\ WorkerRest

GetBuffer ==
  /\ worker = "draining"
  /\ \/ Fail("stream_failed") /\ UNCHANGED discontinuities
     \/ /\ \E gap \in {0, 1} : discontinuities' = discontinuities + gap
        /\ worker' = "pushing" /\ UNCHANGED capture_state
  /\ UNCHANGED <<ownerVars, index, stop_requested, frames_captured, samples_dropped, samples_>>

(* Samples of this capture that the worker has pushed or dropped.          *)
Delivered == frames_captured * Channels + index
Sample == <<run, Delivered + 1>>
PushSample ==
  /\ worker = "pushing" /\ index < PacketSamples
  /\ \/ /\ Len(samples_) < Capacity
        /\ samples_' = Append(samples_, Sample)
        /\ UNCHANGED samples_dropped
     \/ /\ Len(samples_) = Capacity
        /\ samples_dropped' = samples_dropped + 1
        /\ UNCHANGED samples_
  /\ index' = index + 1
  /\ UNCHANGED <<ownerVars, worker, stop_requested, capture_state, frames_captured, discontinuities>>

CountFrames ==
  /\ worker = "pushing" /\ index = PacketSamples
  /\ frames_captured' = frames_captured + Frames
  /\ index' = 0
  /\ worker' = "releasing"
  /\ UNCHANGED <<ownerVars, stop_requested, capture_state, samples_dropped, discontinuities, samples_>>

(* The next packet is taken at once, whether or not a stop was requested.  *)
ReleaseBuffer == worker = "releasing" /\ NextPacket /\ WorkerRest

Cleanup ==
  /\ worker = "cleanup"
  /\ capture_state' = IF capture_state = "capturing" THEN "stopped" ELSE capture_state
  /\ worker' = "ended"
  /\ WorkerRest

Next ==
  \/ Stop \/ BeginCapture \/ Join \/ ResetAndLaunch
  \/ PollStart \/ DecideStart \/ ReadCapture
  \/ Open \/ CheckSampleSize \/ CheckStop \/ Wait \/ GetBuffer
  \/ PushSample \/ CountFrames \/ ReleaseBuffer \/ Cleanup

Spec == Init /\ [][Next]_vars
-----------------------------------------------------------------------------
(* Types, and what the state says of the worker: once stop_capture has     *)
(* joined it there is none, and it is only capturing while one exists.     *)
TypeOK ==
  /\ owner \in {"idle", "joining", "resetting", "polling", "deciding"}
  /\ after \in {"idle", "resetting"}
  /\ worker \in {"none", "opening", "formatting", "looping", "waiting", "draining",
                 "pushing", "releasing", "cleanup", "ended"}
  /\ index \in 0 .. PacketSamples
  /\ stop_requested \in BOOLEAN /\ capture_state \in AudioCaptureState
  /\ frames_captured \in Nat /\ samples_dropped \in Nat /\ discontinuities \in Nat
  /\ samples_ \in Seq(Nat \X (Nat \ {0})) /\ Len(samples_) <= Capacity
  /\ run \in Nat /\ samples_read \in Nat
  /\ index # 0 => worker = "pushing"
  /\ owner = "resetting" => worker = "none"
  /\ worker \in {"none", "ended"} => capture_state # "capturing"

(* Every sample the device delivered in this capture was read, waits in    *)
(* the queue or was counted as dropped, at every moment and in every       *)
(* capture: the report of capture_audio_smoke adds up.                     *)
SamplesAccounted ==
  Delivered = samples_read + Len(samples_) + samples_dropped

(* What the owner reads next is this capture's and in the device's order,  *)
(* and while nothing was dropped it has no gap: so channels stay in step   *)
(* exactly until the first drop, and no capture shows another's samples.   *)
QueueIsTheStream ==
  /\ \A i \in DOMAIN samples_ :
       /\ samples_[i][1] = run
       /\ samples_[i][2] >= samples_read + i /\ samples_[i][2] <= Delivered
  /\ \A i, j \in DOMAIN samples_ : i < j => samples_[i][2] < samples_[j][2]
  /\ samples_dropped = 0 => \A i \in DOMAIN samples_ : samples_[i][2] = samples_read + i
=============================================================================
