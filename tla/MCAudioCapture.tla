---------------------------- MODULE MCAudioCapture ----------------------------
(* The two Windows backends, which share nothing: "half" says whether a      *)
(* behaviour captures audio or runs MIDI commands.                           *)
EXTENDS AudioCapture, MidiBackend, TLC

VARIABLE half

Permuted == Permutations(Processes) \cup Permutations(Instruments)

MCInit == Init /\ MidiInit /\ half \in {"audio", "midi"}
MCNext ==
  \/ half = "audio" /\ Next /\ UNCHANGED <<half, midiVars>>
  \/ half = "midi" /\ MidiNext /\ UNCHANGED <<half, vars>>
MCSpec == MCInit /\ [][MCNext]_<<half, vars, midiVars>>
=============================================================================
