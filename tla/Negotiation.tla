----------------------------- MODULE Negotiation -----------------------------
(***************************************************************************)
(* What a device, a platform, a DAW and a connection may do together:      *)
(* negotiate of src/core/bridge_core.cpp with the evidence rules of        *)
(* src/core/protocol_capabilities.cpp, and the profiles and plans of       *)
(* src/adapters/bridge_modules.cpp.                                        *)
(*                                                                         *)
(* A capability record is the set of its fields that are true.  Plans are  *)
(* made from a connection whose evidence keeps growing while they are in   *)
(* use: discovery reports endpoints, and qualification runs follow.        *)
(* Rationales, limitations and the lists of required checks are left out.  *)
(***************************************************************************)
EXTENDS Naturals, FiniteSetsExt, TLC

CONSTANTS Devices, Platforms, Daws,  \* capability sets considered
          Declarations,              \* flags a connection may declare
          Findings,                  \* evidence a qualification run may bring
          NotPlanned,
          MaxEvidence                \* bound: items of evidence

Levels == 0 .. 3      \* EvidenceLevel: unavailable, declared, observed, qualified
Declared == 1
Observed == 2
Qualified == 3

ASSUME NegotiationAssumption ==
  MaxEvidence \in Nat /\ \A item \in Findings : item.level \in Levels

VARIABLES device, platform, daw,
          declared,    \* flags of the ConnectionCapability
          evidence,    \* its protocol_evidence; order does not matter
          route        \* the plans last made, or NotPlanned

planVars == <<device, platform, daw, declared, evidence, route>>
-----------------------------------------------------------------------------
(* Profiles.  No platform that ships has a device, audio or virtual MIDI   *)
(* backend, no DAW project creation or feedback, no device parameters.     *)
Studio == {"storage_access", "midi_input", "midi_output", "audio_input", "transport"}
BuiltinDevices ==
  [id \in {"akai.mpc-sample", "roland.sp-404mkii", "akai.mpc-legacy"} |-> Studio \cup {"stereo"}]
  @@ [id \in {"akai.mpc-one", "akai.mpc-one-plus", "akai.mpc-live", "elektron.digitakt",
              "native-instruments.maschine"} |-> Studio]
  @@ [id \in {"audient.interface", "soundcraft.spirit-digital-328"} |-> Studio \ {"storage_access"}]
  @@ [id \in {"novation.circuit", "midi.keyboard"} |->
        {"midi_input", "midi_output", "transport", "stereo"}]
  @@ [id \in {"mixing-desk.digital-generic"} |-> {"audio_input", "stereo"}]
BuiltinDaws ==
  [id \in {"mpc-beats", "cubase", "reason", "ableton-live", "fl-studio", "reaper", "studio-one"} |->
     {"audio_import", "midi_import", "plugin_client"}]
  @@ [id \in {"garageband", "logic-pro", "fl-studio-mobile", "pro-tools", "mobile-generic"} |->
        {"audio_import", "midi_import"}]
BuiltinPlatforms ==
  [id \in {"windows"} |->
     {"runtime_qualified", "local_file_access", "desktop_plugin_host_route"}]
  @@ [id \in {"macos", "linux"} |-> {"local_file_access", "desktop_plugin_host_route"}]
  @@ [id \in {"android", "chromeos", "ipados", "ios"} |-> {"companion_route"}]
-----------------------------------------------------------------------------
(* supports_direction: both ways needs one item that goes both ways.       *)
Needs == [discovery |-> {}, input |-> {"input"}, output |-> {"output"},
          duplex |-> {"input", "output"}]
SupportsSome(item, direction) ==
  Needs[direction] = {} \/ Needs[direction] \cap item.can # {}
SupportsDirection(item, direction) == Needs[direction] \subseteq item.can

(* strongest_protocol_evidence                                             *)
Strongest(protocol, direction) ==
  Max({0} \cup {item.level : item \in
         {x \in evidence : x.protocol = protocol /\ SupportsDirection(x, direction)}})

(* connection_evidence_level: a flag is a declaration, for want of better. *)
FlagOf == [project_files |-> "storage", mass_storage |-> "storage", usb_midi |-> "usb_midi",
           usb_audio |-> "usb_audio", analogue_audio |-> "analogue_audio"]
LevelHidden(protocol, direction) ==
  IF \E x \in evidence : x.protocol = protocol THEN Strongest(protocol, direction)
  ELSE IF FlagOf[protocol] \in declared THEN Declared ELSE 0
Level(protocol, direction) ==
  IF Strongest(protocol, direction) # 0 THEN Strongest(protocol, direction)
  ELSE IF FlagOf[protocol] \in declared THEN Declared ELSE 0

Stronger(a, b) == IF a >= b THEN a ELSE b
StorageLevel == Stronger(Level("project_files", "input"), Level("mass_storage", "input"))
MidiLevel == Level("usb_midi", "duplex")
AudioLevel == Stronger(Level("usb_audio", "input"), Level("analogue_audio", "input"))

(* negotiate: the flags of an IntegrationPlan.                             *)
SafePreflight ==
  "local_file_access" \in platform /\ StorageLevel >= Declared /\ "storage_access" \in device
DirectDawCreation ==
  "runtime_qualified" \in platform /\ {"direct_project_create", "track_create"} \subseteq daw
HardwareControl ==
  /\ {"runtime_qualified", "usb_device_access"} \subseteq platform
  /\ MidiLevel >= Qualified
  /\ {"midi_input", "midi_output", "transport"} \subseteq device
AudioCapturable ==
  /\ {"runtime_qualified", "audio_backend"} \subseteq platform
  /\ AudioLevel >= Qualified
  /\ "audio_input" \in device
BidirectionalSync ==
  HardwareControl /\ "parameter_feedback" \in daw /\ {"parameter_read", "parameter_write"} \subseteq device
MobileBridge ==
  /\ {"runtime_qualified", "direct_mobile_host_route"} \subseteq platform
  /\ SafePreflight \/ HardwareControl \/ AudioCapturable
Integration ==
  {f \in {"safe_preflight"} : SafePreflight}
  \cup {f \in {"asset_exchange"} : SafePreflight /\ "audio_import" \in daw}
  \cup {f \in {"midi_exchange"} : SafePreflight /\ "midi_import" \in daw}
  \cup {f \in {"direct_daw_creation"} : DirectDawCreation}
  \cup {f \in {"hardware_control"} : HardwareControl}
  \cup {f \in {"audio_capture"} : AudioCapturable}
  \cup {f \in {"bidirectional_sync"} : BidirectionalSync}
  \cup {f \in {"mobile_bridge"} : MobileBridge}
  \cup {f \in {"mobile_companion"} : "companion_route" \in platform}

(* plan_audio_capture and plan_midi_route                                  *)
CaptureAllowed ==
  /\ {"runtime_qualified", "audio_backend"} \subseteq platform /\ "audio_input" \in device
  /\ Level("usb_audio", "input") >= Qualified \/ Level("analogue_audio", "input") >= Qualified
CaptureSequential == CaptureAllowed /\ {"stereo", "control_qualified"} \subseteq device
MidiAllowed ==
  /\ {"runtime_qualified", "usb_device_access", "virtual_midi"} \subseteq platform
  /\ MidiLevel >= Qualified /\ {"midi_input", "midi_output"} \subseteq device

(* plan_finish_in_daw: the steps that are enabled.                         *)
Steps(features) ==
  {"detect"}
  \cup {s \in {"preflight", "backup", "approval", "verify"} : "safe_preflight" \in features}
  \cup {s \in {"assets"} : features \cap {"asset_exchange", "midi_exchange"} # {}}
  \cup {s \in {"capture"} : "audio_capture" \in features}
  \cup {s \in {"reconstruct"} : "direct_daw_creation" \in features}
  \cup {s \in {"sync"} : "bidirectional_sync" \in features}

Plans ==
  [features |-> Integration, steps |-> Steps(Integration),
   capture |-> {c \in {"allowed"} : CaptureAllowed} \cup {c \in {"sequential"} : CaptureSequential},
   midi |-> MidiAllowed]
-----------------------------------------------------------------------------
PlanInit ==
  /\ device \in Devices /\ platform \in Platforms /\ daw \in Daws
  /\ declared \in Declarations
  /\ evidence = {} /\ route = NotPlanned

(* protocol_evidence_for: what Windows reports of a USB device is observed *)
(* but says nothing of a direction.                                        *)
Discover(protocol) ==
  LET found == [protocol |-> protocol, level |-> Observed, can |-> {}]
  IN  /\ found \notin evidence /\ Cardinality(evidence) < MaxEvidence
      /\ evidence' = evidence \cup {found}
      /\ UNCHANGED <<device, platform, daw, declared, route>>

(* External: a probe or a qualification run.                               *)
Qualify(item) ==
  /\ item \notin evidence /\ Cardinality(evidence) < MaxEvidence
  /\ evidence' = evidence \cup {item}
  /\ UNCHANGED <<device, platform, daw, declared, route>>

PlanRoute ==
  /\ route' = Plans
  /\ UNCHANGED <<device, platform, daw, declared, evidence>>

PlanNext ==
  \/ \E protocol \in {"usb_composite", "usb_audio", "unknown"} : Discover(protocol)
  \/ \E item \in Findings : Qualify(item)
  \/ PlanRoute

PlanSpec == PlanInit /\ [][PlanNext]_planVars
-----------------------------------------------------------------------------
(* "Evidence is deliberately monotonic": whatever a plan once enabled is   *)
(* still enabled when more has been found out about the connection, by     *)
(* whatever kind, level or direction of evidence.                          *)
PlansStayValid ==
  route # NotPlanned =>
    /\ route.features \subseteq Integration /\ route.steps \subseteq Steps(Integration)
    /\ route.capture \subseteq Plans.capture
    /\ route.midi => MidiAllowed

(* "Only a qualified route may activate live I/O": live control, capture,  *)
(* sync and routing each rest on one item of evidence that is qualified    *)
(* and goes all the ways needed, on no flag or sum of weaker items; and    *)
(* the two plans that both decide on capture, or on MIDI, agree.           *)
Proof(protocols, ways) ==
  \E item \in evidence : item.protocol \in protocols /\ item.level = Qualified /\ ways \subseteq item.can
OnlyQualifiedRoutesGoLive ==
  route # NotPlanned =>
    /\ route.features \cap {"hardware_control", "bidirectional_sync"} # {} \/ route.midi =>
         Proof({"usb_midi"}, {"input", "output"})
    /\ "audio_capture" \in route.features => Proof({"usb_audio", "analogue_audio"}, {"input"})
    /\ "audio_capture" \in route.features <=> "allowed" \in route.capture
    /\ route.midi /\ "transport" \in device => "hardware_control" \in route.features
=============================================================================
