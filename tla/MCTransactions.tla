--------------------------- MODULE MCTransactions ---------------------------
(* The journal in the hands of any client, the journal inside the service,  *)
(* which only ever begins, and the planning that decides whether it may:    *)
(* "owner" picks one of them for a behaviour.  Ids and backups are only     *)
(* compared for equality.                                                   *)
EXTENDS LocalBridgeService, Negotiation

VARIABLE owner

(* Everything qualified but for one capability at a time, and what ships.   *)
AllDevice == Studio \cup {"parameter_read", "parameter_write", "stereo", "control_qualified"}
AllPlatform == {"runtime_qualified", "local_file_access", "usb_device_access", "audio_backend",
                "virtual_midi", "companion_route", "direct_mobile_host_route"}
AllDaw == {"audio_import", "midi_import", "direct_project_create", "track_create",
           "parameter_feedback"}
Image(f) == {f[x] : x \in DOMAIN f}
OneShort(all) == {all} \cup {all \ {x} : x \in all}
MCDevices == OneShort(AllDevice) \cup Image(BuiltinDevices)
MCPlatforms == OneShort(AllPlatform) \cup Image(BuiltinPlatforms)
MCDaws == {AllDaw, AllDaw \ {"parameter_feedback"}} \cup Image(BuiltinDaws)
MCDeclarations == {{}, {"storage", "usb_midi", "usb_audio", "analogue_audio"}}
MCFindings == [protocol : {"mass_storage", "usb_midi", "usb_audio"}, level : {0, 1, 3},
               can : {{"input"}, {"output"}, {"input", "output"}}]
              \cup [protocol : {"project_files", "analogue_audio"}, level : {0, 3}, can : {{"input"}}]

(* One of the three parties is short of something, the others are not.      *)
OneIsShort ==
  \/ device = AllDevice /\ platform = AllPlatform
  \/ device = AllDevice /\ daw = AllDaw
  \/ platform = AllPlatform /\ daw = AllDaw
  \/ device = Studio /\ daw = BuiltinDaws["cubase"]
AtRest ==
  /\ device = AllDevice /\ platform = AllPlatform /\ daw = AllDaw /\ declared = {}

MCInit ==
  /\ ServiceInit /\ PlanInit /\ owner \in {"client", "service", "planner"}
  /\ owner = "planner" => OneIsShort /\ localAccess
  /\ owner # "planner" => AtRest
MCNext ==
  /\ UNCHANGED owner
  /\ \/ owner = "client" /\ Next /\ UNCHANGED <<serviceVars, planVars>>
     \/ owner = "service" /\ ServiceNext /\ UNCHANGED planVars
     \/ owner = "planner" /\ PlanNext /\ UNCHANGED <<vars, serviceVars>>
MCSpec == MCInit /\ [][MCNext]_<<vars, serviceVars, planVars, owner>>

IdSymmetry == Permutations(Ids) \cup Permutations(Backups)
=============================================================================
