---------------------------- MODULE SessionImport ----------------------------
(***************************************************************************)
(* Bringing an MPC project into a session: inspect_xpj, import_xpj and     *)
(* serialize_import_json of src/core/mpc_xpj_reader.cpp, the checks and    *)
(* the archive plan of src/core/session_tools.cpp, and the xpj-import      *)
(* command of src/main.cpp that writes a file.                             *)
(*                                                                         *)
(* Identifiers are tuples of what the code concatenates.  StableId is the  *)
(* lossy normalisation of a name: different names may share one id.  A     *)
(* list of the session is a function on the places its elements come from  *)
(* in the project.  Left out: limits on bytes and nodes (a file over one   *)
(* is "broken"), gains, pans, ticks, the mixer, the copy of the source     *)
(* that a file below a limit carries, and parts an import leaves empty.    *)
(***************************************************************************)
EXTENDS Integers, Sequences, FiniteSets, Functions

CONSTANTS Projects,      \* the XPJ files considered
          XpjNames,      \* of files, tracks and programs
          StableId,      \* name -> identifier, as stable_id computes it
          None,          \* an empty string, an absent key, no file
          Torn           \* what is left of a file that was not written to its end

Instrument == [file : XpjNames \cup {None}, slice : BOOLEAN]
Project ==
  [samples : Seq(XpjNames),
   tracks : Seq([name : XpjNames, type : {"drum", "other"}, program : XpjNames,
                 instruments : Seq(Instrument)]),
   sequences : Seq([key : Int \cup {None}, clips : Seq([track : XpjNames, notes : Nat])]),
   songs : Seq(Seq([sequence : Int, repeats : Int])),
   container : {"gzip", "plain", "broken"}, data : BOOLEAN, tempo : Int]

ASSUME ImportAssumption ==
  Projects \subseteq Project /\ None \notin XpjNames /\ Torn # None

VARIABLES project,   \* the source file, which nothing here changes
          present,   \* files now in the sibling _[ProjectData] folder
          report,    \* the last inspection, or None
          imported,  \* what import_xpj said: "valid", "invalid" or "nothing" yet
          session,   \* the session of the XpjCanonicalImport, or None
          told,      \* what the command said: "imported", "error" or "nothing" yet
          output,    \* the session.ubridge.json: None, Torn or what it says
          lost,      \* whether the file was cut short as it was closed
          archive    \* the PortableArchivePlan, or None

commandVars == <<told, output, lost>>
importVars == <<project, present, report, imported, session, commandVars, archive>>
-----------------------------------------------------------------------------
(* Samples, tracks and pads.                                               *)
Assets(p) ==
  [i \in DOMAIN p.samples |->
     [id |-> <<i, StableId[p.samples[i]]>>, file |-> p.samples[i],
      fingerprint |-> None, required |-> TRUE]]

(* asset_by_file is keyed by the file name: of several samples the last.   *)
SamplesNamed(p, file) == {i \in DOMAIN p.samples : p.samples[i] = file}
AssetOf(p, file) ==
  IF SamplesNamed(p, file) = {} THEN None
  ELSE Assets(p)[CHOOSE i \in SamplesNamed(p, file) :
                   \A j \in SamplesNamed(p, file) : j <= i].id

ProgramId(t) == StableId[t.program]
DrumTracks(p) == {i \in DOMAIN p.tracks : p.tracks[i].type = "drum"}

(* An instrument without a layer that names a sample has no pad, but       *)
(* counts: a pad keeps its place on the device.                            *)
PadsOf(p, i) ==
  {k \in DOMAIN p.tracks[i].instruments : p.tracks[i].instruments[k].file # None}
Pad(p, t, k) ==
  [id |-> <<ProgramId(t), k>>, index |-> k, program |-> ProgramId(t),
   asset |-> AssetOf(p, t.instruments[k].file)]
PadPlaces(p) == UNION {{i} \X PadsOf(p, i) : i \in DrumTracks(p)}
Pads(p) == [x \in PadPlaces(p) |-> Pad(p, p.tracks[x[1]], x[2])]
Slices(p) ==
  [x \in {y \in PadPlaces(p) : p.tracks[y[1]].instruments[y[2]].slice} |->
     [id |-> Pads(p)[x].id, asset |-> Pads(p)[x].asset]]
Programs(p) ==
  [i \in DrumTracks(p) |->
     [id |-> ProgramId(p.tracks[i]), pads |-> {Pads(p)[<<i, k>>].id : k \in PadsOf(p, i)}]]
-----------------------------------------------------------------------------
(* Sequences, clips and songs.  An entry without a key is numbered by how  *)
(* many different keys came before it.                                     *)
SequenceKeys(p) ==
  LET keys[j \in DOMAIN p.sequences] ==
        IF p.sequences[j].key = None THEN Cardinality({keys[i] : i \in 1 .. j - 1})
        ELSE p.sequences[j].key
  IN  keys
KnownKeys(p) == {SequenceKeys(p)[j] : j \in DOMAIN p.sequences}

(* A clip names its track; the first track of that name gets it, and a     *)
(* clip of an unknown track is left out with its notes.                    *)
TracksNamed(p, name) == {i \in DOMAIN p.tracks : p.tracks[i].name = name}
TrackOf(p, name) == CHOOSE i \in TracksNamed(p, name) : \A j \in TracksNamed(p, name) : i <= j
ClipsOf(p, j) ==
  {c \in DOMAIN p.sequences[j].clips : TracksNamed(p, p.sequences[j].clips[c].track) # {}}
Clip(p, key, c) ==
  [id |-> <<key, TrackOf(p, c.track)>>, track |-> TrackOf(p, c.track), sequence |-> key]
ClipPlaces(p) == UNION {{j} \X ClipsOf(p, j) : j \in DOMAIN p.sequences}
Clips(p) ==
  [x \in ClipPlaces(p) |-> Clip(p, SequenceKeys(p)[x[1]], p.sequences[x[1]].clips[x[2]])]

(* Notes are kept apart from the clips, in one list: an event knows its    *)
(* track, and its sequence by an id that numbers the notes of a sequence.  *)
NotePlaces(p) ==
  UNION {{x} \X (1 .. p.sequences[x[1]].clips[x[2]].notes) : x \in ClipPlaces(p)}
Earlier(p, e) ==
  {d \in NotePlaces(p) : /\ d[1][1] = e[1][1]
                         /\ d[1][2] < e[1][2] \/ (d[1][2] = e[1][2] /\ d[2] < e[2])}
MidiEvents(p) ==
  [e \in NotePlaces(p) |->
     [id |-> <<SequenceKeys(p)[e[1][1]], Cardinality(Earlier(p, e))>>,
      track |-> Clips(p)[e[1]].track]]

(* A song with no items is skipped; an item of an unknown sequence is      *)
(* left out.                                                               *)
Songs(p) ==
  [i \in {k \in DOMAIN p.songs : p.songs[k] # <<>>} |->
     [id |-> i, steps |-> {item \in Range(p.songs[i]) : item.sequence \in KnownKeys(p)}]]

Session(p) ==
  [tempo |-> p.tempo, assets |-> Assets(p),
   tracks |-> [i \in DOMAIN p.tracks |-> [id |-> i, name |-> p.tracks[i].name]],
   programs |-> Programs(p), pads |-> Pads(p), slices |-> Slices(p),
   sequences |-> [j \in DOMAIN p.sequences |-> [id |-> SequenceKeys(p)[j]]],
   clips |-> Clips(p), events |-> MidiEvents(p), songs |-> Songs(p)]

(* serialize_import_json: neither the programs nor content hashes are in   *)
(* the file; what is left of a program is the id its pads have in common.  *)
Serialized(s) ==
  [tempo |-> s.tempo,
   assets |-> [i \in DOMAIN s.assets |-> [id |-> s.assets[i].id, file |-> s.assets[i].file]],
   tracks |-> s.tracks, pads |-> s.pads, slices |-> s.slices, sequences |-> s.sequences,
   clips |-> s.clips, events |-> s.events, songs |-> s.songs]
-----------------------------------------------------------------------------
(* validate: its errors; warnings stop nothing.                            *)
NoDuplicateCheck(values) == FALSE
DuplicateIds(values) ==
  \E i, j \in DOMAIN values : i # j /\ values[i].id = values[j].id

Validate(s) ==
  {e \in {"invalid_tempo"} : s.tempo <= 0 \/ s.tempo > 999}
  \cup {e \in {"duplicate_track_id"} : DuplicateIds(s.tracks)}
  \cup {e \in {"duplicate_pad_id"} : DuplicateIds(s.pads)}
  \cup {e \in {"duplicate_slice_id"} : DuplicateIds(s.slices)}
  \cup {e \in {"duplicate_program_id"} : DuplicateIds(s.programs)}
  \cup {e \in {"duplicate_sequence_id"} : DuplicateIds(s.sequences)}
  \cup {e \in {"duplicate_song_id"} : DuplicateIds(s.songs)}
  \cup {e \in {"duplicate_clip_id"} : DuplicateIds(s.clips)}
  \cup {e \in {"orphan_clip"} :
          \E c \in Range(s.clips) : c.track \notin {t.id : t \in Range(s.tracks)}}
  \cup {e \in {"song_missing_sequence"} :
          \E song \in Range(s.songs) : \E step \in song.steps :
            step.sequence \notin {q.id : q \in Range(s.sequences)}}
  \cup {e \in {"invalid_song_repetitions"} :
          \E song \in Range(s.songs) : \E step \in song.steps : step.repeats <= 0}

(* analyze_assets and plan_archive: a required asset without a fingerprint *)
(* is missing, and nothing is packaged while one is.                       *)
Missing(s) == {a.id : a \in {x \in Range(s.assets) : x.required /\ x.fingerprint = None}}
Unreferenced(s) == {a.id : a \in Range(s.assets)} \ {pad.asset : pad \in Range(s.pads)}
PlanWithoutUnused(s) ==
  [entries |-> {a \in Range(s.assets) : a.id \notin Unreferenced(s)},
   missing |-> Missing(s) \ Unreferenced(s), unreferenced |-> Unreferenced(s),
   ready |-> Missing(s) \subseteq Unreferenced(s)]
PlanOf(s) ==
  [entries |-> Range(s.assets), missing |-> Missing(s), unreferenced |-> Unreferenced(s),
   ready |-> Missing(s) = {}]
-----------------------------------------------------------------------------
ImportInit ==
  /\ project \in Projects
  /\ present \in SUBSET Range(project.samples)
  /\ imported = "nothing" /\ told = "nothing" /\ lost = FALSE
  /\ report = None /\ session = None /\ output = None /\ archive = None

(* inspect_xpj insists on the gzip signature; read_gzip, which the import  *)
(* uses alone, also reads a plain file.                                    *)
Inspect ==
  /\ imported = "nothing"
  /\ LET json == project.container = "gzip" /\ project.data IN
       report' = [json |-> json,
                  resolved |-> {i \in DOMAIN project.samples :
                                  json /\ project.samples[i] \in present}]
  /\ UNCHANGED <<project, present, imported, session, commandVars, archive>>

Readable(p) == p.container \in {"gzip", "plain"} /\ p.data

(* import_xpj: it throws nothing; what goes wrong makes it invalid.        *)
ImportXpj ==
  /\ imported = "nothing" /\ Readable(project)
  /\ session' = Session(project)
  /\ imported' = IF Validate(Session(project)) = {} THEN "valid" ELSE "invalid"
  /\ UNCHANGED <<project, present, report, commandVars, archive>>

ImportRejected ==
  /\ imported = "nothing" /\ ~Readable(project)
  /\ imported' = "invalid"
  /\ UNCHANGED <<project, present, report, session, commandVars, archive>>

(* A file that goes away between exists and file_size throws.              *)
ImportFails ==
  /\ imported = "nothing" /\ Readable(project)
  /\ \E f \in present : present' = present \ {f}
  /\ imported' = "invalid"
  /\ UNCHANGED <<project, report, session, commandVars, archive>>

(* The command: write_text opens and so truncates the file, writes it,     *)
(* looks at the stream and closes it, which may lose what was buffered.    *)
OpenOutput ==
  /\ imported = "valid" /\ told = "nothing" /\ output = None
  /\ output' = Torn
  /\ UNCHANGED <<project, present, report, imported, session, told, lost, archive>>

WriteOutput ==
  /\ told = "nothing" /\ output = Torn
  /\ told' = "imported"
  /\ \/ output' = Serialized(session) /\ UNCHANGED lost
     \/ lost' = TRUE /\ UNCHANGED output
  /\ UNCHANGED <<project, present, report, imported, session, archive>>

(* It throws: the import was not valid, or the folder or the file could    *)
(* not be made, or the stream was bad.                                     *)
CommandFails ==
  /\ imported # "nothing" /\ told = "nothing"
  /\ told' = "error"
  /\ UNCHANGED <<project, present, report, imported, session, output, lost, archive>>

(* External: somebody hashes the file of an asset that is there.           *)
Relink(i) ==
  /\ imported = "valid"
  /\ session.assets[i].file \in present /\ session.assets[i].fingerprint = None
  /\ session' = [session EXCEPT !.assets[i].fingerprint = session.assets[i].file]
  /\ UNCHANGED <<project, present, report, imported, commandVars, archive>>

PlanArchive ==
  /\ imported = "valid"
  /\ archive' = PlanOf(session)
  /\ UNCHANGED <<project, present, report, imported, session, commandVars>>

ImportNext ==
  \/ Inspect \/ ImportXpj \/ ImportRejected \/ ImportFails
  \/ OpenOutput \/ WriteOutput \/ CommandFails \/ PlanArchive
  \/ \E i \in DOMAIN project.samples : Relink(i)

ImportSpec == ImportInit /\ [][ImportNext]_importVars
-----------------------------------------------------------------------------
ResolvesOnce(values, id) == Cardinality({i \in DOMAIN values : values[i].id = id}) = 1

(* What a file refers to is in it, exactly once, although ids come from    *)
(* lossy and repeated names.  Programs are not in it: see KitsKept.        *)
ReferencesResolve(f) ==
  /\ \A c \in Range(f.clips) :
       ResolvesOnce(f.tracks, c.track) /\ ResolvesOnce(f.sequences, c.sequence)
  /\ \A e \in Range(f.events) :
       ResolvesOnce(f.events, e.id) /\ ResolvesOnce(f.tracks, e.track)
  /\ \A song \in Range(f.songs) : \A step \in song.steps :
       ResolvesOnce(f.sequences, step.sequence)
  /\ \A pad \in Range(f.pads) :
       /\ ResolvesOnce(f.pads, pad.id)
       /\ pad.asset # None => ResolvesOnce(f.assets, pad.asset)
  /\ \A slice \in Range(f.slices) :
       /\ ResolvesOnce(f.slices, slice.id)
       /\ slice.asset # None => ResolvesOnce(f.assets, slice.asset)

(* The pads that share a program's id are those of one drum track, each    *)
(* instrument that names a sample in its place and no other; and a pad has *)
(* an asset of the instrument's file, or none.                             *)
KitsKept(p, f) ==
  \A i \in DrumTracks(p) :
    LET pads == {pad \in Range(f.pads) : pad.program = ProgramId(p.tracks[i])}
    IN  /\ {pad.index : pad \in pads} = PadsOf(p, i)
        /\ \A pad \in pads : pad.asset # None =>
             \E a \in Range(f.assets) :
               a.id = pad.asset /\ a.file = p.tracks[i].instruments[pad.index].file

(* Each clip of a known track is there, with its notes and no others among *)
(* the events of its sequence on its track.                                *)
NotesOf(f, clip) ==
  {e \in DOMAIN f.events : f.events[e].id[1] = clip.sequence /\ f.events[e].track = clip.track}
ClipsKept(p, f) ==
  \A j \in DOMAIN p.sequences : \A c \in Range(p.sequences[j].clips) :
    TracksNamed(p, c.track) # {} =>
      \E d \in Range(f.clips) :
        /\ f.tracks[d.track].name = c.track /\ d.sequence = f.sequences[j].id
        /\ Cardinality(NotesOf(f, d)) = c.notes

(* An import that is reported is written whole: its references resolve,    *)
(* and nothing of the project that the file has a place for is left behind *)
(* or mixed with something else.  This leaves out a file that was cut      *)
(* short as it was closed, which write_text cannot see.  An import that is *)
(* not valid touches no file.                                              *)
WrittenImportsAreWhole ==
  /\ told = "imported" /\ ~lost =>
       ReferencesResolve(output) /\ KitsKept(project, output) /\ ClipsKept(project, output)
  /\ imported # "valid" => output = None

(* An archive that is ready can rebuild the kit: every pad that has a      *)
(* sample finds it in the manifest, with a content hash, and no entry is   *)
(* left out because no pad seems to use it.                                *)
ReadyArchivesAreComplete ==
  archive # None /\ archive.ready =>
    /\ \A pad \in Range(session.pads) :
         pad.asset # None =>
           \E e \in archive.entries : e.id = pad.asset /\ e.fingerprint # None
    /\ \A f \in Range(project.samples) :
         \E e \in archive.entries : e.file = f /\ e.fingerprint = f
=============================================================================
