---------------------------- MODULE RoutingProofs ----------------------------
(***************************************************************************)
(* What may be routed, and what is: a plan stays valid however much more   *)
(* is found out about a connection, and goes live on qualified evidence    *)
(* only; the mediator lets no echo back, no burst through, and reports the *)
(* transport it forwarded.  For all profiles, evidence, policies, windows, *)
(* slots and clocks.                                                       *)
(***************************************************************************)
EXTENDS Negotiation, MidiMediator, FiniteSetTheorems, SequenceTheorems, TLAPS

-----------------------------------------------------------------------------
(* Every item of evidence has a level, so there is a strongest one.         *)
Rated == \A item \in evidence : item.level \in Levels

(* What is still true of a plan when the evidence has grown.                *)
PlanInv == Rated /\ PlansStayValid /\ OnlyQualifiedRoutesGoLive

(* A set of levels has a highest one, and Max is it.                        *)
LEMMA MaxOfLevels ==
  ASSUME NEW S \in SUBSET Levels, S # {}
  PROVE  Max(S) \in S /\ \A x \in S : Max(S) >= x
<1>1. \A x \in S : x = 0 \/ x = 1 \/ x = 2 \/ x = 3
  BY DEF Levels
<1>2. \E x \in S : \A y \in S : x >= y
  <2>1. CASE 3 \in S
    BY <1>1, <2>1
  <2>2. CASE 3 \notin S /\ 2 \in S
    BY <1>1, <2>2
  <2>3. CASE 3 \notin S /\ 2 \notin S /\ 1 \in S
    BY <1>1, <2>3
  <2>4. CASE 3 \notin S /\ 2 \notin S /\ 1 \notin S
    BY <1>1, <2>4
  <2>5. QED BY <2>1, <2>2, <2>3, <2>4
<1>3. QED BY <1>2 DEF Max

(* strongest_protocol_evidence is the level of an item, or nothing: of any  *)
(* collection of rated items.                                               *)
Fits(items, protocol, direction) ==
  {x \in items : x.protocol = protocol /\ SupportsDirection(x, direction)}
Best(items, protocol, direction) ==
  Max({0} \cup {x.level : x \in Fits(items, protocol, direction)})

LEMMA BestIsFound ==
  ASSUME NEW items, \A x \in items : x.level \in Levels, NEW protocol, NEW direction
  PROVE  LET best == Best(items, protocol, direction)
         IN  /\ best \in Levels
             /\ best = 0 \/ \E x \in Fits(items, protocol, direction) : x.level = best
             /\ \A x \in Fits(items, protocol, direction) : best >= x.level
<1> DEFINE L == {0} \cup {x.level : x \in Fits(items, protocol, direction)}
<1>1. L \in SUBSET Levels /\ 0 \in L
  BY DEF Fits, Levels
<1>2. Max(L) \in L /\ \A x \in L : Max(L) >= x
  <2> HIDE DEF L
  <2>1. QED BY <1>1, MaxOfLevels
<1>3. QED BY <1>1, <1>2 DEF Best

(* More evidence never makes the strongest weaker.                          *)
LEMMA BestGrows ==
  ASSUME NEW more, \A x \in more : x.level \in Levels, NEW items \in SUBSET more,
         NEW protocol, NEW direction
  PROVE  Best(more, protocol, direction) >= Best(items, protocol, direction)
<1>1. Fits(items, protocol, direction) \subseteq Fits(more, protocol, direction)
  BY DEF Fits
<1>2. /\ Best(items, protocol, direction) \in Levels
      /\ \/ Best(items, protocol, direction) = 0
         \/ \E x \in Fits(items, protocol, direction) :
              x.level = Best(items, protocol, direction)
  BY BestIsFound
<1>3. /\ Best(more, protocol, direction) \in Levels
      /\ \A x \in Fits(more, protocol, direction) : Best(more, protocol, direction) >= x.level
  BY BestIsFound
<1>4. QED BY <1>1, <1>2, <1>3 DEF Levels

(* strongest_protocol_evidence is that of the evidence there is, and then.  *)
LEMMA StrongestIsBest ==
  ASSUME NEW protocol, NEW direction
  PROVE  /\ Strongest(protocol, direction) = Best(evidence, protocol, direction)
         /\ Strongest(protocol, direction)' = Best(evidence', protocol, direction)
BY DEF Strongest, Best, Fits, SupportsDirection

(* What the evidence grows by leaves every level where it was, or raises    *)
(* it: also where a flag stood in for evidence.                             *)
Learns == Rated /\ Rated' /\ evidence \subseteq evidence'
          /\ UNCHANGED <<device, platform, daw, declared, route>>

LEMMA LevelGrows ==
  ASSUME Learns, NEW protocol, NEW direction
  PROVE  /\ Level(protocol, direction) \in Levels /\ Level(protocol, direction)' \in Levels
         /\ Level(protocol, direction)' >= Level(protocol, direction)
<1> DEFINE old == Best(evidence, protocol, direction)
           new == Best(evidence', protocol, direction)
<1>1. old \in Levels /\ new \in Levels
  BY BestIsFound DEF Learns, Rated
<1>2. new >= old
  BY BestGrows DEF Learns, Rated
<1>3. /\ Level(protocol, direction) =
           (IF old # 0 THEN old ELSE IF FlagOf[protocol] \in declared THEN Declared ELSE 0)
      /\ Level(protocol, direction)' =
           (IF new # 0 THEN new ELSE IF FlagOf[protocol] \in declared THEN Declared ELSE 0)
  BY StrongestIsBest DEF Level, Learns
<1> HIDE DEF old, new
<1>4. QED BY <1>1, <1>2, <1>3 DEF Levels, Declared

(* What needs a level keeps it.                                             *)
LEMMA RoutesStay ==
  ASSUME Learns
  PROVE  /\ SafePreflight => SafePreflight'
         /\ HardwareControl => HardwareControl'
         /\ AudioCapturable => AudioCapturable'
         /\ CaptureAllowed => CaptureAllowed'
<1>1. /\ StorageLevel \in Levels /\ StorageLevel' \in Levels /\ StorageLevel' >= StorageLevel
  BY LevelGrows DEF StorageLevel, Stronger, Levels
<1>2. /\ MidiLevel \in Levels /\ MidiLevel' \in Levels /\ MidiLevel' >= MidiLevel
  BY LevelGrows DEF MidiLevel
<1>3. /\ AudioLevel \in Levels /\ AudioLevel' \in Levels /\ AudioLevel' >= AudioLevel
  BY LevelGrows DEF AudioLevel, Stronger, Levels
<1>4. SafePreflight => SafePreflight'
  BY <1>1 DEF SafePreflight, Learns, Levels, Declared
<1>5. HardwareControl => HardwareControl'
  BY <1>2 DEF HardwareControl, Learns, Levels, Qualified
<1>6. AudioCapturable => AudioCapturable'
  BY <1>3 DEF AudioCapturable, Learns, Levels, Qualified
<1>7. CaptureAllowed => CaptureAllowed'
  BY LevelGrows DEF CaptureAllowed, Learns, Levels, Qualified
<1>8. QED BY <1>4, <1>5, <1>6, <1>7

(* So do the plans that are made of these.                                  *)
LEMMA PlansGrow ==
  ASSUME Learns
  PROVE  /\ Integration \subseteq Integration'
         /\ Steps(Integration) \subseteq Steps(Integration)'
         /\ Plans.capture \subseteq Plans.capture'
         /\ MidiAllowed => MidiAllowed'
<1>1. /\ SafePreflight => SafePreflight'
      /\ HardwareControl => HardwareControl'
      /\ AudioCapturable => AudioCapturable'
      /\ CaptureAllowed => CaptureAllowed'
  BY RoutesStay
<1>2. /\ DirectDawCreation => DirectDawCreation'
      /\ BidirectionalSync => BidirectionalSync'
      /\ MobileBridge => MobileBridge'
      /\ CaptureSequential => CaptureSequential'
  BY <1>1 DEF DirectDawCreation, BidirectionalSync, MobileBridge, CaptureSequential, Learns
<1>3. Integration \subseteq Integration'
  BY <1>1, <1>2, Zenon DEF Integration, Learns
<1>4. Steps(Integration) \subseteq Steps(Integration)'
  <2>1. \A f, g : f \subseteq g => Steps(f) \subseteq Steps(g)
    BY DEF Steps
  <2>2. Steps(Integration)' = Steps(Integration')
    BY DEF Steps
  <2>3. QED BY <1>3, <2>1, <2>2
<1>5. Plans.capture \subseteq Plans.capture'
  BY <1>1, <1>2 DEF Plans
<1>6. MidiAllowed => MidiAllowed'
  <2>1. /\ MidiLevel \in Levels /\ MidiLevel' \in Levels /\ MidiLevel' >= MidiLevel
    BY LevelGrows DEF MidiLevel
  <2>2. QED BY <2>1 DEF MidiAllowed, Learns, Levels, Qualified
<1>7. QED BY <1>3, <1>4, <1>5, <1>6

(* A level of qualified is the level of an item that goes all the ways      *)
(* needed: flags only declare.                                              *)
LEMMA QualifiedIsProved ==
  ASSUME Rated, NEW protocol, NEW direction, Level(protocol, direction) >= Qualified
  PROVE  Proof({protocol}, Needs[direction])
<1> DEFINE best == Best(evidence, protocol, direction)
<1>1. best \in Levels
      /\ (best = 0 \/ \E x \in Fits(evidence, protocol, direction) : x.level = best)
  BY BestIsFound DEF Rated
<1>2. Level(protocol, direction) =
        (IF best # 0 THEN best ELSE IF FlagOf[protocol] \in declared THEN Declared ELSE 0)
  BY StrongestIsBest DEF Level
<1> HIDE DEF best
<1>3. best = Qualified
  BY <1>1, <1>2 DEF Levels, Declared, Qualified
<1>4. QED BY <1>1, <1>3 DEF Fits, SupportsDirection, Proof, Qualified

(* Live control, routing and capture need that level; both capture plans do. *)
LEMMA LiveIsProved ==
  ASSUME Rated
  PROVE  /\ HardwareControl \/ MidiAllowed => Proof({"usb_midi"}, {"input", "output"})
         /\ CaptureAllowed => Proof({"usb_audio", "analogue_audio"}, {"input"})
         /\ AudioCapturable <=> CaptureAllowed
<1>1. Needs["duplex"] = {"input", "output"} /\ Needs["input"] = {"input"}
  BY DEF Needs
<1>2. MidiLevel >= Qualified => Proof({"usb_midi"}, {"input", "output"})
  BY <1>1, QualifiedIsProved DEF MidiLevel
<1>3. \A p \in {"usb_audio", "analogue_audio"} : Level(p, "input") >= Qualified =>
        Proof({"usb_audio", "analogue_audio"}, {"input"})
  <2>1. ASSUME NEW p \in {"usb_audio", "analogue_audio"}, Level(p, "input") >= Qualified
        PROVE  Proof({"usb_audio", "analogue_audio"}, {"input"})
    <3>1. Proof({p}, {"input"})
      BY <1>1, <2>1, QualifiedIsProved
    <3>2. QED BY <3>1 DEF Proof
  <2>2. QED BY <2>1
<1>4. AudioLevel >= Qualified <=>
        Level("usb_audio", "input") >= Qualified \/ Level("analogue_audio", "input") >= Qualified
  <2>1. \A p : Level(p, "input") \in Levels
    BY StrongestIsBest, BestIsFound DEF Level, Rated, Levels, Declared
  <2>2. QED BY <2>1 DEF AudioLevel, Stronger, Levels, Qualified
<1>5. HardwareControl \/ MidiAllowed => MidiLevel >= Qualified
  BY DEF HardwareControl, MidiAllowed
<1>6. /\ AudioCapturable <=> CaptureAllowed
      /\ AudioCapturable => AudioLevel >= Qualified
  BY <1>4 DEF AudioCapturable, CaptureAllowed
<1>7. QED BY <1>2, <1>3, <1>4, <1>5, <1>6

(* The steps: something is found out, or a plan is made.                    *)
LEMMA LearningKeeps ==
  ASSUME PlanInv, Learns
  PROVE  PlanInv'
<1>1. PlansStayValid'
  BY PlansGrow DEF PlanInv, PlansStayValid, Learns
<1>2. \A protocols, ways : Proof(protocols, ways) => Proof(protocols, ways)'
  BY DEF Proof, Learns
<1>3. OnlyQualifiedRoutesGoLive'
  BY <1>2 DEF PlanInv, OnlyQualifiedRoutesGoLive, Learns
<1>4. QED BY <1>1, <1>3 DEF PlanInv, Learns

(* A plan just made is what the negotiation says now.                       *)
LEMMA PlanningKeeps ==
  ASSUME PlanInv, PlanRoute
  PROVE  PlanInv'
<1>1. UNCHANGED <<device, platform, daw, declared, evidence>> /\ route' = Plans
  BY DEF PlanRoute
<1>2. /\ Plans.features = Integration /\ Plans.steps = Steps(Integration)
      /\ Plans.midi = MidiAllowed
      /\ "allowed" \in Plans.capture <=> CaptureAllowed
  BY DEF Plans
<1>3. /\ Integration' = Integration /\ Steps(Integration)' = Steps(Integration)
      /\ Plans' = Plans /\ MidiAllowed' = MidiAllowed
  <2>1. \A p, d : Level(p, d)' = Level(p, d)
    BY <1>1 DEF Level, Strongest, SupportsDirection
  <2>2. /\ MidiLevel' = MidiLevel /\ AudioLevel' = AudioLevel /\ StorageLevel' = StorageLevel
    BY <2>1 DEF MidiLevel, AudioLevel, StorageLevel, Stronger
  <2>3. /\ SafePreflight' = SafePreflight /\ HardwareControl' = HardwareControl
        /\ AudioCapturable' = AudioCapturable /\ CaptureAllowed' = CaptureAllowed
        /\ DirectDawCreation' = DirectDawCreation /\ MidiAllowed' = MidiAllowed
    BY <1>1, <2>1, <2>2 DEF SafePreflight, HardwareControl, AudioCapturable, CaptureAllowed,
       DirectDawCreation, MidiAllowed
  <2>4. /\ CaptureSequential' = CaptureSequential /\ BidirectionalSync' = BidirectionalSync
        /\ MobileBridge' = MobileBridge
    BY <1>1, <2>3 DEF CaptureSequential, BidirectionalSync, MobileBridge
  <2>5. Integration' = Integration
    BY <1>1, <2>3, <2>4 DEF Integration
  <2>6. Steps(Integration)' = Steps(Integration)
    BY <2>5 DEF Steps
  <2>7. QED BY <2>3, <2>4, <2>5, <2>6 DEF Plans
<1>4. PlansStayValid'
  BY <1>1, <1>2, <1>3 DEF PlansStayValid
<1>5. /\ "hardware_control" \in Integration <=> HardwareControl
      /\ "bidirectional_sync" \in Integration => HardwareControl
      /\ "audio_capture" \in Integration <=> AudioCapturable
  BY DEF Integration, BidirectionalSync
<1>6. MidiAllowed /\ "transport" \in device => HardwareControl
  BY DEF MidiAllowed, HardwareControl
<1>7. \A protocols, ways : Proof(protocols, ways)' = Proof(protocols, ways)
  BY <1>1 DEF Proof
<1>8. OnlyQualifiedRoutesGoLive'
  <2>1. Rated
    BY DEF PlanInv
  <2>2. QED BY <1>1, <1>2, <1>5, <1>6, <1>7, <2>1, LiveIsProved DEF OnlyQualifiedRoutesGoLive
<1>9. QED BY <1>1, <1>4, <1>8 DEF PlanInv, Rated

(* The invariant of planning holds for any profiles, flags and findings.    *)
LEMMA PlanInvHolds == PlanSpec => []PlanInv
<1>1. PlanInit => PlanInv
  BY DEF PlanInit, PlanInv, Rated, PlansStayValid, OnlyQualifiedRoutesGoLive
<1>2. ASSUME PlanInv, [PlanNext]_planVars
      PROVE  PlanInv'
  <2>1. CASE PlanRoute
    BY <2>1, <1>2, PlanningKeeps
  <2>2. ASSUME NEW item, item.level \in Levels, evidence' = evidence \cup {item},
               UNCHANGED <<device, platform, daw, declared, route>>
        PROVE  PlanInv'
    <3>1. Learns
      BY <1>2, <2>2 DEF Learns, PlanInv, Rated
    <3>2. QED BY <1>2, <3>1, LearningKeeps
  <2>3. ASSUME NEW protocol, Discover(protocol)
        PROVE  PlanInv'
    BY <2>2, <2>3 DEF Discover, Levels, Observed
  <2>4. ASSUME NEW item \in Findings, Qualify(item)
        PROVE  PlanInv'
    BY <2>2, <2>4, NegotiationAssumption DEF Qualify
  <2>5. CASE UNCHANGED planVars
    <3>1. Learns
      BY <1>2, <2>5 DEF Learns, PlanInv, Rated, planVars
    <3>2. QED BY <1>2, <3>1, LearningKeeps
  <2>6. QED BY <1>2, <2>1, <2>3, <2>4, <2>5 DEF PlanNext
<1>3. QED BY <1>1, <1>2, PTL DEF PlanSpec

(* "Evidence is deliberately monotonic" of the protocol capabilities: what  *)
(* negotiate, plan_audio_capture, plan_midi_route and plan_finish_in_daw    *)
(* once allowed, they allow of all evidence that contains the old.          *)
THEOREM PlansStay == PlanSpec => []PlansStayValid
BY PlanInvHolds, PTL DEF PlanInv

(* Nothing that negotiate or the route plans allow goes live on a flag, on  *)
(* an observation, or on two items that each go one way.                    *)
THEOREM OnlyQualifiedGoLive == PlanSpec => []OnlyQualifiedRoutesGoLive
BY PlanInvHolds, PTL DEF PlanInv
-----------------------------------------------------------------------------
(* The mediator.  A forwarded packet has a source, a message and a time.    *)
Packets == [source : Endpoints, message : Messages, at : Nat]
Windows == [started : Nat, messages : Nat]
TransportStates ==
  [run : {"stopped", "running", "continuing"}, pulses : Nat, position : Nat,
   lastTransport : Nat, lastClock : Nat,
   transportAuthority : Endpoints, clockAuthority : Endpoints]

MediatorTypes ==
  /\ policy \in Policies
  /\ transport \in TransportStates
  /\ forwards \in Seq(Packets) /\ policySince \in 0 .. Len(forwards)
  /\ clock \in [Endpoints -> Nat] /\ windows \in [Endpoints -> Windows]
  /\ nextEcho \in 0 .. EchoSlots - 1 /\ DOMAIN echoes = 0 .. EchoSlots - 1

(* The ring of echo records holds the last EchoSlots forwards.              *)
RecordOf(packet) ==
  [occupied |-> TRUE, target |-> Opposite(packet.source), message |-> packet.message,
   at |-> packet.at]
Remembered ==
  /\ nextEcho = Len(forwards) % EchoSlots
  /\ \A j \in 1 .. Len(forwards) : Len(forwards) - j < EchoSlots =>
       echoes[(j - 1) % EchoSlots] = RecordOf(forwards[j])

(* What a source sent under this policy from a time on, and in a stretch.   *)
From(fs, since, e, lo) ==
  {i \in since + 1 .. Len(fs) : fs[i].source = e /\ fs[i].at >= lo}
Span(fs, since, e, lo, hi) ==
  {i \in since + 1 .. Len(fs) : fs[i].source = e /\ fs[i].at >= lo /\ fs[i].at <= hi}

(* The window counts all that was sent since its start, its first packet    *)
(* was sent at the start or not at all, and the stretch before it holds     *)
(* less than a budget: the first packet of the window before is outside.    *)
Budgeted(fs, since, e, w) ==
  /\ w.messages <= MaxPerWindow
  /\ w.messages = 0 => \A i \in since + 1 .. Len(fs) : fs[i].source # e
  /\ w.messages > 0 =>
       /\ \A i \in since + 1 .. Len(fs) : fs[i].source = e => fs[i].at < w.started + RateWindow
       /\ Cardinality(From(fs, since, e, w.started)) <= w.messages
       /\ Cardinality(From(fs, since, e, w.started + 1)) <= w.messages - 1
       /\ Cardinality(Span(fs, since, e, w.started - RateWindow + 1, w.started - 1))
            <= MaxPerWindow - 1
Bounded(fs, since, e) ==
  \A t \in Nat : Cardinality(Span(fs, since, e, t, t + RateWindow - 1))
                   <= IF MaxPerWindow = 0 THEN 0 ELSE 2 * MaxPerWindow - 1
Limited ==
  \A e \in Endpoints :
    /\ windows[e].messages > 0 => windows[e].started <= clock[e]
    /\ \A i \in 1 .. Len(forwards) :
         forwards[i].source = e => forwards[i].at <= clock[e]
    /\ Budgeted(forwards, policySince, e, windows[e])
    /\ Bounded(forwards, policySince, e)

MediatorInv == MediatorTypes /\ Remembered /\ EchoesNeverReturn /\ Limited /\ TransportIsForwarded
-----------------------------------------------------------------------------
(* Counting.                                                                *)
LEMMA Counts ==
  ASSUME NEW n \in Nat, NEW A \in SUBSET (1 .. n)
  PROVE  /\ IsFiniteSet(A) /\ Cardinality(A) \in Nat
         /\ \A B \in SUBSET A : Cardinality(B) <= Cardinality(A)
<1>1. IsFiniteSet(1 .. n)
  BY FS_Interval
<1>2. IsFiniteSet(A)
  BY <1>1, FS_Subset
<1>3. QED BY <1>2, FS_Subset, FS_CardinalityType

(* One element more counts for one at most.                                 *)
LEMMA CountsOneMore ==
  ASSUME NEW n \in Nat, NEW A \in SUBSET (1 .. n), NEW B, NEW x, B \subseteq A \cup {x}
  PROVE  Cardinality(B) <= Cardinality(A) + 1 /\ Cardinality(B) \in Nat
<1>1. IsFiniteSet(A) /\ Cardinality(A) \in Nat
  BY Counts
<1>2. IsFiniteSet(A \cup {x}) /\ Cardinality(A \cup {x}) <= Cardinality(A) + 1
  <2>1. /\ IsFiniteSet(A \cup {x})
        /\ Cardinality(A \cup {x}) = IF x \in A THEN Cardinality(A) ELSE Cardinality(A) + 1
    BY <1>1, FS_AddElement, Zenon
  <2>2. QED BY <1>1, <2>1
<1>3. Cardinality(A \cup {x}) \in Nat
  BY <1>2, FS_CardinalityType
<1>4. IsFiniteSet(B) /\ Cardinality(B) <= Cardinality(A \cup {x})
  BY <1>2, FS_Subset
<1>5. Cardinality(B) \in Nat
  BY <1>4, FS_CardinalityType
<1>6. QED BY <1>1, <1>2, <1>3, <1>4, <1>5

(* What lies in two sets counts for no more than both.                      *)
LEMMA CountsBoth ==
  ASSUME NEW n \in Nat, NEW A \in SUBSET (1 .. n), NEW B \in SUBSET (1 .. n), NEW C,
         C \subseteq A \cup B
  PROVE  Cardinality(C) <= Cardinality(A) + Cardinality(B)
<1>1. /\ IsFiniteSet(A) /\ Cardinality(A) \in Nat /\ IsFiniteSet(B) /\ Cardinality(B) \in Nat
  BY Counts
<1>2. /\ Cardinality(A \cup B) = Cardinality(A) + Cardinality(B) - Cardinality(A \cap B)
  BY <1>1, FS_Union
<1>3. Cardinality(A \cap B) \in Nat
  <2>1. A \cap B \in SUBSET (1 .. n)
    OBVIOUS
  <2>2. QED BY <2>1, Counts
<1>4. Cardinality(C) <= Cardinality(A \cup B) /\ Cardinality(C) \in Nat
  <2>1. A \cup B \in SUBSET (1 .. n) /\ C \in SUBSET (1 .. n)
    OBVIOUS
  <2>2. QED BY <2>1, Counts
<1>5. Cardinality(A \cup B) \in Nat
  <2>1. A \cup B \in SUBSET (1 .. n)
    OBVIOUS
  <2>2. QED BY <2>1, Counts
<1>6. QED BY <1>1, <1>2, <1>3, <1>4, <1>5

(* A packet appended is at the end, and the others stay.                    *)
LEMMA Appended ==
  ASSUME NEW fs \in Seq(Packets), NEW p \in Packets
  PROVE  LET gs == Append(fs, p)
             n  == Len(fs)
         IN  /\ gs \in Seq(Packets) /\ Len(gs) = n + 1 /\ n \in Nat
             /\ DOMAIN gs = 1 .. n + 1 /\ DOMAIN fs = 1 .. n
             /\ gs[n + 1] = p /\ \A i \in 1 .. n : gs[i] = fs[i] /\ fs[i] \in Packets
BY AppendProperties

(* What a packet adds to the counts.                                        *)
LEMMA AppendCounts ==
  ASSUME NEW fs \in Seq(Packets), NEW p \in Packets, NEW since \in 0 .. Len(fs),
         NEW e \in Endpoints, NEW lo \in Int, NEW hi \in Int
  PROVE  LET gs == Append(fs, p)
             n  == Len(fs)
         IN  /\ From(fs, since, e, lo) \in SUBSET (1 .. n)
             /\ Span(fs, since, e, lo, hi) \in SUBSET (1 .. n)
             /\ From(gs, since, e, lo) \subseteq From(fs, since, e, lo) \cup {n + 1}
             /\ p.source # e \/ p.at < lo => From(gs, since, e, lo) = From(fs, since, e, lo)
             /\ Span(gs, since, e, lo, hi) \subseteq Span(fs, since, e, lo, hi) \cup {n + 1}
             /\ p.source # e \/ p.at < lo \/ p.at > hi =>
                  Span(gs, since, e, lo, hi) = Span(fs, since, e, lo, hi)
<1> DEFINE gs == Append(fs, p)
           n  == Len(fs)
<1>1. /\ Len(gs) = n + 1 /\ n \in Nat /\ gs[n + 1] = p
      /\ \A i \in 1 .. n : gs[i] = fs[i] /\ fs[i] \in Packets
  BY Appended
<1>2. p.at \in Nat
  BY DEF Packets
<1> HIDE DEF gs, n
<1>3. since + 1 .. Len(gs) = (since + 1 .. n) \cup {n + 1} /\ since + 1 .. n \subseteq 1 .. n
  BY <1>1 DEF n
<1>4. /\ From(fs, since, e, lo) \in SUBSET (1 .. n)
      /\ Span(fs, since, e, lo, hi) \in SUBSET (1 .. n)
  BY <1>3 DEF From, Span, n
<1>5. /\ From(gs, since, e, lo) \subseteq From(fs, since, e, lo) \cup {n + 1}
      /\ p.source # e \/ p.at < lo => From(gs, since, e, lo) = From(fs, since, e, lo)
  BY <1>1, <1>2, <1>3 DEF From, n
<1>6. /\ Span(gs, since, e, lo, hi) \subseteq Span(fs, since, e, lo, hi) \cup {n + 1}
      /\ p.source # e \/ p.at < lo \/ p.at > hi =>
           Span(gs, since, e, lo, hi) = Span(fs, since, e, lo, hi)
  BY <1>1, <1>2, <1>3 DEF Span, n
<1>7. QED BY <1>4, <1>5, <1>6 DEF gs, n

(* The same in numbers, with what the counts of one log have to do with     *)
(* each other.                                                              *)
LEMMA CountsOfSource ==
  ASSUME NEW fs \in Seq(Packets), NEW since \in 0 .. Len(fs), NEW e \in Endpoints,
         NEW lo \in Int, NEW hi \in Int
  PROVE  /\ Cardinality(From(fs, since, e, lo)) \in Nat
         /\ Cardinality(Span(fs, since, e, lo, hi)) \in Nat
         /\ \A low \in Int : low <= lo =>
              Cardinality(Span(fs, since, e, lo, hi)) <= Cardinality(From(fs, since, e, low))
         /\ \A low, high \in Int : low <= lo /\ hi <= high =>
              Cardinality(Span(fs, since, e, lo, hi)) <= Cardinality(Span(fs, since, e, low, high))
         /\ \A mid \in Int :
              Cardinality(Span(fs, since, e, lo, hi)) <=
                Cardinality(Span(fs, since, e, lo, mid - 1)) + Cardinality(From(fs, since, e, mid))
<1> DEFINE n == Len(fs)
           In(a) == From(fs, since, e, a)
           Within(a, b) == Span(fs, since, e, a, b)
<1>1. n \in Nat /\ \A i \in 1 .. n : fs[i] \in Packets /\ fs[i].at \in Nat
  <2>1. n \in Nat /\ \A i \in 1 .. n : fs[i] \in Packets
    OBVIOUS
  <2>2. \A p \in Packets : p.at \in Nat
    BY DEF Packets
  <2>3. QED BY <2>1, <2>2
<1>2. \A a, b \in Int : In(a) \in SUBSET (1 .. n) /\ Within(a, b) \in SUBSET (1 .. n)
  BY <1>1 DEF From, Span
<1>3. \A low \in Int : low <= lo => Within(lo, hi) \subseteq In(low)
  BY <1>1 DEF From, Span
<1>4. \A low, high \in Int : low <= lo /\ hi <= high => Within(lo, hi) \subseteq Within(low, high)
  BY <1>1 DEF Span
<1>5. \A mid \in Int : Within(lo, hi) \subseteq Within(lo, mid - 1) \cup In(mid)
  BY <1>1 DEF From, Span
<1> HIDE DEF In, Within, n
<1>6. Cardinality(In(lo)) \in Nat /\ Cardinality(Within(lo, hi)) \in Nat
  BY <1>1, <1>2, Counts
<1>7. \A low \in Int : low <= lo => Cardinality(Within(lo, hi)) <= Cardinality(In(low))
  BY <1>1, <1>2, <1>3, Counts
<1>8. \A low, high \in Int : low <= lo /\ hi <= high =>
        Cardinality(Within(lo, hi)) <= Cardinality(Within(low, high))
  BY <1>1, <1>2, <1>4, Counts
<1>9. \A mid \in Int :
        Cardinality(Within(lo, hi)) <= Cardinality(Within(lo, mid - 1)) + Cardinality(In(mid))
  <2>1. ASSUME NEW mid \in Int
        PROVE  Cardinality(Within(lo, hi)) <=
                 Cardinality(Within(lo, mid - 1)) + Cardinality(In(mid))
    <3>1. mid - 1 \in Int
      OBVIOUS
    <3>2. Within(lo, mid - 1) \in SUBSET (1 .. n) /\ In(mid) \in SUBSET (1 .. n)
      BY <1>2, <3>1
    <3>3. QED BY <1>1, <1>5, <3>2, CountsBoth
  <2>2. QED BY <2>1
<1>10. QED BY <1>6, <1>7, <1>8, <1>9 DEF In, Within

(* What an appended packet adds is one at most, and nothing elsewhere.      *)
LEMMA CountsOfAppend ==
  ASSUME NEW fs \in Seq(Packets), NEW p \in Packets, NEW since \in 0 .. Len(fs),
         NEW e \in Endpoints, NEW lo \in Int, NEW hi \in Int
  PROVE  LET gs == Append(fs, p)
         IN  /\ Cardinality(From(gs, since, e, lo)) \in Nat
             /\ Cardinality(Span(gs, since, e, lo, hi)) \in Nat
             /\ Cardinality(From(gs, since, e, lo)) <= Cardinality(From(fs, since, e, lo)) + 1
             /\ p.source # e \/ p.at < lo =>
                  Cardinality(From(gs, since, e, lo)) = Cardinality(From(fs, since, e, lo))
             /\ Cardinality(Span(gs, since, e, lo, hi)) <=
                  Cardinality(Span(fs, since, e, lo, hi)) + 1
             /\ p.source # e \/ p.at < lo \/ p.at > hi =>
                  Cardinality(Span(gs, since, e, lo, hi)) = Cardinality(Span(fs, since, e, lo, hi))
<1> DEFINE gs == Append(fs, p)
           n == Len(fs)
<1>1. n \in Nat
  OBVIOUS
<1>2. /\ From(fs, since, e, lo) \in SUBSET (1 .. n)
      /\ Span(fs, since, e, lo, hi) \in SUBSET (1 .. n)
      /\ From(gs, since, e, lo) \subseteq From(fs, since, e, lo) \cup {n + 1}
      /\ p.source # e \/ p.at < lo => From(gs, since, e, lo) = From(fs, since, e, lo)
      /\ Span(gs, since, e, lo, hi) \subseteq Span(fs, since, e, lo, hi) \cup {n + 1}
      /\ p.source # e \/ p.at < lo \/ p.at > hi =>
           Span(gs, since, e, lo, hi) = Span(fs, since, e, lo, hi)
  BY AppendCounts, Zenon
<1> HIDE DEF gs, n
<1>3. /\ Cardinality(From(gs, since, e, lo)) <= Cardinality(From(fs, since, e, lo)) + 1
      /\ Cardinality(From(gs, since, e, lo)) \in Nat
  BY <1>1, <1>2, CountsOneMore, Zenon
<1>4. /\ Cardinality(Span(gs, since, e, lo, hi)) <= Cardinality(Span(fs, since, e, lo, hi)) + 1
      /\ Cardinality(Span(gs, since, e, lo, hi)) \in Nat
  BY <1>1, <1>2, CountsOneMore, Zenon
<1>5. QED BY <1>2, <1>3, <1>4, Zenon DEF gs

(* consume_rate_budget, as a function of the window.                        *)
Consumed(w, at) ==
  IF WindowOver(w, at) THEN [started |-> at, messages |-> 1]
                       ELSE [started |-> w.started, messages |-> w.messages + 1]

(* A log that a source adds a packet to at a time no earlier than its last. *)
Ready(fs, since, e, w, at) ==
  /\ MaxPerWindow \in Nat \ {0} /\ RateWindow \in Nat \ {0}
  /\ w.messages > 0 => w.started <= at
  /\ \A i \in 1 .. Len(fs) : fs[i].source = e => fs[i].at <= at
  /\ Budgeted(fs, since, e, w) /\ Bounded(fs, since, e)
Granted(fs, since, e, v, at) ==
  /\ Budgeted(fs, since, e, v)
  /\ \A p \in Packets : p.source = e /\ p.at = at =>
       Budgeted(Append(fs, p), since, e, v) /\ Bounded(Append(fs, p), since, e)

(* The window goes on.                                                      *)
LEMMA SameWindowGrants ==
  ASSUME NEW fs \in Seq(Packets), NEW since \in 0 .. Len(fs), NEW e \in Endpoints,
         NEW w \in Windows, NEW at \in Nat, Ready(fs, since, e, w, at),
         ~WindowOver(w, at), w.messages < MaxPerWindow
  PROVE  Granted(fs, since, e, [started |-> w.started, messages |-> w.messages + 1], at)
<1> DEFINE s == w.started
           k == w.messages
           M == MaxPerWindow
           R == RateWindow
           v == [started |-> w.started, messages |-> w.messages + 1]
<1>1. /\ s \in Nat /\ k \in Nat \ {0} /\ M \in Nat \ {0} /\ R \in Nat \ {0}
      /\ k + 1 <= M /\ s <= at /\ at < s + R
      /\ v.started = s /\ v.messages = k + 1
  BY DEF Windows, Ready, WindowOver
<1>2. /\ \A i \in since + 1 .. Len(fs) : fs[i].source = e => fs[i].at < s + R
      /\ Cardinality(From(fs, since, e, s)) <= k
      /\ Cardinality(From(fs, since, e, s + 1)) <= k - 1
      /\ Cardinality(Span(fs, since, e, s - R + 1, s - 1)) <= M - 1
  BY <1>1 DEF Ready, Budgeted
<1>3. \A t \in Nat : Cardinality(Span(fs, since, e, t, t + R - 1)) <= 2 * M - 1
  BY <1>1 DEF Ready, Bounded
<1>i. s \in Int /\ s + 1 \in Int /\ s - 1 \in Int /\ s - R + 1 \in Int
  BY <1>1
<1> HIDE DEF v, s, R
<1>4. Budgeted(fs, since, e, v)
  <2>1. /\ Cardinality(From(fs, since, e, s)) \in Nat
        /\ Cardinality(From(fs, since, e, s + 1)) \in Nat
    BY <1>i, CountsOfSource, Zenon
  <2>2. \A count \in Nat :
           (count <= k => count <= k + 1) /\ (count <= k - 1 => count <= k + 1 - 1)
    BY <1>1
  <2>3. /\ Cardinality(From(fs, since, e, s)) <= k + 1
        /\ Cardinality(From(fs, since, e, s + 1)) <= k + 1 - 1
    BY <1>2, <2>1, <2>2, Zenon
  <2>4. QED BY <1>1, <1>2, <2>3 DEF Budgeted, s, R
<1>5. ASSUME NEW p \in Packets, p.source = e, p.at = at
      PROVE  Budgeted(Append(fs, p), since, e, v) /\ Bounded(Append(fs, p), since, e)
  <2> DEFINE gs == Append(fs, p)
  <2>1. \A i \in since + 1 .. Len(gs) : gs[i].source = e => gs[i].at < s + R
    <3>1. /\ Len(gs) = Len(fs) + 1 /\ Len(fs) \in Nat /\ gs[Len(fs) + 1] = p
          /\ \A i \in 1 .. Len(fs) : gs[i] = fs[i]
      BY Appended
    <3> HIDE DEF gs
    <3>2. \A i \in since + 1 .. Len(gs) :
             i = Len(fs) + 1 \/ (i \in since + 1 .. Len(fs) /\ gs[i] = fs[i])
      BY <3>1
    <3>3. QED BY <1>1, <1>2, <1>5, <3>1, <3>2
  <2>2. Cardinality(From(gs, since, e, s)) <= k + 1
    <3>1. /\ Cardinality(From(gs, since, e, s)) \in Nat
          /\ Cardinality(From(gs, since, e, s)) <= Cardinality(From(fs, since, e, s)) + 1
          /\ Cardinality(From(fs, since, e, s)) \in Nat
      BY <1>i, CountsOfAppend, CountsOfSource, Zenon
    <3>2. \A new, old \in Nat : new <= old + 1 /\ old <= k => new <= k + 1
      BY <1>1
    <3>3. QED BY <1>2, <3>1, <3>2, Zenon
  <2>3. Cardinality(From(gs, since, e, s + 1)) <= k
    <3>1. /\ Cardinality(From(gs, since, e, s + 1)) \in Nat
          /\ Cardinality(From(gs, since, e, s + 1)) <= Cardinality(From(fs, since, e, s + 1)) + 1
          /\ Cardinality(From(fs, since, e, s + 1)) \in Nat
      BY <1>i, CountsOfAppend, CountsOfSource, Zenon
    <3>2. \A new, old \in Nat : new <= old + 1 /\ old <= k - 1 => new <= k
      BY <1>1
    <3>3. QED BY <1>2, <3>1, <3>2, Zenon
  <2>4. Cardinality(Span(gs, since, e, s - R + 1, s - 1)) <= M - 1
    <3>1. p.at > s - 1
      BY <1>1, <1>5
    <3>2. QED BY <1>i, <1>2, <3>1, CountsOfAppend
  <2>5. ASSUME NEW t \in Nat
        PROVE  Cardinality(Span(gs, since, e, t, t + R - 1)) <= 2 * M - 1
    <3> DEFINE old == Cardinality(Span(fs, since, e, t, t + R - 1))
               new == Cardinality(Span(gs, since, e, t, t + R - 1))
               low == Cardinality(Span(fs, since, e, t, s - 1))
               gap == Cardinality(Span(fs, since, e, s - R + 1, s - 1))
               own == Cardinality(From(fs, since, e, s))
    <3>1. t \in Int /\ t + R - 1 \in Int /\ s \in Int /\ s - 1 \in Int /\ s - R + 1 \in Int
      BY <1>1
    <3>2. /\ new <= old + 1 /\ (at < t \/ at > t + R - 1 => new = old)
      BY <1>5, <3>1, CountsOfAppend
    <3>3. old \in Nat /\ own \in Nat /\ low \in Nat /\ gap \in Nat /\ old <= low + own
      BY <3>1, CountsOfSource
    <3>4. s <= t => old <= own
      BY <3>1, CountsOfSource
    <3>5. s - R + 1 <= t => low <= gap
      BY <3>1, CountsOfSource
    <3>6. old <= 2 * M - 1 /\ gap <= M - 1 /\ own <= k
      BY <1>2, <1>3
    <3>7. Cardinality(Span(gs, since, e, t, t + R - 1)) \in Int
      BY <3>1, CountsOfAppend
    <3> HIDE DEF old, new, low, gap, own
    <3>8. new \in Int
      BY <3>7 DEF new
    <3>9. new <= 2 * M - 1
      BY <1>1, <3>2, <3>3, <3>4, <3>5, <3>6, <3>8
    <3>10. QED BY <3>9 DEF new
  <2> HIDE DEF gs
  <2>6. Budgeted(gs, since, e, v)
    <3>1. /\ v.messages <= MaxPerWindow /\ v.messages # 0
          /\ v.messages = k + 1 /\ v.messages - 1 = k /\ v.started = s
      BY <1>1
    <3>2. \A i \in since + 1 .. Len(gs) : gs[i].source = e => gs[i].at < v.started + RateWindow
      BY <2>1, <3>1, Zenon DEF R
    <3>3. /\ Cardinality(From(gs, since, e, v.started)) <= v.messages
          /\ Cardinality(From(gs, since, e, v.started + 1)) <= v.messages - 1
      BY <2>2, <2>3, <3>1, Zenon
    <3>4. Cardinality(Span(gs, since, e, v.started - RateWindow + 1, v.started - 1))
            <= MaxPerWindow - 1
      BY <2>4, <3>1, Zenon DEF R
    <3>5. QED BY <3>1, <3>2, <3>3, <3>4, Zenon DEF Budgeted
  <2>7. Bounded(gs, since, e)
    BY <1>1, <2>5 DEF Bounded, R
  <2>8. QED BY <2>6, <2>7 DEF gs
<1>6. QED BY <1>4, <1>5 DEF Granted, v

(* A window starts: all that was sent before lies before it, and in the     *)
(* stretch just before it is only what came after the start of the last.    *)
LEMMA NewWindowGrants ==
  ASSUME NEW fs \in Seq(Packets), NEW since \in 0 .. Len(fs), NEW e \in Endpoints,
         NEW w \in Windows, NEW at \in Nat, Ready(fs, since, e, w, at), WindowOver(w, at)
  PROVE  Granted(fs, since, e, [started |-> at, messages |-> 1], at)
<1> DEFINE M == MaxPerWindow
           R == RateWindow
           v == [started |-> at, messages |-> 1]
           gap == Cardinality(Span(fs, since, e, at - R + 1, at - 1))
<1>1. /\ w.started \in Nat /\ w.messages \in Nat /\ M \in Nat \ {0} /\ R \in Nat \ {0}
      /\ w.messages <= M /\ (w.messages > 0 => w.started <= at /\ at >= w.started + R)
      /\ v.started = at /\ v.messages = 1
  BY DEF Windows, Ready, WindowOver, Budgeted
<1>2. \A i \in 1 .. Len(fs) : fs[i].at \in Nat
  <2>1. \A i \in 1 .. Len(fs) : fs[i] \in Packets
    OBVIOUS
  <2>2. \A p \in Packets : p.at \in Nat
    BY DEF Packets
  <2>3. QED BY <2>1, <2>2
<1>3. \A i \in since + 1 .. Len(fs) : fs[i].source = e => fs[i].at < at
  <2>1. CASE w.messages = 0
    BY <2>1 DEF Ready, Budgeted
  <2>2. CASE w.messages > 0
    <3>1. \A i \in since + 1 .. Len(fs) : fs[i].source = e => fs[i].at < w.started + R
      BY <2>2 DEF Ready, Budgeted
    <3>2. QED BY <1>1, <1>2, <2>2, <3>1
  <2>3. QED BY <1>1, <2>1, <2>2
<1>i. at \in Int /\ at + 1 \in Int /\ at - 1 \in Int /\ at - R + 1 \in Int
  BY <1>1
<1>4. gap <= M - 1 /\ gap \in Nat
  <2>1. gap \in Nat
    BY <1>i, CountsOfSource, Zenon
  <2>2. CASE w.messages = 0
    <3>1. Span(fs, since, e, at - R + 1, at - 1) = {}
      BY <2>2 DEF Ready, Budgeted, Span
    <3>2. gap = 0
      BY <3>1, FS_EmptySet
    <3>3. QED BY <1>1, <2>1, <3>2
  <2>3. CASE w.messages > 0
    <3>1. Cardinality(From(fs, since, e, w.started + 1)) <= w.messages - 1
      BY <2>3 DEF Ready, Budgeted
    <3>2. w.started + 1 \in Int /\ w.started + 1 <= at - R + 1
      BY <1>1, <2>3
    <3>3. /\ gap <= Cardinality(From(fs, since, e, w.started + 1))
          /\ Cardinality(From(fs, since, e, w.started + 1)) \in Nat
      BY <1>i, <3>2, CountsOfSource, Zenon
    <3> HIDE DEF gap
    <3>4. QED BY <1>1, <2>1, <3>1, <3>3
  <2>4. QED BY <1>1, <2>2, <2>3
<1>5. /\ Cardinality(From(fs, since, e, at)) = 0
      /\ Cardinality(From(fs, since, e, at + 1)) = 0
  <2>1. \A i \in since + 1 .. Len(fs) : i \in 1 .. Len(fs)
    OBVIOUS
  <2>2. From(fs, since, e, at) = {} /\ From(fs, since, e, at + 1) = {}
    BY <1>2, <1>3, <2>1 DEF From
  <2>3. QED BY <2>2, FS_EmptySet
<1>6. \A t \in Nat : Cardinality(Span(fs, since, e, t, t + R - 1)) <= 2 * M - 1
  BY <1>1 DEF Ready, Bounded
<1> HIDE DEF v, R
<1>7. Budgeted(fs, since, e, v)
  <2>1. \A i \in since + 1 .. Len(fs) : fs[i].source = e => fs[i].at < at + R
    <3>1. \A i \in since + 1 .. Len(fs) : i \in 1 .. Len(fs)
      OBVIOUS
    <3>2. QED BY <1>1, <1>2, <1>3, <3>1
  <2> HIDE DEF gap
  <2>2. /\ Cardinality(From(fs, since, e, at)) <= 1
        /\ Cardinality(From(fs, since, e, at + 1)) <= 1 - 1
    BY <1>5
  <2>3. 1 <= M
    BY <1>1
  <2>4. QED BY <1>1, <1>4, <2>1, <2>2, <2>3 DEF Budgeted, gap, R
<1>8. ASSUME NEW p \in Packets, p.source = e, p.at = at
      PROVE  Budgeted(Append(fs, p), since, e, v) /\ Bounded(Append(fs, p), since, e)
  <2> DEFINE gs == Append(fs, p)
  <2>1. \A i \in since + 1 .. Len(gs) : gs[i].source = e => gs[i].at < at + R
    <3>1. /\ Len(gs) = Len(fs) + 1 /\ Len(fs) \in Nat /\ gs[Len(fs) + 1] = p
          /\ \A i \in 1 .. Len(fs) : gs[i] = fs[i]
      BY Appended
    <3> HIDE DEF gs
    <3>2. \A i \in since + 1 .. Len(gs) :
             i = Len(fs) + 1 \/ (i \in since + 1 .. Len(fs) /\ gs[i] = fs[i] /\ fs[i].at \in Nat)
      BY <1>2, <3>1
    <3>3. QED BY <1>1, <1>3, <1>8, <3>1, <3>2
  <2>2. /\ Cardinality(From(gs, since, e, at)) <= 1
        /\ Cardinality(From(gs, since, e, at + 1)) <= 1 - 1
    <3>1. p.at < at + 1
      BY <1>8
    <3>2. /\ Cardinality(From(gs, since, e, at)) <= Cardinality(From(fs, since, e, at)) + 1
          /\ Cardinality(From(gs, since, e, at + 1)) = Cardinality(From(fs, since, e, at + 1))
      BY <1>i, <3>1, CountsOfAppend
    <3>3. /\ Cardinality(From(gs, since, e, at)) \in Nat
          /\ Cardinality(From(gs, since, e, at + 1)) \in Nat
      BY <1>i, CountsOfAppend
    <3> HIDE DEF gs
    <3>4. QED BY <1>5, <3>2, <3>3
  <2>3. Cardinality(Span(gs, since, e, at - R + 1, at - 1)) <= M - 1
    <3>1. p.at > at - 1
      BY <1>8
    <3>2. QED BY <1>i, <1>4, <3>1, CountsOfAppend
  <2>4. ASSUME NEW t \in Nat
        PROVE  Cardinality(Span(gs, since, e, t, t + R - 1)) <= 2 * M - 1
    <3> DEFINE old == Cardinality(Span(fs, since, e, t, t + R - 1))
               new == Cardinality(Span(gs, since, e, t, t + R - 1))
               low == Cardinality(Span(fs, since, e, t, at - 1))
    <3>1. t \in Int /\ t + R - 1 \in Int
      BY <1>1
    <3>2. new \in Nat /\ new <= old + 1 /\ (at < t \/ at > t + R - 1 => new = old)
      BY <1>8, <3>1, CountsOfAppend
    <3>3. /\ old \in Nat /\ low \in Nat
          /\ old <= low + Cardinality(From(fs, since, e, at))
      BY <1>i, <3>1, CountsOfSource
    <3>4. old <= low
      <4> HIDE DEF old, low
      <4>1. QED BY <1>5, <3>3
    <3>5. at - R + 1 <= t => low <= gap
      BY <1>i, <3>1, CountsOfSource
    <3>6. old <= 2 * M - 1
      BY <1>6
    <3> HIDE DEF old, new, low, gap
    <3>7. new <= 2 * M - 1
      BY <1>1, <1>4, <3>2, <3>3, <3>4, <3>5, <3>6
    <3>8. QED BY <3>7 DEF new
  <2> HIDE DEF gs
  <2>5. Budgeted(gs, since, e, v)
    <3>1. 1 <= M
      BY <1>1
    <3>2. QED BY <1>1, <2>1, <2>2, <2>3, <3>1 DEF Budgeted, R
  <2>6. Bounded(gs, since, e)
    BY <1>1, <2>4 DEF Bounded, R
  <2>7. QED BY <2>5, <2>6 DEF gs
<1>9. QED BY <1>7, <1>8 DEF Granted, v
-----------------------------------------------------------------------------
(* Places in a ring.                                                        *)
LEMMA PlaceInRing ==
  ASSUME NEW n \in Nat, NEW size \in Nat \ {0}
  PROVE  /\ n % size \in 0 .. size - 1 /\ n \div size \in Nat
         /\ n = size * (n \div size) + (n % size)
<1>1. n % size \in 0 .. size - 1
  OBVIOUS
<1>2. n \div size \in Nat
  OBVIOUS
<1>3. n = (n \div size) * size + (n % size)
  OBVIOUS
<1>4. (n \div size) * size = size * (n \div size)
  BY <1>2
<1>5. QED BY <1>1, <1>2, <1>3, <1>4

(* A number has one remainder.                                              *)
LEMMA OnePlace ==
  ASSUME NEW size \in Nat \ {0}, NEW p \in Int, NEW q \in Int,
         NEW r \in 0 .. size - 1, NEW s \in 0 .. size - 1, size * p + r = size * q + s
  PROVE  r = s
<1>1. size * (p - q) = s - r
  OBVIOUS
<1>2. CASE p > q
  <2>1. size * (p - q) >= size
    <3>1. size * (p - q - 1) >= 0 /\ size * (p - q) = size * (p - q - 1) + size
      BY <1>2
    <3>2. QED BY <3>1
  <2>2. QED BY <1>1, <2>1
<1>3. CASE p < q
  <2>1. size * (q - p) >= size
    <3>1. size * (q - p - 1) >= 0 /\ size * (q - p) = size * (q - p - 1) + size
      BY <1>3
    <3>2. QED BY <3>1
  <2>2. size * (q - p) = r - s
    OBVIOUS
  <2>3. QED BY <2>1, <2>2
<1>4. CASE p = q
  BY <1>4
<1>5. QED BY <1>2, <1>3, <1>4

(* next_echo_ walks around the ring as the count of forwards does.          *)
LEMMA NextPlace ==
  ASSUME NEW n \in Nat, NEW size \in Nat \ {0}
  PROVE  ((n % size) + 1) % size = (n + 1) % size
<1> DEFINE r == n % size
           p == n \div size
           s == (n + 1) % size
           q == (n + 1) \div size
           t == (r + 1) % size
           u == (r + 1) \div size
<1>1. r \in 0 .. size - 1 /\ p \in Nat /\ n = size * p + r
  BY PlaceInRing
<1>2. s \in 0 .. size - 1 /\ q \in Nat /\ n + 1 = size * q + s
  <2>1. n + 1 \in Nat
    OBVIOUS
  <2>2. QED BY <2>1, PlaceInRing, Zenon
<1>3. t \in 0 .. size - 1 /\ u \in Nat /\ r + 1 = size * u + t
  <2>1. r + 1 \in Nat
    BY <1>1
  <2> HIDE DEF r
  <2>2. QED BY <2>1, PlaceInRing
<1> HIDE DEF r, p, s, q, t, u
<1>4. size * (p + u) + t = size * q + s
  <2>1. size * (p + u) = size * p + size * u
    BY <1>1, <1>3
  <2>2. size * p \in Nat /\ size * u \in Nat /\ size * q \in Nat
    BY <1>1, <1>2, <1>3
  <2>3. QED BY <1>1, <1>2, <1>3, <2>1, <2>2
<1>5. t = s
  BY <1>1, <1>2, <1>3, <1>4, OnePlace
<1>6. QED BY <1>5 DEF t, s, r

(* Numbers less than the size apart have different places.                  *)
LEMMA ApartInRing ==
  ASSUME NEW a \in Nat, NEW b \in Nat, NEW size \in Nat \ {0}, a < b, b - a < size
  PROVE  a % size # b % size
<1> DEFINE p == a \div size
           q == b \div size
           r == a % size
<1>1. p \in Nat /\ r \in 0 .. size - 1 /\ a = size * p + r
  BY PlaceInRing
<1>2. SUFFICES ASSUME b % size = r PROVE FALSE
  OBVIOUS
<1>3. q \in Nat /\ b = size * q + r
  BY <1>2, PlaceInRing
<1> HIDE DEF p, q, r
<1>4. size * (q - p) = b - a
  BY <1>1, <1>3
<1>5. CASE q > p
  <2>1. PICK d \in Nat : q - p = d + 1
    BY <1>1, <1>3, <1>5
  <2>2. size * (d + 1) = size * d + size /\ size * d >= 0
    OBVIOUS
  <2>3. QED BY <1>4, <2>1, <2>2
<1>6. CASE q <= p
  <2>1. PICK d \in Nat : q - p = 0 - d
    BY <1>1, <1>3, <1>6
  <2>2. size * (0 - d) = 0 - size * d /\ size * d >= 0
    OBVIOUS
  <2>3. QED BY <1>4, <2>1, <2>2
<1>7. QED BY <1>1, <1>3, <1>5, <1>6
-----------------------------------------------------------------------------
(* The transport: the last packet of a kind in a log.                       *)
LEMMA GreatestIndex ==
  ASSUME NEW n \in Nat, NEW S \in SUBSET (1 .. n), S # {}
  PROVE  Max(S) \in S /\ \A x \in S : Max(S) >= x
<1> DEFINE T == {k \in 0 .. n : n - k \in S}
           R == {ss \in Nat \X Nat : ss[1] < ss[2]}
<1>1. T \in SUBSET Nat /\ T # {}
  <2>1. PICK x \in S : x \in 1 .. n
    OBVIOUS
  <2>2. PICK k \in 0 .. n : n - k = x
    <3>1. n - x \in 0 .. n /\ n - (n - x) = x
      BY <2>1
    <3>2. QED BY <3>1
  <2>3. k \in T
    BY <2>2
  <2>4. QED BY <2>3
<1>2. PICK k \in T : \A j \in T : <<j, k>> \notin R
  <2>1. IsWellFoundedOn(R, Nat)
    BY NatLessThanWellFounded DEF OpToRel
  <2> HIDE DEF R, T
  <2>2. QED BY <1>1, <2>1, WFMin
<1>3. \A j \in T : k <= j
  <2>1. ASSUME NEW j \in T PROVE k <= j
    <3>1. <<j, k>> \in R <=> j < k
      OBVIOUS
    <3>2. QED BY <1>2, <3>1
  <2>2. QED BY <2>1
<1>4. n - k \in S /\ \A x \in S : n - k >= x
  <2>1. ASSUME NEW x \in S PROVE n - k >= x
    <3>1. n - x \in T /\ x \in 1 .. n
      BY <2>1
    <3>2. k <= n - x /\ k \in 0 .. n
      BY <1>3, <3>1
    <3>3. QED BY <3>1, <3>2
  <2>2. QED BY <2>1
<1>5. QED BY <1>4 DEF Max

(* An appended packet is the last of its kind, and of no other.             *)
LEMMA LastOfAppend ==
  ASSUME forwards \in Seq(Packets), NEW p \in Packets, forwards' = Append(forwards, p),
         NEW kinds, NEW otherwise
  PROVE  /\ p.message.kind \in kinds => /\ LastOf(kinds, otherwise)' = p
                                        /\ Of(kinds)' = Of(kinds) \cup {Len(forwards) + 1}
         /\ p.message.kind \notin kinds =>
              LastOf(kinds, otherwise)' = LastOf(kinds, otherwise) /\ Of(kinds)' = Of(kinds)
         /\ Of(kinds) \in SUBSET (1 .. Len(forwards))
<1> DEFINE n == Len(forwards)
<1>1. /\ n \in Nat /\ DOMAIN forwards' = 1 .. n + 1 /\ DOMAIN forwards = 1 .. n
      /\ forwards'[n + 1] = p /\ \A i \in 1 .. n : forwards'[i] = forwards[i]
  BY Appended
<1>2. Of(kinds) \in SUBSET (1 .. n)
  BY <1>1 DEF Of
<1> HIDE DEF n
<1>3. CASE p.message.kind \in kinds
  <2>1. Of(kinds)' = Of(kinds) \cup {n + 1}
    BY <1>1, <1>3 DEF Of
  <2>2. Of(kinds)' \in SUBSET (1 .. n + 1) /\ n + 1 \in Nat
    BY <1>1, <1>2, <2>1
  <2>3. /\ Max(Of(kinds)') \in Of(kinds)'
        /\ \A x \in Of(kinds)' : Max(Of(kinds)') >= x
    BY <2>1, <2>2, GreatestIndex
  <2>4. Max(Of(kinds)') = n + 1
    <3>1. Max(Of(kinds)') \in 1 .. n + 1
      BY <2>2, <2>3
    <3>2. Max(Of(kinds)') >= n + 1
      BY <2>1, <2>3
    <3>3. QED BY <1>1, <3>1, <3>2
  <2>5. LastOf(kinds, otherwise)' = p
    BY <1>1, <2>1, <2>4 DEF LastOf
  <2>6. QED BY <1>2, <1>3, <2>1, <2>5 DEF n
<1>4. CASE p.message.kind \notin kinds
  <2>1. Of(kinds)' = Of(kinds)
    BY <1>1, <1>4 DEF Of
  <2>2. Of(kinds) # {} => Max(Of(kinds)) \in 1 .. n
    BY <1>1, <1>2, GreatestIndex
  <2>3. LastOf(kinds, otherwise)' = LastOf(kinds, otherwise)
    BY <1>1, <2>1, <2>2 DEF LastOf
  <2>4. QED BY <1>2, <1>4, <2>1, <2>3 DEF n
<1>5. QED BY <1>3, <1>4
-----------------------------------------------------------------------------
(* The mediator's steps.                                                    *)
LEMMA OtherEnd ==
  /\ \A e \in Endpoints : Opposite(e) \in Endpoints /\ Opposite(e) # e
  /\ \A e, f \in Endpoints : e # f => Opposite(e) = f
<1>1. Opposite("hardware") = "daw"
  BY DEF Opposite, Endpoints
<1>2. Opposite("daw") = "hardware"
  BY DEF Opposite, Endpoints
<1>3. QED BY <1>1, <1>2 DEF Endpoints

(* What every packet of a source finds, and what none of them changes.      *)
Arrives(source, message, at) ==
  /\ source \in Endpoints /\ message \in Messages
  /\ at \in Nat /\ at >= clock[source]
  /\ clock' = [clock EXCEPT ![source] = at]
  /\ UNCHANGED <<policy, policySince>>

(* A packet that is refused moves the clock of its source only.             *)
LEMMA RefusedKeeps ==
  ASSUME MediatorInv, NEW source, NEW message, NEW at, Arrives(source, message, at),
         UNCHANGED <<windows, echoes, nextEcho, transport, forwards>>
  PROVE  MediatorInv'
<1>1. MediatorTypes'
  BY DEF MediatorInv, MediatorTypes, Arrives
<1>2. Remembered' /\ EchoesNeverReturn' /\ TransportIsForwarded'
  BY DEF MediatorInv, Remembered, EchoesNeverReturn, TransportIsForwarded, LastOf, Of
<1>3. Limited'
  <2>1. \A e \in Endpoints : clock'[e] >= clock[e] /\ clock'[e] \in Nat /\ clock[e] \in Nat
    BY DEF MediatorInv, MediatorTypes, Arrives
  <2>2. ASSUME NEW e \in Endpoints
        PROVE  /\ windows[e].messages > 0 => windows[e].started <= clock'[e]
               /\ \A i \in 1 .. Len(forwards) :
                    forwards[i].source = e => forwards[i].at <= clock'[e]
    <3>1. /\ windows[e].messages > 0 => windows[e].started <= clock[e]
          /\ \A i \in 1 .. Len(forwards) :
               forwards[i].source = e => forwards[i].at <= clock[e]
      BY DEF MediatorInv, Limited
    <3>2. windows[e].started \in Nat /\ \A i \in 1 .. Len(forwards) : forwards[i].at \in Nat
      <4>1. windows[e] \in Windows /\ \A i \in 1 .. Len(forwards) : forwards[i] \in Packets
        BY DEF MediatorInv, MediatorTypes
      <4>2. (\A w \in Windows : w.started \in Nat) /\ \A p \in Packets : p.at \in Nat
        BY DEF Windows, Packets
      <4>3. QED BY <4>1, <4>2
    <3>3. QED BY <2>1, <3>1, <3>2
  <2>3. QED BY <2>2 DEF MediatorInv, Limited, Arrives
<1>4. QED BY <1>1, <1>2, <1>3 DEF MediatorInv

(* A packet that consumes budget: what its window and its log become.       *)
LEMMA ConsumeGrants ==
  ASSUME MediatorInv, NEW source, NEW message, NEW at, Arrives(source, message, at),
         WithinBudget(source, at), Consume(source, at)
  PROVE  /\ windows' = [windows EXCEPT ![source] = Consumed(windows[source], at)]
         /\ Consumed(windows[source], at) \in Windows
         /\ Consumed(windows[source], at).started <= at
         /\ Granted(forwards, policySince, source, Consumed(windows[source], at), at)
<1> DEFINE w == windows[source]
<1>1. w \in Windows /\ forwards \in Seq(Packets) /\ policySince \in 0 .. Len(forwards)
  BY DEF MediatorInv, MediatorTypes, Arrives
<1>2. /\ w.messages > 0 => w.started <= clock[source]
      /\ \A i \in 1 .. Len(forwards) :
           forwards[i].source = source => forwards[i].at <= clock[source]
      /\ Budgeted(forwards, policySince, source, w) /\ Bounded(forwards, policySince, source)
  BY DEF MediatorInv, Limited, Arrives
<1>3. /\ at \in Nat /\ clock[source] \in Nat /\ at >= clock[source] /\ source \in Endpoints
  BY DEF Arrives, MediatorInv, MediatorTypes
<1>4. /\ MaxPerWindow \in Nat \ {0} /\ RateWindow \in Nat \ {0}
      /\ WindowOver(w, at) \/ w.messages < MaxPerWindow
  BY MediatorAssumption DEF WithinBudget
<1>5. /\ w.started \in Nat /\ w.messages \in Nat
      /\ \A i \in 1 .. Len(forwards) : forwards[i].at \in Nat
  <2>1. \A i \in 1 .. Len(forwards) : forwards[i] \in Packets
    BY <1>1
  <2>2. (\A v \in Windows : v.started \in Nat /\ v.messages \in Nat)
        /\ \A p \in Packets : p.at \in Nat
    BY DEF Windows, Packets
  <2>3. QED BY <1>1, <2>1, <2>2
<1>6. Ready(forwards, policySince, source, w, at)
  <2>1. w.messages > 0 => w.started <= at
    BY <1>2, <1>3, <1>5
  <2>2. \A i \in 1 .. Len(forwards) : forwards[i].source = source => forwards[i].at <= at
    BY <1>2, <1>3, <1>5
  <2>3. QED BY <1>2, <1>4, <2>1, <2>2 DEF Ready
<1>7. windows' = [windows EXCEPT ![source] = Consumed(w, at)]
  BY DEF Consume, Consumed
<1> HIDE DEF w
<1>8. CASE WindowOver(w, at)
  <2>1. Consumed(w, at) = [started |-> at, messages |-> 1]
    BY <1>8 DEF Consumed
  <2>2. Granted(forwards, policySince, source, Consumed(w, at), at)
    BY <1>1, <1>3, <1>6, <1>8, <2>1, NewWindowGrants
  <2>3. QED BY <1>3, <1>7, <2>1, <2>2 DEF Windows, w
<1>9. CASE ~WindowOver(w, at)
  <2>1. Consumed(w, at) = [started |-> w.started, messages |-> w.messages + 1]
    BY <1>9 DEF Consumed
  <2>2. w.messages < MaxPerWindow
    BY <1>4, <1>9
  <2>3. Granted(forwards, policySince, source, Consumed(w, at), at)
    BY <1>1, <1>3, <1>6, <1>9, <2>1, <2>2, SameWindowGrants
  <2>4. Consumed(w, at) \in Windows /\ Consumed(w, at).started = w.started
    BY <1>1, <1>5, <2>1 DEF Windows
  <2>5. w.started <= at
    BY <1>3, <1>5, <1>9 DEF WindowOver
  <2>6. QED BY <1>7, <2>3, <2>4, <2>5 DEF w
<1>10. QED BY <1>8, <1>9

(* A full queue refuses a packet that was counted.                          *)
LEMMA FullQueueKeeps ==
  ASSUME MediatorInv, NEW source, NEW message, NEW at, Arrives(source, message, at),
         WithinBudget(source, at), Consume(source, at),
         UNCHANGED <<echoes, nextEcho, transport, forwards>>
  PROVE  MediatorInv'
<1> DEFINE v == Consumed(windows[source], at)
<1>1. /\ windows' = [windows EXCEPT ![source] = v] /\ v \in Windows /\ v.started <= at
      /\ Granted(forwards, policySince, source, v, at)
  BY ConsumeGrants
<1>2. MediatorTypes'
  BY <1>1 DEF MediatorInv, MediatorTypes, Arrives
<1>3. Remembered' /\ EchoesNeverReturn' /\ TransportIsForwarded'
  BY DEF MediatorInv, Remembered, EchoesNeverReturn, TransportIsForwarded, LastOf, Of
<1> HIDE DEF v
<1>4. Limited'
  <2>1. ASSUME NEW e \in Endpoints, e # source
        PROVE  /\ windows'[e] = windows[e] /\ clock'[e] = clock[e]
    BY <1>1, <2>1 DEF MediatorInv, MediatorTypes, Arrives
  <2>2. windows'[source] = v /\ clock'[source] = at
    BY <1>1 DEF MediatorInv, MediatorTypes, Arrives
  <2>3. \A i \in 1 .. Len(forwards) : forwards[i].source = source => forwards[i].at <= at
    <3>1. \A i \in 1 .. Len(forwards) : forwards[i] \in Packets
      BY DEF MediatorInv, MediatorTypes
    <3>2. \A p \in Packets : p.at \in Nat
      BY DEF Packets
    <3>3. \A i \in 1 .. Len(forwards) :
            forwards[i].source = source => forwards[i].at <= clock[source]
      BY DEF MediatorInv, Limited, Arrives
    <3>4. at \in Nat /\ clock[source] \in Nat /\ at >= clock[source]
      BY DEF Arrives, MediatorInv, MediatorTypes
    <3>5. QED BY <3>1, <3>2, <3>3, <3>4
  <2>4. /\ Budgeted(forwards, policySince, source, v) /\ Bounded(forwards, policySince, source)
    BY <1>1 DEF Granted, MediatorInv, Limited, Arrives
  <2>5. UNCHANGED <<forwards, policySince>>
    BY DEF Arrives
  <2>6. ASSUME NEW e \in Endpoints
        PROVE  /\ windows'[e].messages > 0 => windows'[e].started <= clock'[e]
               /\ \A i \in 1 .. Len(forwards') :
                    forwards'[i].source = e => forwards'[i].at <= clock'[e]
               /\ Budgeted(forwards', policySince', e, windows'[e])
               /\ Bounded(forwards', policySince', e)
    <3>1. CASE e = source
      BY <1>1, <2>2, <2>3, <2>4, <2>5, <3>1
    <3>2. CASE e # source
      BY <2>1, <2>5, <3>2 DEF MediatorInv, Limited
    <3>3. QED BY <3>1, <3>2
  <2>7. QED BY <2>6 DEF Limited
<1>5. QED BY <1>2, <1>3, <1>4 DEF MediatorInv

(* A packet forwarded: remembered, counted, and taken over by the transport.*)
Packet(source, message, at) == [source |-> source, message |-> message, at |-> at]

(* Forwarding keeps the types, whatever the kind of the packet.             *)
LEMMA ForwardTyped ==
  ASSUME MediatorInv, NEW source, NEW message, NEW at, Arrives(source, message, at),
         WithinBudget(source, at), Consume(source, at), Forward(source, message, at)
  PROVE  /\ MediatorTypes'
         /\ Packet(source, message, at) \in Packets
         /\ forwards' = Append(forwards, Packet(source, message, at))
<1>1. Packet(source, message, at) \in Packets
  BY DEF Packet, Packets, Arrives
<1>2. forwards' = Append(forwards, Packet(source, message, at))
  BY DEF Forward, Packet
<1>3. /\ forwards' \in Seq(Packets) /\ Len(forwards') = Len(forwards) + 1
      /\ Len(forwards) \in Nat /\ policySince \in 0 .. Len(forwards)
  BY <1>1, <1>2, Appended DEF MediatorInv, MediatorTypes
<1>4. transport' \in TransportStates
  <2>1. /\ message.kind \in Kinds /\ message.data \in Nat
    BY MediatorAssumption DEF Arrives
  <2>2. transport \in TransportStates /\ source \in Endpoints /\ at \in Nat
    BY DEF MediatorInv, MediatorTypes, Arrives
  <2>3. transport' = AfterTransport(transport, source, message, at)
    BY DEF Forward
  <2>4. DOMAIN RunState = {"start", "continue", "stop"}
        /\ \A k \in DOMAIN RunState : RunState[k] \in {"stopped", "running", "continuing"}
    BY DEF RunState
  <2> HIDE DEF RunState
  <2>5. CASE message.kind = "clock"
    <3>1. transport' = [transport EXCEPT !.pulses = @ + 1, !.lastClock = at]
      BY <2>3, <2>4, <2>5 DEF AfterTransport
    <3>2. transport.pulses + 1 \in Nat
      BY <2>2 DEF TransportStates
    <3>3. QED BY <2>2, <3>1, <3>2 DEF TransportStates
  <2>6. CASE message.kind = "position"
    <3>1. transport' = [transport EXCEPT !.position = message.data,
                          !.transportAuthority = source, !.lastTransport = at]
      BY <2>3, <2>4, <2>6 DEF AfterTransport
    <3>2. QED BY <2>1, <2>2, <3>1 DEF TransportStates
  <2>7. CASE message.kind \in DOMAIN RunState
    <3>1. message.kind # "clock" /\ message.kind # "position"
      BY <2>4, <2>7
    <3>2. RunState[message.kind] \in {"stopped", "running", "continuing"}
      BY <2>4, <2>7
    <3>3. transport' = [transport EXCEPT !.run = RunState[message.kind],
                          !.transportAuthority = source, !.lastTransport = at]
      BY <2>3, <2>7, <3>1 DEF AfterTransport
    <3>4. QED BY <2>2, <3>2, <3>3 DEF TransportStates
  <2>8. CASE message.kind \notin {"clock", "position"} \cup DOMAIN RunState
    BY <2>2, <2>3, <2>8 DEF AfterTransport
  <2>9. QED BY <2>5, <2>6, <2>7, <2>8
<1>5. windows' \in [Endpoints -> Windows]
  BY ConsumeGrants DEF MediatorInv, MediatorTypes
<1>6. /\ nextEcho' \in 0 .. EchoSlots - 1 /\ DOMAIN echoes' = 0 .. EchoSlots - 1
  <2>1. DOMAIN echoes' = DOMAIN echoes
    BY DEF Forward, RememberForward
  <2>2. nextEcho + 1 \in Nat
    BY DEF MediatorInv, MediatorTypes
  <2>3. QED BY <2>1, <2>2, PlaceInRing, MediatorAssumption
            DEF MediatorInv, MediatorTypes, Forward, RememberForward
<1>7. clock' \in [Endpoints -> Nat] /\ policy' \in Policies /\ policySince' = policySince
  BY DEF MediatorInv, MediatorTypes, Arrives
<1>8. policySince' \in 0 .. Len(forwards')
  BY <1>3, <1>7
<1>9. QED BY <1>1, <1>2, <1>3, <1>4, <1>5, <1>6, <1>7, <1>8 DEF MediatorTypes

(* Its record takes the place of the oldest.                                *)
LEMMA ForwardRemembered ==
  ASSUME MediatorInv, NEW source, NEW message, NEW at, Arrives(source, message, at),
         Forward(source, message, at),
         Packet(source, message, at) \in Packets,
         forwards' = Append(forwards, Packet(source, message, at))
  PROVE  Remembered'
<1> DEFINE n == Len(forwards)
           p == Packet(source, message, at)
<1>1. /\ n \in Nat /\ Len(forwards') = n + 1 /\ forwards'[n + 1] = p
      /\ \A i \in 1 .. n : forwards'[i] = forwards[i]
  BY Appended DEF MediatorInv, MediatorTypes
<1>2. /\ nextEcho = n % EchoSlots /\ EchoSlots \in Nat \ {0}
      /\ \A j \in 1 .. n : n - j < EchoSlots =>
           echoes[(j - 1) % EchoSlots] = RecordOf(forwards[j])
  BY MediatorAssumption DEF MediatorInv, Remembered
<1>3. DOMAIN echoes = 0 .. EchoSlots - 1
  BY DEF MediatorInv, MediatorTypes
<1>4. /\ echoes' = [echoes EXCEPT ![n % EchoSlots] = RecordOf(p)]
      /\ nextEcho' = ((n % EchoSlots) + 1) % EchoSlots
  BY <1>2 DEF Forward, RememberForward, RecordOf, Packet
<1> HIDE DEF n, p
<1>5. nextEcho' = Len(forwards') % EchoSlots
  BY <1>1, <1>2, <1>4, NextPlace
<1>6. ASSUME NEW j \in 1 .. Len(forwards'), Len(forwards') - j < EchoSlots
      PROVE  echoes'[(j - 1) % EchoSlots] = RecordOf(forwards'[j])
  <2> j \in 1 .. n + 1 /\ n + 1 - j < EchoSlots
    BY <1>1, <1>6
  <2>1. CASE j = n + 1
    <3>1. j - 1 = n
      BY <1>1, <2>1
    <3>2. n % EchoSlots \in DOMAIN echoes
      BY <1>1, <1>2, <1>3, PlaceInRing
    <3>3. QED BY <1>1, <1>4, <2>1, <3>1, <3>2
  <2>2. CASE j # n + 1
    <3>1. /\ j \in 1 .. n /\ n - j < EchoSlots
          /\ j - 1 \in Nat /\ j - 1 < n /\ n - (j - 1) < EchoSlots
      BY <1>1, <1>2, <1>6, <2>2
    <3>2. (j - 1) % EchoSlots # n % EchoSlots
      BY <1>1, <1>2, <3>1, ApartInRing
    <3>3. (j - 1) % EchoSlots \in DOMAIN echoes
      BY <1>2, <1>3, <3>1, PlaceInRing
    <3>4. QED BY <1>1, <1>2, <1>4, <3>1, <3>2, <3>3
  <2>3. QED BY <2>1, <2>2
<1>7. QED BY <1>5, <1>6 DEF Remembered, RecordOf

(* What is_echo let pass is no echo of a forward still in the ring.         *)
LEMMA ForwardIsNoEcho ==
  ASSUME MediatorInv, NEW source, NEW message, NEW at, Arrives(source, message, at),
         Admitted(source, message, at),
         Packet(source, message, at) \in Packets,
         forwards' = Append(forwards, Packet(source, message, at))
  PROVE  EchoesNeverReturn'
<1> DEFINE n == Len(forwards)
           p == Packet(source, message, at)
<1>1. /\ n \in Nat /\ DOMAIN forwards' = 1 .. n + 1 /\ DOMAIN forwards = 1 .. n
      /\ forwards'[n + 1] = p /\ \A i \in 1 .. n : forwards'[i] = forwards[i]
      /\ \A i \in 1 .. n : forwards[i] \in Packets
  BY Appended DEF MediatorInv, MediatorTypes
<1>2. p.source = source /\ p.message = message /\ p.at = at /\ source \in Endpoints
  BY DEF Packet, Arrives
<1>3. EchoSlots \in Nat \ {0} /\ DOMAIN echoes = 0 .. EchoSlots - 1
  BY MediatorAssumption DEF MediatorInv, MediatorTypes
<1> HIDE DEF p
<1>4. ASSUME NEW i \in 1 .. n, n + 1 - i <= EchoSlots, forwards[i].source # source,
             forwards[i].message = message, ElapsedWithin(forwards[i].at, at, EchoWindow)
      PROVE  FALSE
  <2> HIDE DEF n
  <2>1. n - i < EchoSlots /\ i - 1 \in Nat
    BY <1>1, <1>3, <1>4
  <2>2. (i - 1) % EchoSlots \in DOMAIN echoes
    BY <1>3, <2>1, PlaceInRing
  <2>3. echoes[(i - 1) % EchoSlots] = RecordOf(forwards[i])
    BY <1>3, <2>1 DEF MediatorInv, Remembered, n
  <2>4. Opposite(forwards[i].source) = source
    <3>1. forwards[i].source \in Endpoints
      BY <1>1 DEF Packets
    <3>2. QED BY <1>2, <1>4, <3>1, OtherEnd
  <2>5. IsEcho(source, message, at)
    BY <1>4, <2>2, <2>3, <2>4 DEF IsEcho, RecordOf
  <2>6. QED BY <2>5 DEF Admitted
<1>5. ASSUME NEW i \in 1 .. n + 1, NEW j \in 1 .. n + 1, i < j, j - i <= EchoSlots,
             forwards'[i].source # forwards'[j].source,
             forwards'[i].message = forwards'[j].message
      PROVE  ~ElapsedWithin(forwards'[i].at, forwards'[j].at, EchoWindow)
  <2>1. i \in 1 .. n
    BY <1>1, <1>5
  <2>2. CASE j = n + 1
    BY <1>1, <1>2, <1>4, <1>5, <2>1, <2>2
  <2>3. CASE j # n + 1
    <3>1. j \in 1 .. n
      BY <1>1, <2>3
    <3>2. QED BY <1>1, <1>5, <2>1, <3>1 DEF MediatorInv, EchoesNeverReturn
  <2>4. QED BY <2>2, <2>3
<1>6. QED BY <1>1, <1>5 DEF EchoesNeverReturn

(* It is counted in the window of its source; the other keeps its own.      *)
LEMMA ForwardLimited ==
  ASSUME MediatorInv, NEW source, NEW message, NEW at, Arrives(source, message, at),
         WithinBudget(source, at), Consume(source, at),
         Packet(source, message, at) \in Packets,
         forwards' = Append(forwards, Packet(source, message, at))
  PROVE  Limited'
<1> DEFINE p == Packet(source, message, at)
           v == Consumed(windows[source], at)
           n == Len(forwards)
<1>1. /\ windows' = [windows EXCEPT ![source] = v] /\ v \in Windows /\ v.started <= at
      /\ Granted(forwards, policySince, source, v, at)
  BY ConsumeGrants
<1>2. p.source = source /\ p.at = at /\ source \in Endpoints
  BY DEF Packet, Arrives
<1>3. /\ n \in Nat /\ Len(forwards') = n + 1
      /\ forwards'[n + 1] = p /\ \A i \in 1 .. n : forwards'[i] = forwards[i]
  BY Appended DEF MediatorInv, MediatorTypes
<1> HIDE DEF p, v
<1>4. /\ windows'[source] = v /\ clock'[source] = at
      /\ \A e \in Endpoints : e # source => windows'[e] = windows[e] /\ clock'[e] = clock[e]
  BY <1>1 DEF MediatorInv, MediatorTypes, Arrives
<1>5. Budgeted(forwards', policySince', source, v) /\ Bounded(forwards', policySince', source)
  BY <1>1, <1>2 DEF Granted, Arrives, p
<1>6. \A i \in 1 .. n + 1 : forwards'[i].source = source => forwards'[i].at <= at
  <2>1. \A i \in 1 .. n : forwards[i] \in Packets
    BY DEF MediatorInv, MediatorTypes
  <2>2. \A q \in Packets : q.at \in Nat
    BY DEF Packets
  <2>3. \A i \in 1 .. n : forwards[i].source = source => forwards[i].at <= clock[source]
    BY DEF MediatorInv, Limited, Arrives
  <2>4. at \in Nat /\ clock[source] \in Nat /\ at >= clock[source]
    BY DEF Arrives, MediatorInv, MediatorTypes
  <2> HIDE DEF n
  <2>5. \A i \in 1 .. n : forwards[i].source = source => forwards[i].at <= at
    BY <2>1, <2>2, <2>3, <2>4
  <2>6. \A i \in 1 .. n + 1 : i = n + 1 \/ i \in 1 .. n
    BY <1>3
  <2>7. QED BY <1>2, <1>3, <2>4, <2>5, <2>6
<1>7. ASSUME NEW e \in Endpoints, e # source
      PROVE  /\ \A i \in 1 .. n + 1 : forwards'[i].source = e => forwards'[i].at <= clock[e]
             /\ Budgeted(forwards', policySince, e, windows[e])
             /\ Bounded(forwards', policySince, e)
  <2>1. p.source # e /\ forwards \in Seq(Packets) /\ policySince \in 0 .. n
        /\ p \in Packets /\ forwards' = Append(forwards, p)
    BY <1>2, <1>7 DEF MediatorInv, MediatorTypes, p
  <2>2. \A lo, hi \in Int :
          /\ From(forwards', policySince, e, lo) = From(forwards, policySince, e, lo)
          /\ Span(forwards', policySince, e, lo, hi) = Span(forwards, policySince, e, lo, hi)
    BY <2>1, AppendCounts
  <2>3. /\ Budgeted(forwards, policySince, e, windows[e]) /\ Bounded(forwards, policySince, e)
        /\ \A i \in 1 .. n : forwards[i].source = e => forwards[i].at <= clock[e]
    BY DEF MediatorInv, Limited
  <2> HIDE DEF n
  <2>4. \A i \in 1 .. n + 1 : i = n + 1 \/ i \in 1 .. n
    BY <1>3
  <2>5. \A i \in 1 .. n + 1 : forwards'[i].source = e => forwards'[i].at <= clock[e]
    BY <1>3, <2>1, <2>3, <2>4
  <2>6. Bounded(forwards', policySince, e)
    <3>1. \A t \in Nat : t \in Int /\ t + RateWindow - 1 \in Int
      BY MediatorAssumption
    <3>2. QED BY <2>2, <2>3, <3>1 DEF Bounded
  <2>7. Budgeted(forwards', policySince, e, windows[e])
    <3> DEFINE s == windows[e].started
    <3>1. s \in Int /\ s + 1 \in Int /\ s - 1 \in Int /\ s - RateWindow + 1 \in Int
      <4>1. windows[e] \in Windows
        BY DEF MediatorInv, MediatorTypes
      <4>2. QED BY <4>1, MediatorAssumption DEF Windows
    <3>2. /\ From(forwards', policySince, e, s) = From(forwards, policySince, e, s)
          /\ From(forwards', policySince, e, s + 1) = From(forwards, policySince, e, s + 1)
          /\ Span(forwards', policySince, e, s - RateWindow + 1, s - 1) =
               Span(forwards, policySince, e, s - RateWindow + 1, s - 1)
      BY <2>2, <3>1
    <3>3. \A i \in policySince + 1 .. Len(forwards') :
             i = n + 1 \/ (i \in policySince + 1 .. Len(forwards) /\ forwards'[i] = forwards[i])
      BY <1>3, <2>1 DEF n
    <3>4. QED BY <1>3, <2>1, <2>3, <3>2, <3>3 DEF Budgeted
  <2>8. QED BY <2>5, <2>6, <2>7
<1>8. ASSUME NEW e \in Endpoints
      PROVE  /\ windows'[e].messages > 0 => windows'[e].started <= clock'[e]
             /\ \A i \in 1 .. Len(forwards') :
                  forwards'[i].source = e => forwards'[i].at <= clock'[e]
             /\ Budgeted(forwards', policySince', e, windows'[e])
             /\ Bounded(forwards', policySince', e)
  <2> HIDE DEF n
  <2>1. CASE e = source
    BY <1>1, <1>3, <1>4, <1>5, <1>6, <2>1
  <2>2. CASE e # source
    <3>1. policySince' = policySince
      BY DEF Arrives
    <3>2. windows[e].messages > 0 => windows[e].started <= clock[e]
      BY DEF MediatorInv, Limited
    <3>3. QED BY <1>3, <1>4, <1>7, <2>2, <3>1, <3>2
  <2>3. QED BY <2>1, <2>2
<1>9. QED BY <1>8 DEF Limited

(* update_transport takes over what the packet says, and no more.           *)
LEMMA ForwardMovesTransport ==
  ASSUME MediatorInv, NEW source, NEW message, NEW at, Arrives(source, message, at),
         Admitted(source, message, at), Forward(source, message, at),
         Packet(source, message, at) \in Packets,
         forwards' = Append(forwards, Packet(source, message, at))
  PROVE  TransportIsForwarded'
<1> DEFINE p == Packet(source, message, at)
           K == message.kind
<1>1. /\ p \in Packets /\ p.message = message /\ p.at = at /\ forwards \in Seq(Packets)
      /\ forwards' = Append(forwards, p)
  BY DEF Packet, MediatorInv, MediatorTypes
<1>2. /\ K \in Kinds \ {"invalid"} /\ transport \in TransportStates
      /\ transport' = AfterTransport(transport, source, message, at)
  BY MediatorAssumption DEF Forward, Arrives, Admitted, MediatorInv, MediatorTypes
<1>3. DOMAIN RunState = {"start", "continue", "stop"}
  BY DEF RunState
<1> HIDE DEF p
<1>4. \A kinds, otherwise :
        /\ K \in kinds => /\ LastOf(kinds, otherwise)' = p
                          /\ Of(kinds)' = Of(kinds) \cup {Len(forwards) + 1}
        /\ K \notin kinds =>
             LastOf(kinds, otherwise)' = LastOf(kinds, otherwise) /\ Of(kinds)' = Of(kinds)
        /\ Of(kinds) \in SUBSET (1 .. Len(forwards))
  BY <1>1, LastOfAppend
<1>5. K \in {"clock"} => Cardinality(Of({"clock"}))' = Cardinality(Of({"clock"})) + 1
  <2> DEFINE S == Of({"clock"})
             n == Len(forwards)
  <2>1. S \in SUBSET (1 .. n) /\ n \in Nat
    BY <1>1, <1>4
  <2>2. IsFiniteSet(S) /\ Cardinality(S) \in Nat /\ n + 1 \notin S
    <3> HIDE DEF S, n
    <3>1. n + 1 \notin S
      BY <2>1
    <3>2. QED BY <2>1, <3>1, Counts
  <2>3. K \in {"clock"} => S' = S \cup {n + 1}
    BY <1>4
  <2> HIDE DEF S, n
  <2>4. Cardinality(S \cup {n + 1}) = Cardinality(S) + 1
    BY <2>2, FS_AddElement
  <2>5. QED BY <2>3, <2>4 DEF S
<1>6. /\ transport.run = RunState[LastOf(DOMAIN RunState, NoForward).message.kind]
      /\ transport.position = LastOf({"position"}, NoForward).message.data
      /\ transport.lastTransport = LastOf(TransportKinds, NoForward).at
      /\ transport.lastClock = LastOf({"clock"}, NoForward).at
      /\ transport.pulses = Cardinality(Of({"clock"}))
  BY DEF MediatorInv, TransportIsForwarded
<1> HIDE DEF RunState
<1>7. CASE K = "clock"
  <2>1. transport' = [transport EXCEPT !.pulses = @ + 1, !.lastClock = at]
    BY <1>2, <1>3, <1>7 DEF AfterTransport
  <2>2. /\ transport'.run = transport.run /\ transport'.position = transport.position
        /\ transport'.lastTransport = transport.lastTransport
        /\ transport'.lastClock = at /\ transport'.pulses = transport.pulses + 1
    BY <1>2, <2>1 DEF TransportStates
  <2>3. K \notin DOMAIN RunState /\ K \notin {"position"} /\ K \notin TransportKinds
    BY <1>3, <1>7 DEF TransportKinds
  <2>4. QED BY <1>1, <1>4, <1>5, <1>6, <1>7, <2>2, <2>3 DEF TransportIsForwarded
<1>8. CASE K = "position"
  <2>1. transport' = [transport EXCEPT !.position = message.data,
                        !.transportAuthority = source, !.lastTransport = at]
    BY <1>2, <1>3, <1>8 DEF AfterTransport
  <2>2. /\ transport'.run = transport.run /\ transport'.position = message.data
        /\ transport'.lastTransport = at
        /\ transport'.lastClock = transport.lastClock /\ transport'.pulses = transport.pulses
    BY <1>2, <2>1 DEF TransportStates
  <2>3. K \notin DOMAIN RunState /\ K \in TransportKinds /\ K \notin {"clock"}
    BY <1>3, <1>8 DEF TransportKinds
  <2>4. QED BY <1>1, <1>4, <1>6, <1>8, <2>2, <2>3 DEF TransportIsForwarded
<1>9. CASE K \in DOMAIN RunState
  <2>1. K \notin {"clock"} /\ K \notin {"position"} /\ K \in TransportKinds
    BY <1>3, <1>9 DEF TransportKinds
  <2>2. transport' = [transport EXCEPT !.run = RunState[K], !.transportAuthority = source,
                        !.lastTransport = at]
    BY <1>2, <1>9, <2>1 DEF AfterTransport
  <2>3. /\ transport'.run = RunState[K] /\ transport'.position = transport.position
        /\ transport'.lastTransport = at
        /\ transport'.lastClock = transport.lastClock /\ transport'.pulses = transport.pulses
    BY <1>2, <2>2 DEF TransportStates
  <2>4. QED BY <1>1, <1>4, <1>6, <1>9, <2>1, <2>3 DEF TransportIsForwarded
<1>10. CASE K = "channel"
  <2>1. K \notin DOMAIN RunState /\ K \notin TransportKinds /\ K \notin {"clock", "position"}
    BY <1>3, <1>10 DEF TransportKinds
  <2>2. transport' = transport
    BY <1>2, <2>1 DEF AfterTransport
  <2>3. QED BY <1>4, <1>6, <2>1, <2>2 DEF TransportIsForwarded
<1>11. QED BY <1>2, <1>3, <1>7, <1>8, <1>9, <1>10 DEF Kinds, TransportKinds

(* route: refused, counted and refused, or forwarded.                       *)
LEMMA RouteKeeps ==
  ASSUME MediatorInv, NEW source \in Endpoints, NEW message \in Messages,
         NEW at \in clock[source] .. MaxTime, Route(source, message, at)
  PROVE  MediatorInv'
<1>1. Arrives(source, message, at)
  <2>1. clock[source] \in Nat
    BY DEF MediatorInv, MediatorTypes
  <2>2. QED BY <2>1, MediatorAssumption DEF Arrives, Route
<1>2. CASE RouteRefused(source, message, at)
  BY <1>1, <1>2, RefusedKeeps DEF RouteRefused
<1>3. CASE /\ Admitted(source, message, at) /\ WithinBudget(source, at)
           /\ Consume(source, at) /\ QueueFull(source, message, at)
  BY <1>1, <1>3, FullQueueKeeps DEF QueueFull
<1>4. CASE /\ Admitted(source, message, at) /\ WithinBudget(source, at)
           /\ Consume(source, at) /\ Forward(source, message, at)
  <2>1. /\ MediatorTypes'
        /\ Packet(source, message, at) \in Packets
        /\ forwards' = Append(forwards, Packet(source, message, at))
    BY <1>1, <1>4, ForwardTyped
  <2>2. Remembered' /\ EchoesNeverReturn' /\ Limited' /\ TransportIsForwarded'
    BY <1>1, <1>4, <2>1, ForwardRemembered, ForwardIsNoEcho, ForwardLimited,
       ForwardMovesTransport
  <2>3. QED BY <2>1, <2>2 DEF MediatorInv
<1>5. QED BY <1>2, <1>3, <1>4 DEF Route

(* Steps that leave the log alone, and the era with it or not: a new policy *)
(* begins a new one.                                                        *)
LEMMA QuietKeeps ==
  ASSUME MediatorInv,
         UNCHANGED <<policy, transport, echoes, nextEcho, windows, clock, forwards, policySince>>
  PROVE  MediatorInv'
BY DEF MediatorInv, MediatorTypes, Remembered, EchoesNeverReturn, Limited, TransportIsForwarded,
   LastOf, Of

(* Nothing was sent in an era that has just begun.                          *)
Fresh ==
  /\ windows = EmptyWindows /\ policySince = Len(forwards) /\ forwards \in Seq(Packets)
  /\ \A e \in Endpoints : \A i \in 1 .. Len(forwards) :
       forwards[i].source = e => forwards[i].at <= clock[e]

LEMMA FreshLimited == Fresh => Limited
<1> SUFFICES ASSUME Fresh PROVE Limited
  OBVIOUS
<1> USE DEF Fresh
<1>1. \A e \in Endpoints : windows[e].messages = 0
  BY DEF EmptyWindows
<1>2. MaxPerWindow \in Nat
  BY MediatorAssumption
<1>3. \A i \in policySince + 1 .. Len(forwards) : FALSE
  OBVIOUS
<1>4. \A e \in Endpoints : Budgeted(forwards, policySince, e, windows[e])
  BY <1>1, <1>2, <1>3 DEF Budgeted
<1>5. \A e \in Endpoints : Bounded(forwards, policySince, e)
  <2>1. ASSUME NEW e, NEW lo, NEW hi
        PROVE  Cardinality(Span(forwards, policySince, e, lo, hi)) = 0
    <3>1. Span(forwards, policySince, e, lo, hi) = {}
      BY <1>3 DEF Span
    <3>2. QED BY <3>1, FS_EmptySet
  <2>2. QED BY <1>2, <2>1 DEF Bounded
<1>6. QED BY <1>1, <1>4, <1>5 DEF Limited

(* set_policy: other authorities, and new windows.                          *)
LEMMA SetPolicyKeeps ==
  ASSUME MediatorInv, NEW p \in Policies, SetPolicy(p)
  PROVE  MediatorInv'
<1>1. /\ policy' = p /\ transport' = Reported(transport, p) /\ windows' = EmptyWindows
      /\ policySince' = Len(forwards)
      /\ UNCHANGED <<echoes, nextEcho, clock, forwards>>
  BY DEF SetPolicy
<1>2. p.transport \in Endpoints /\ p.clock \in Endpoints
  BY MediatorAssumption
<1>3. transport \in TransportStates /\ forwards \in Seq(Packets)
  BY DEF MediatorInv, MediatorTypes
<1>4. transport' \in TransportStates
  BY <1>1, <1>2, <1>3 DEF Reported, TransportStates
<1>5. MediatorTypes'
  <2>1. EmptyWindows \in [Endpoints -> Windows]
    BY DEF EmptyWindows, Windows
  <2>2. Len(forwards) \in 0 .. Len(forwards)
    BY <1>3
  <2>3. QED BY <1>1, <1>4, <2>1, <2>2 DEF MediatorInv, MediatorTypes
<1>6. Limited'
  <2>1. Fresh'
    BY <1>1, <1>3 DEF MediatorInv, Limited, Fresh
  <2>2. Fresh' => Limited'
    BY FreshLimited, PTL
  <2>3. QED BY <2>1, <2>2
<1>7. Remembered' /\ EchoesNeverReturn'
  BY <1>1 DEF MediatorInv, Remembered, EchoesNeverReturn
<1>8. TransportIsForwarded'
  <2>1. \A kinds, otherwise :
          LastOf(kinds, otherwise)' = LastOf(kinds, otherwise) /\ Of(kinds)' = Of(kinds)
    BY <1>1 DEF LastOf, Of
  <2>2. /\ transport'.run = transport.run /\ transport'.position = transport.position
        /\ transport'.lastTransport = transport.lastTransport
        /\ transport'.lastClock = transport.lastClock /\ transport'.pulses = transport.pulses
    BY <1>1 DEF Reported
  <2>3. QED BY <2>1, <2>2 DEF MediatorInv, TransportIsForwarded
<1>9. QED BY <1>5, <1>6, <1>7, <1>8 DEF MediatorInv

(* An empty log, at the start and after a reset.                            *)
Emptied ==
  /\ policy \in Policies /\ clock \in [Endpoints -> Nat]
  /\ transport = Reported(Stopped, policy) /\ echoes = NoEchoes /\ nextEcho = 0
  /\ windows = EmptyWindows /\ forwards = <<>> /\ policySince = 0

LEMMA EmptyLogHolds == Emptied => MediatorInv
<1> SUFFICES ASSUME Emptied PROVE MediatorInv
  OBVIOUS
<1> USE DEF Emptied
<1>1. forwards \in Seq(Packets) /\ Len(forwards) = 0 /\ DOMAIN forwards = {}
  OBVIOUS
<1>2. policy.transport \in Endpoints /\ policy.clock \in Endpoints
  BY MediatorAssumption
<1>3. transport \in TransportStates
  BY <1>2 DEF Reported, Stopped, TransportStates
<1>4. MediatorTypes
  <2>1. EmptyWindows \in [Endpoints -> Windows]
    BY DEF EmptyWindows, Windows
  <2>2. DOMAIN NoEchoes = 0 .. EchoSlots - 1 /\ 0 \in 0 .. EchoSlots - 1
    BY MediatorAssumption DEF NoEchoes
  <2>3. QED BY <1>1, <1>3, <2>1, <2>2 DEF MediatorTypes
<1>5. Remembered /\ EchoesNeverReturn
  <2>1. 0 % EchoSlots = 0
    BY MediatorAssumption
  <2>2. QED BY <1>1, <2>1 DEF Remembered, EchoesNeverReturn
<1>6. Limited
  BY <1>1, FreshLimited DEF Fresh
<1>7. TransportIsForwarded
  <2>1. \A kinds, otherwise : Of(kinds) = {} /\ LastOf(kinds, otherwise) = otherwise
    BY <1>1 DEF LastOf, Of
  <2>2. Cardinality({}) = 0
    BY FS_EmptySet
  <2>3. RunState["stop"] = "stopped" /\ NoForward.message.kind = "stop"
        /\ NoForward.message.data = 0 /\ NoForward.at = 0
    BY DEF RunState, NoForward
  <2>4. /\ transport.run = "stopped" /\ transport.position = 0
        /\ transport.lastTransport = 0 /\ transport.lastClock = 0 /\ transport.pulses = 0
    BY DEF Reported, Stopped
  <2>5. QED BY <2>1, <2>2, <2>3, <2>4 DEF TransportIsForwarded
<1>8. QED BY <1>4, <1>5, <1>6, <1>7 DEF MediatorInv

(* The invariant of the mediator holds for any numbers and packets.         *)
THEOREM MediatorInvariance == Spec => []MediatorInv
<1>1. Init => MediatorInv
  <2>1. Init => Emptied
    BY DEF Init, Emptied
  <2>2. QED BY <2>1, EmptyLogHolds
<1>2. ASSUME MediatorInv, Reset
      PROVE  MediatorInv'
  <2>1. Emptied'
    BY <1>2 DEF Reset, Emptied, MediatorInv, MediatorTypes
  <2>2. Emptied' => MediatorInv'
    BY EmptyLogHolds, PTL
  <2>3. QED BY <2>1, <2>2
<1>3. ASSUME MediatorInv, [Next]_vars
      PROVE  MediatorInv'
  <2>1. ASSUME NEW target \in Endpoints, Pop(target)
        PROVE  MediatorInv'
    BY <1>3, <2>1, QuietKeeps DEF Pop
  <2>2. CASE UNCHANGED vars
    BY <1>3, <2>2, QuietKeeps DEF vars
  <2>3. QED BY <1>2, <1>3, <2>1, <2>2, RouteKeeps, SetPolicyKeeps DEF Next
<1>4. QED BY <1>1, <1>3, PTL DEF Spec

(* remember_forward and is_echo: no packet comes back within the echo       *)
(* window from the side it was sent to while its record is in the ring, for *)
(* any number of records and any interleaving of packets, policies, queues. *)
THEOREM EchoesStayOut == Spec => []EchoesNeverReturn
BY MediatorInvariance, PTL DEF MediatorInv

(* consume_rate_budget: however the windows fall, no stretch as long as one *)
(* holds two full budgets of a source.                                      *)
THEOREM BurstsStayBounded == Spec => []BurstsAreBounded
<1>1. MediatorInv => BurstsAreBounded
  <2>1. SUFFICES ASSUME MediatorInv, NEW e \in Endpoints, NEW t \in 0 .. MaxTime
                 PROVE  Cardinality({i \in policySince + 1 .. Len(forwards) :
                          forwards[i].source = e /\ forwards[i].at \in t .. t + RateWindow - 1})
                        <= IF MaxPerWindow = 0 THEN 0 ELSE 2 * MaxPerWindow - 1
    BY DEF BurstsAreBounded
  <2>2. t \in Nat /\ t + RateWindow - 1 \in Int
    BY MediatorAssumption
  <2>3. {i \in policySince + 1 .. Len(forwards) :
          forwards[i].source = e /\ forwards[i].at \in t .. t + RateWindow - 1}
        = Span(forwards, policySince, e, t, t + RateWindow - 1)
    <3>1. \A i \in policySince + 1 .. Len(forwards) : forwards[i].at \in Nat
      <4>1. \A i \in policySince + 1 .. Len(forwards) : forwards[i] \in Packets
        BY <2>1 DEF MediatorInv, MediatorTypes
      <4>2. \A p \in Packets : p.at \in Nat
        BY DEF Packets
      <4>3. QED BY <4>1, <4>2
    <3>2. QED BY <2>2, <3>1 DEF Span
  <2>4. QED BY <2>1, <2>2, <2>3 DEF MediatorInv, Limited, Bounded
<1>2. QED BY <1>1, MediatorInvariance, PTL

(* update_transport: only what was forwarded is in the mediated transport,  *)
(* whatever was blocked, limited, suppressed or refused by a full queue.    *)
THEOREM TransportIsTrue == Spec => []TransportIsForwarded
BY MediatorInvariance, PTL DEF MediatorInv
=============================================================================
