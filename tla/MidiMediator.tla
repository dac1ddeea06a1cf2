---------------------------- MODULE MidiMediator ----------------------------
(***************************************************************************)
(* MidiMediator of src/core/midi_mediation.cpp: one thread routes packets  *)
(* between the hardware and the DAW, changes the policy and resets; each   *)
(* destination takes its packets from a queue.  The queues are sequences:  *)
(* SpscRing shows that the real ones behave like that.                     *)
(*                                                                         *)
(* Packets carry the time of the source they come from; each source has a  *)
(* clock of its own, which never goes back.  "forwards" and "policySince"  *)
(* are history variables: what was forwarded since the last reset, and how *)
(* much of it before the last set_policy.                                  *)
(***************************************************************************)
EXTENDS Naturals, Sequences, FiniteSetsExt

CONSTANTS
  Messages,       \* records [kind, data]; equal ones have the same bytes
  Policies,       \* policies set_policy is called with
  MaxPerWindow, RateWindow, EchoWindow,   \* the numbers of the policy
  EchoSlots,      \* size of echo_records_
  QueueCapacity,  \* packets a queue holds
  MaxTime,        \* bound: timestamps
  MaxForwards     \* bound: packets forwarded between two resets

Endpoints == {"hardware", "daw"}
TransportKinds == {"start", "continue", "stop", "position"}
Kinds == TransportKinds \cup {"invalid", "clock", "channel"}

ASSUME MediatorAssumption ==
  /\ Messages \subseteq [kind : Kinds, data : Nat]
  /\ Policies \subseteq [transport : Endpoints, clock : Endpoints, sources : SUBSET Endpoints]
  /\ MaxPerWindow \in Nat /\ RateWindow \in Nat /\ EchoWindow \in Nat
  /\ EchoSlots \in Nat \ {0} /\ QueueCapacity \in Nat
  /\ MaxTime \in Nat /\ MaxForwards \in Nat

VARIABLES policy, transport, queue, echoes, nextEcho, windows, clock, forwards, policySince

vars == <<policy, transport, queue, echoes, nextEcho, windows, clock, forwards, policySince>>

NoRecord == [occupied |-> FALSE]
Stopped == [run |-> "stopped", pulses |-> 0, position |-> 0, lastTransport |-> 0, lastClock |-> 0]
EmptyWindows == [e \in Endpoints |-> [started |-> 0, messages |-> 0]]
NoEchoes == [i \in 0 .. EchoSlots - 1 |-> NoRecord]
NoQueues == [e \in Endpoints |-> <<>>]

(* transport_ repeats the two authorities of the policy.                   *)
Reported(state, p) ==
  [run |-> state.run, pulses |-> state.pulses, position |-> state.position,
   lastTransport |-> state.lastTransport, lastClock |-> state.lastClock,
   transportAuthority |-> p.transport, clockAuthority |-> p.clock]

Init ==
  /\ policy \in Policies
  /\ transport = Reported(Stopped, policy)
  /\ queue = NoQueues
  /\ echoes = NoEchoes /\ nextEcho = 0
  /\ windows = EmptyWindows
  /\ clock = [e \in Endpoints |-> 0]
  /\ forwards = <<>> /\ policySince = 0
-----------------------------------------------------------------------------
Opposite(e) == CHOOSE other \in Endpoints : other # e

(* The gates of route before the rate budget.                              *)
DirectionOpen(source) == source \in policy.sources
HasAuthority(source, message) ==
  /\ message.kind = "clock" => source = policy.clock
  /\ message.kind \in TransportKinds => source = policy.transport

ElapsedWithin(earlier, later, window) == later >= earlier /\ later - earlier <= window
IsEchoOfOwn(source, message, at) ==
  \E i \in DOMAIN echoes :
    /\ echoes[i].occupied /\ echoes[i].target # source
    /\ echoes[i].message = message
    /\ ElapsedWithin(echoes[i].at, at, EchoWindow)
IsEcho(source, message, at) ==
  \E i \in DOMAIN echoes :
    /\ echoes[i].occupied /\ echoes[i].target = source
    /\ echoes[i].message = message
    /\ ElapsedWithin(echoes[i].at, at, EchoWindow)

Admitted(source, message, at) ==
  /\ message.kind # "invalid"
  /\ DirectionOpen(source)
  /\ HasAuthority(source, message)
  /\ ~IsEcho(source, message, at)

(* consume_rate_budget: a window starts with its first message.            *)
WindowOverEarly(w, at) ==
  w.messages = 0 \/ at < w.started \/ at - w.started + 1 >= RateWindow
WindowOver(w, at) ==
  w.messages = 0 \/ at < w.started \/ at - w.started >= RateWindow
WithinBudget(source, at) ==
  /\ MaxPerWindow # 0 /\ RateWindow # 0
  /\ WindowOver(windows[source], at) \/ windows[source].messages < MaxPerWindow
Consume(source, at) ==
  windows' = [windows EXCEPT ![source] =
    IF WindowOver(@, at) THEN [started |-> at, messages |-> 1]
                         ELSE [started |-> @.started, messages |-> @.messages + 1]]

RememberForward(source, message, at) ==
  /\ echoes' = [echoes EXCEPT ![nextEcho] =
       [occupied |-> TRUE, target |-> Opposite(source), message |-> message, at |-> at]]
  /\ nextEcho' = (nextEcho + 1) % EchoSlots

RunState == [start |-> "running", continue |-> "continuing", stop |-> "stopped"]

AfterTransportLatched(state, source, message, at) ==
  CASE message.kind = "clock" -> [state EXCEPT !.pulses = @ + 1, !.lastClock = at]
    [] message.kind = "position" ->
         [state EXCEPT !.position = message.data, !.transportAuthority = source,
                       !.run = "stopped", !.lastTransport = at]
    [] message.kind \in DOMAIN RunState ->
         [state EXCEPT !.run = RunState[message.kind], !.transportAuthority = source,
                       !.lastTransport = at]
    [] OTHER -> state
(* update_transport                                                        *)
AfterTransport(state, source, message, at) ==
  CASE message.kind = "clock" -> [state EXCEPT !.pulses = @ + 1, !.lastClock = at]
    [] message.kind = "position" ->
         [state EXCEPT !.position = message.data, !.transportAuthority = source,
                       !.lastTransport = at]
    [] message.kind \in DOMAIN RunState ->
         [state EXCEPT !.run = RunState[message.kind], !.transportAuthority = source,
                       !.lastTransport = at]
    [] OTHER -> state

Forward(source, message, at) ==
  /\ Len(queue[Opposite(source)]) < QueueCapacity
  /\ Len(forwards) < MaxForwards
  /\ queue' = [queue EXCEPT ![Opposite(source)] =
                 Append(@, [source |-> source, message |-> message, at |-> at])]
  /\ RememberForward(source, message, at)
  /\ transport' = AfterTransport(transport, source, message, at)
  /\ forwards' = Append(forwards, [source |-> source, message |-> message, at |-> at])

(* A full queue refuses the packet after the budget was consumed.          *)
QueueFull(source, message, at) ==
  /\ Len(queue[Opposite(source)]) = QueueCapacity
  /\ UNCHANGED <<queue, echoes, nextEcho, transport, forwards>>

RouteRefused(source, message, at) ==
  /\ ~Admitted(source, message, at) \/ ~WithinBudget(source, at)
  /\ UNCHANGED <<windows, queue, echoes, nextEcho, transport, forwards>>

Route(source, message, at) ==
  /\ clock' = [clock EXCEPT ![source] = at]
  /\ UNCHANGED <<policy, policySince>>
  /\ \/ RouteRefused(source, message, at)
     \/ /\ Admitted(source, message, at) /\ WithinBudget(source, at)
        /\ Consume(source, at)
        /\ Forward(source, message, at) \/ QueueFull(source, message, at)

Pop(target) ==
  /\ queue[target] # <<>>
  /\ queue' = [queue EXCEPT ![target] = Tail(@)]
  /\ UNCHANGED <<policy, transport, echoes, nextEcho, windows, clock, forwards, policySince>>

SetPolicy(p) ==
  /\ policy' = p
  /\ transport' = Reported(transport, p)
  /\ windows' = EmptyWindows
  /\ policySince' = Len(forwards)
  /\ UNCHANGED <<queue, echoes, nextEcho, clock, forwards>>

Reset ==
  /\ queue' = NoQueues
  /\ echoes' = NoEchoes /\ nextEcho' = 0
  /\ windows' = EmptyWindows
  /\ transport' = Reported(Stopped, policy)
  /\ forwards' = <<>> /\ policySince' = 0
  /\ UNCHANGED <<policy, clock>>

Next ==
  \/ \E source \in Endpoints, message \in Messages :
       \E at \in clock[source] .. MaxTime : Route(source, message, at)
  \/ \E target \in Endpoints : Pop(target)
  \/ \E p \in Policies : SetPolicy(p)
  \/ Reset

Spec == Init /\ [][Next]_vars
-----------------------------------------------------------------------------
(* Echo suppression: a packet that was sent to an endpoint is not taken    *)
(* back from it within the echo window, whatever happened in between, as   *)
(* long as it is one of the last EchoSlots forwards.                       *)
EchoesNeverReturn ==
  \A i, j \in DOMAIN forwards :
    i < j /\ j - i <= EchoSlots /\ forwards[i].source # forwards[j].source
      /\ forwards[i].message = forwards[j].message
      => ~ElapsedWithin(forwards[i].at, forwards[j].at, EchoWindow)

(* Rate limiting: windows start with a message and follow each other, so   *)
(* two of them may meet in one stretch of a window's length, and no more:  *)
(* a source under one policy gets less than twice its budget through.      *)
BurstsAreBounded ==
  \A e \in Endpoints, t \in 0 .. MaxTime :
    Cardinality({i \in policySince + 1 .. Len(forwards) :
                   forwards[i].source = e /\ forwards[i].at \in t .. t + RateWindow - 1})
      <= IF MaxPerWindow = 0 THEN 0 ELSE 2 * MaxPerWindow - 1

(* The mediated transport state is what the forwarded packets add up to:   *)
(* blocked, suppressed, limited and refused ones leave no trace in it.     *)
Of(kinds) == {i \in DOMAIN forwards : forwards[i].message.kind \in kinds}
LastOf(kinds, otherwise) == IF Of(kinds) = {} THEN otherwise ELSE forwards[Max(Of(kinds))]
NoForward == [message |-> [kind |-> "stop", data |-> 0], at |-> 0]
TransportIsForwarded ==
  /\ transport.run = RunState[LastOf(DOMAIN RunState, NoForward).message.kind]
  /\ transport.position = LastOf({"position"}, NoForward).message.data
  /\ transport.lastTransport = LastOf(TransportKinds, NoForward).at
  /\ transport.lastClock = LastOf({"clock"}, NoForward).at
  /\ transport.pulses = Cardinality(Of({"clock"}))
=============================================================================
