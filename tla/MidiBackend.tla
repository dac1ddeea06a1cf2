------------------------------ MODULE MidiBackend ------------------------------
(***************************************************************************)
(* WindowsMidiBackend (src/platform/hardware_backends.cpp) under the three *)
(* commands of main.cpp that use it: monitor_midi, send_test_note and      *)
(* send_transport_test.  Each process runs one command on the instrument   *)
(* it names.                                                               *)
(*                                                                         *)
(* WinMM is external: it numbers the instruments it has now, gives a port  *)
(* to one process at a time, calls back in a thread of its own between     *)
(* midiInStart and midiInStop, and midiInClose returns when no call runs.  *)
(***************************************************************************)
EXTENDS Integers, Sequences

CONSTANTS Processes, Instruments, None,
          Pulses,     \* clock pulses of a transport test
          MaxTrouble  \* bound: failed calls, ended processes and unplugged instruments

Dead == "unplugged"   \* what a handle is of when its instrument is gone

ASSUME MidiAssumption ==
    /\ Pulses \in Nat /\ MaxTrouble \in Nat
    /\ None \notin Instruments /\ Dead \notin Instruments

VARIABLES ports,     \* the instruments WinMM lists, in its order
          process,   \* process -> what it does and holds
          calling,   \* processes in whose monitor a callback runs
          sounding,  \* instruments that play the test note
          rolling,   \* instruments whose transport runs
          excused,   \* instruments that could not be told to stop
          trouble

midiVars == <<ports, process, calling, sounding, rolling, excused, trouble>>

Commands == {"monitor", "note", "transport"}
\* close: nothing is freed while a callback may still use it.
CloseOrderEager == <<"erase", "midiInStop", "midiInReset", "midiInClose">>
CloseOrder == <<"midiInStop", "midiInReset", "midiInClose", "erase">>

Idle == [pc |-> "idle", command |-> "note", port |-> 0, handle |-> None, pulse |-> 0,
         ok |-> TRUE, flows |-> FALSE, input |-> FALSE]

MidiInit ==
    /\ \E first, second \in Instruments :
          ports \in {<<first>>, <<first, second>>} /\ (Len(ports) = 2 => first # second)
    /\ process = [p \in Processes |-> Idle]
    /\ calling = {} /\ sounding = {} /\ rolling = {} /\ excused = {} /\ trouble = 0

At(p, pc) == process[p].pc = pc
\* The input and the output of an instrument are ports of their own.
Busy(d, input) ==
    \E p \in Processes : process[p].handle = d /\ (process[p].command = "monitor") = input
Ends(p)   == process' = [process EXCEPT ![p] = Idle]
Mishap    == trouble < MaxTrouble /\ trouble' = trouble + 1
Connected(d) == \E i \in DOMAIN ports : ports[i] = d
LinkRest  == UNCHANGED <<ports, calling, sounding, rolling, excused>>

(* enumerate_endpoints, and the first endpoint with the wanted name: what  *)
(* is kept of it is its number.                                            *)
Find(p, command, wanted) ==
    /\ At(p, "idle")
    /\ \E i \in DOMAIN ports :
          /\ ports[i] = wanted
          /\ process' = [process EXCEPT ![p].pc = "found", ![p].command = command,
                                        ![p].port = i]
    /\ LinkRest /\ UNCHANGED trouble

(* open_output and open_input of that number, whatever has it by now.      *)
CanOpen(p) == /\ process[p].port \in DOMAIN ports
              /\ ~Busy(ports[process[p].port], process[p].command = "monitor")

OpenFails(p) ==
    /\ At(p, "found") /\ ~CanOpen(p)
    /\ Ends(p)
    /\ LinkRest /\ UNCHANGED trouble

OpenOutput(p) ==
    /\ At(p, "found") /\ process[p].command # "monitor" /\ CanOpen(p)
    /\ process' = [process EXCEPT ![p].pc = "first", ![p].handle = ports[process[p].port]]
    /\ LinkRest /\ UNCHANGED trouble

(* The Input object exists before the port is opened; a start that fails   *)
(* closes the port and frees it.                                           *)
OpenInput(p) ==
    /\ At(p, "found") /\ process[p].command = "monitor" /\ CanOpen(p)
    /\ \/ /\ process' = [process EXCEPT ![p].pc = "monitoring", ![p].input = TRUE,
                             ![p].flows = TRUE, ![p].handle = ports[process[p].port]]
          /\ UNCHANGED trouble
       \/ Mishap /\ Ends(p)
    /\ LinkRest

(* send: a message reaches the instrument, or the call reports a failure.  *)
\* What a message does to the instrument that gets it.
Told(p, message) ==
    LET d == process[p].handle IN
    /\ sounding' = CASE message = "note_on"  -> sounding \cup {d}
                     [] message = "note_off" -> sounding \ {d}
                     [] OTHER -> sounding
    /\ rolling' = CASE message = "start" -> rolling \cup {d}
                    [] message = "stop"  -> rolling \ {d}
                    [] OTHER -> rolling

Send(p, message, sent, failed) ==
    \/ /\ Connected(process[p].handle)
       /\ Told(p, message)
       /\ process' = [process EXCEPT ![p] = sent]
       /\ excused' = excused \cap (sounding' \cup rolling')
       /\ UNCHANGED trouble
    \/ /\ \/ Connected(process[p].handle) /\ Mishap
          \/ ~Connected(process[p].handle) /\ UNCHANGED trouble
       /\ process' = [process EXCEPT ![p] = failed]
       /\ excused' = IF message \in {"note_off", "stop"} THEN excused \cup {process[p].handle}
                     ELSE excused
       /\ UNCHANGED <<sounding, rolling>>

First(p) ==
    /\ At(p, "first")
    /\ LET next == [process[p] EXCEPT
                      !.pc = IF process[p].command = "note" THEN "last" ELSE "pulses"]
       IN Send(p, IF process[p].command = "note" THEN "note_on" ELSE "start",
               next, [next EXCEPT !.ok = FALSE])
    /\ UNCHANGED <<ports, calling>>

\* Clock pulses go on while each is sent.
Pulsing(p) == process[p].ok /\ process[p].pulse < Pulses

Pulse(p) ==
    /\ At(p, "pulses") /\ Pulsing(p)
    /\ Send(p, "clock", [process[p] EXCEPT !.pulse = @ + 1], [process[p] EXCEPT !.ok = FALSE])
    /\ UNCHANGED <<ports, calling>>

LastIfGood(p) ==  \* mutant: the last message only after a good start
    /\ At(p, "last") \/ (At(p, "pulses") /\ ~Pulsing(p))
    /\ LET next == [process[p] EXCEPT !.pc = "closing"]
       IN IF process[p].ok
          THEN Send(p, IF process[p].command = "note" THEN "note_off" ELSE "stop", next, next)
          ELSE process' = [process EXCEPT ![p] = next]
               /\ UNCHANGED <<sounding, rolling, excused, trouble>>
    /\ UNCHANGED <<ports, calling>>

(* Note Off or Stop is sent whatever became of the messages before it.     *)
Last(p) ==
    /\ At(p, "last") \/ (At(p, "pulses") /\ ~Pulsing(p))
    /\ LET next == [process[p] EXCEPT !.pc = "closing"]
       IN Send(p, IF process[p].command = "note" THEN "note_off" ELSE "stop", next, next)
    /\ UNCHANGED <<ports, calling>>

(* close of an output: midiOutReset ends the notes, and nothing else.      *)
CloseOutput(p) ==
    /\ At(p, "closing")
    /\ Ends(p)
    /\ sounding' = sounding \ {process[p].handle}
    /\ UNCHANGED <<ports, calling, rolling, excused, trouble>>

(* A message arrives: the driver's thread calls receive.                   *)
Receive(p) ==
    /\ process[p].flows /\ p \notin calling /\ Connected(process[p].handle)
    /\ calling' = calling \cup {p}
    /\ UNCHANGED <<ports, process, sounding, rolling, excused, trouble>>

Received(p) ==
    /\ calling' = calling \ {p} /\ calling' # calling
    /\ UNCHANGED <<ports, process, sounding, rolling, excused, trouble>>

(* close of an input, one call after the other.                            *)
CloseInput(p) ==
    /\ At(p, "monitoring")
    /\ LET step == process[p].pulse + 1
           call == CloseOrder[step]
           next == IF step = Len(CloseOrder) THEN Idle ELSE [process[p] EXCEPT !.pulse = step]
       IN /\ call = "midiInClose" => p \notin calling
          /\ process' = [process EXCEPT ![p] =
                CASE call = "midiInStop"  -> [next EXCEPT !.flows = FALSE]
                  [] call = "midiInReset" -> next
                  [] call = "midiInClose" -> [next EXCEPT !.handle = None]
                  [] call = "erase"       -> [next EXCEPT !.input = FALSE]]
    /\ LinkRest /\ UNCHANGED trouble

(* The process ends anywhere; its handles and its threads go with it.      *)
Killed(p) ==
    /\ process[p].pc # "idle"
    /\ Mishap /\ Ends(p)
    /\ calling' = calling \ {p}
    /\ excused' = IF process[p].handle = None THEN excused ELSE excused \cup {process[p].handle}
    /\ UNCHANGED <<ports, sounding, rolling>>

(* An instrument is unplugged: it is silent, those behind it move up, and  *)
(* a handle of it stays dead.  Plugged in again it comes last.             *)
Unplug(i) ==
    /\ i \in DOMAIN ports
    /\ Mishap
    /\ process' = [p \in Processes |-> IF process[p].handle = ports[i]
                                       THEN [process[p] EXCEPT !.handle = Dead] ELSE process[p]]
    /\ ports' = SubSeq(ports, 1, i - 1) \o SubSeq(ports, i + 1, Len(ports))
    /\ sounding' = sounding \ {ports[i]} /\ rolling' = rolling \ {ports[i]}
    /\ UNCHANGED <<calling, excused>>

Plug(d) ==
    /\ ~Connected(d)
    /\ ports' = Append(ports, d)
    /\ UNCHANGED <<process, calling, sounding, rolling, excused, trouble>>

Work(p) ==
    \/ \E command \in Commands, d \in Instruments : Find(p, command, d)
    \/ OpenFails(p) \/ OpenOutput(p) \/ OpenInput(p)
    \/ First(p) \/ Pulse(p) \/ Last(p) \/ CloseOutput(p) \/ CloseInput(p)

MidiNext ==
    \/ \E p \in Processes : Work(p) \/ Receive(p) \/ Received(p) \/ Killed(p)
    \/ \E i \in DOMAIN ports : Unplug(i)
    \/ \E d \in Instruments : Plug(d)

MidiSpec == MidiInit /\ [][MidiNext]_midiVars
-----------------------------------------------------------------------------
(* An instrument whose output no process holds any more plays no test note *)
(* and runs no test transport, unless the very message that ends it failed *)
(* or the process was ended: an earlier failure is no reason to leave one. *)
NothingLeftRunning ==
    \A d \in Instruments : ~Busy(d, FALSE) /\ d \notin excused => d \notin sounding \cup rolling

(* A callback of the driver's thread never runs on a freed Input.          *)
CallbackHasItsInput == \A p \in calling : process[p].input
=============================================================================
