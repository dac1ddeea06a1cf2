------------------------------- MODULE LocalIpc -------------------------------
(***************************************************************************)
(* run_local_ipc_server and send_local_ipc_command of                      *)
(* src/platform/local_ipc.cpp: a service process that is started, serves   *)
(* one client at a time over a named pipe with a single instance, and      *)
(* persists its counters; client processes that call it; the credential    *)
(* file that whichever comes first creates.  Processes die at any point.   *)
(*                                                                         *)
(* save_state replaces the file as a whole, written through, so it is one  *)
(* step.  A missing state file reads as the initial one.  The server's and *)
(* the clients' steps on the credential file are one system call each.     *)
(***************************************************************************)
EXTENDS Naturals, FiniteSets

CONSTANTS Server, Clients, NoClient,
          Keys, NoKey, TornKey,  \* credentials, a missing one and a partial one
          RequestLimit,          \* maximum_requests; 0 is no limit
          MaxCalls,              \* bound: calls the clients make
          MaxFaults              \* bound: processes that die and saves that fail

Processes == Clients \cup {Server}

ASSUME IpcAssumption ==
  /\ IsFiniteSet(Clients) /\ IsFiniteSet(Keys)
  /\ Server \notin Clients /\ NoClient \notin Processes
  /\ NoKey \notin Keys /\ TornKey \notin Keys \cup {NoKey}
  /\ Cardinality(Keys) > Cardinality(Clients) + 3
  /\ {RequestLimit, MaxCalls, MaxFaults} \subseteq Nat

VARIABLES
  at,       \* process -> where it is in its function
  key,      \* process -> the credential it holds
  keyFile,  \* credential.bin
  temp,     \* credential.bin.tmp: what it holds and who has it open
  file,     \* service-state.json
  local,    \* the server's state, handled, shutdown and response
  pipe,     \* "none", "free" to a client, "taken", or "idle" once disconnected
  conn,     \* client at the other end of the pipe
  request,  \* what the server can read: at most one request
  reply,    \* client -> what it can read: at most one response
  answered, \* request counts of the accepted responses that clients received
  unended,  \* server runs that served and ended without a clean shutdown
  calls, faults  \* how much of each bound is used

keyVars == <<key, keyFile, temp>>
pipeVars == <<pipe, conn, request, reply>>
bounds == <<calls, faults>>
vars == <<at, keyVars, file, local, pipeVars, answered, unended, bounds>>

(* "refused" is any request whose shape, protocol, version or command the  *)
(* server does not take.                                                   *)
Commands == {"ping", "shutdown", "refused"}
Initial == [starts |-> 0, requests |-> 0, unclean |-> 0, clean |-> TRUE]
Rejected == 0  \* a response that is not accepted; others give their count
NoLocal == [state |-> Initial, handled |-> 0, shutdown |-> FALSE, answer |-> Rejected]
NoTemp == [holds |-> NoKey, opener |-> NoClient]

Serving == at[Server] \in {"listening", "reading", "saving", "replying", "flushing", "stopping"}
Goto(p, to) == at' = [at EXCEPT ![p] = to]

Init ==
  /\ at = [p \in Processes |-> IF p = Server THEN "down" ELSE "idle"]
  /\ key = [p \in Processes |-> NoKey]
  /\ keyFile \in {NoKey, CHOOSE k \in Keys : TRUE}
  /\ temp = NoTemp
  /\ file = Initial /\ local = NoLocal
  /\ pipe = "none" /\ conn = NoClient
  /\ request = {} /\ reply = [c \in Clients |-> {}]
  /\ answered = {} /\ unended = 0
  /\ calls = 0 /\ faults \in 0 .. MaxFaults
-----------------------------------------------------------------------------
(* Leaving a function: the handles close.  A response already in the pipe  *)
(* can still be read after the server has gone.                            *)
LeaveServer ==
  /\ Goto(Server, "down")
  /\ key' = [key EXCEPT ![Server] = NoKey]
  /\ local' = NoLocal
  /\ pipe' = "none" /\ conn' = NoClient /\ request' = {}
  /\ UNCHANGED reply
LeaveConnected(c) ==
  /\ Goto(c, "idle")
  /\ key' = [key EXCEPT ![c] = NoKey]
  /\ reply' = [reply EXCEPT ![c] = {}]
  /\ UNCHANGED <<local, pipe, conn, request>>
LeaveClient(c) ==
  /\ Goto(c, "idle")
  /\ key' = [key EXCEPT ![c] = NoKey]
  /\ conn' = IF conn = c THEN NoClient ELSE conn
  /\ reply' = [reply EXCEPT ![c] = {}]
  /\ UNCHANGED <<local, pipe, request>>
Leave(p) == IF p = Server THEN LeaveServer ELSE LeaveClient(p)
-----------------------------------------------------------------------------
(* load_or_create_credential, for the server and for clients.              *)
Known == {key[p] : p \in Processes} \cup {keyFile, temp.holds}
NewKey == CHOOSE k \in Keys : k \notin Known
WithKey(p) == IF p = Server THEN "loading" ELSE "connecting"
Obtained(p, k) ==
  /\ key' = [key EXCEPT ![p] = k]
  /\ Goto(p, WithKey(p))
  /\ UNCHANGED <<local, pipeVars>>
KeyRest == UNCHANGED <<file, answered, unended, bounds>>

LookForKey(p) ==
  /\ at[p] = "looking"
  /\ \/ keyFile \in Keys /\ Obtained(p, keyFile)
     \/ keyFile = TornKey /\ Leave(p)
     \/ /\ keyFile = NoKey
        /\ key' = [key EXCEPT ![p] = NewKey]
        /\ Goto(p, "opening")
        /\ UNCHANGED <<local, pipeVars>>
  /\ UNCHANGED <<keyFile, temp>> /\ KeyRest

OpenTemp(p) ==
  /\ at[p] = "opening"
  /\ \/ /\ temp.opener = NoClient
        /\ temp' = [holds |-> TornKey, opener |-> p]
        /\ Goto(p, "writing")
        /\ UNCHANGED <<key, local, pipeVars>>
     \/ temp.opener # NoClient /\ Leave(p) /\ UNCHANGED temp
  /\ UNCHANGED keyFile /\ KeyRest

CloseTemp(p) ==
  /\ at[p] = "writing"
  /\ temp' = [holds |-> key[p], opener |-> NoClient]
  /\ Goto(p, "moving")
  /\ UNCHANGED <<key, keyFile, local, pipeVars>> /\ KeyRest

(* The file that is moved is whatever has that name by now.                *)
MoveTemp(p) ==
  /\ at[p] = "moving"
  /\ \/ /\ temp.opener = NoClient /\ temp.holds # NoKey
        /\ keyFile' = temp.holds
        /\ temp' = NoTemp
        /\ Obtained(p, key[p])
     \/ /\ temp.opener # NoClient \/ temp.holds = NoKey
        /\ Leave(p)
        /\ UNCHANGED <<keyFile, temp>>
  /\ KeyRest

Credential(p) == LookForKey(p) \/ OpenTemp(p) \/ CloseTemp(p) \/ MoveTemp(p)
-----------------------------------------------------------------------------
(* The server.  Creating the pipe fails while another server has it.       *)
StartServer ==
  /\ at[Server] = "down"
  /\ pipe' = "free"
  /\ Goto(Server, "looking")
  /\ UNCHANGED <<keyVars, file, local, conn, request, reply, answered, unended, bounds>>

ServerRest == UNCHANGED <<keyVars, answered, unended, bounds>>

ResumedAnew ==
  [Initial EXCEPT !.starts = file.starts + 1, !.clean = FALSE,
     !.unclean = file.unclean + (IF file.clean THEN 0 ELSE 1)]
Resumed ==
  [file EXCEPT !.starts = @ + 1, !.clean = FALSE,
     !.unclean = @ + (IF file.clean THEN 0 ELSE 1)]
LoadState ==
  /\ at[Server] = "loading"
  /\ local' = [local EXCEPT !.state = Resumed]
  /\ Goto(Server, "starting")
  /\ UNCHANGED <<file, pipeVars>> /\ ServerRest

SaveStartup ==
  /\ at[Server] = "starting"
  /\ file' = local.state
  /\ Goto(Server, "listening")
  /\ UNCHANGED <<local, pipeVars>> /\ ServerRest

(* ConnectNamedPipe reopens a disconnected pipe and takes a client that is *)
(* already there.                                                          *)
Accept ==
  /\ at[Server] = "listening"
  /\ \/ pipe = "idle" /\ pipe' = "free" /\ UNCHANGED at
     \/ pipe = "taken" /\ conn # NoClient /\ Goto(Server, "reading") /\ UNCHANGED pipe
  /\ UNCHANGED <<file, local, conn, request, reply>> /\ ServerRest

(* It fails when that client has gone again, and the server ends.          *)
AcceptFails ==
  /\ at[Server] = "listening" /\ pipe = "taken" /\ conn = NoClient
  /\ LeaveServer
  /\ unended' = unended + 1
  /\ UNCHANGED <<keyFile, temp, file, answered, bounds>>

Acceptable(r) == r.key = key[Server] /\ r.command # "refused"
ReadRequest ==
  /\ at[Server] = "reading"
  /\ request' = {}
  /\ \/ \E r \in request :
          /\ Acceptable(r)
          /\ local' = [local EXCEPT !.state.requests = @ + 1, !.handled = @ + 1,
                         !.answer = local.state.requests + 1,
                         !.shutdown = r.command = "shutdown"]
          /\ Goto(Server, "saving")
     \/ /\ \/ \E r \in request : ~Acceptable(r)
           \/ request = {} /\ conn = NoClient
        /\ local' = [local EXCEPT !.answer = Rejected]
        /\ Goto(Server, "replying")
  /\ UNCHANGED <<file, pipe, conn, reply>> /\ ServerRest

SaveLater ==
  /\ at[Server] = "saving"
  /\ Goto(Server, "replying")
  /\ UNCHANGED <<file, local, pipeVars>> /\ ServerRest
SaveRequest ==
  /\ at[Server] = "saving"
  /\ file' = local.state
  /\ Goto(Server, "replying")
  /\ UNCHANGED <<local, pipeVars>> /\ ServerRest

(* Writing to a client that has gone fails, which the server ignores.      *)
ReplyIfAccepted ==
  /\ at[Server] = "replying"
  /\ reply' = [c \in Clients |-> IF c = conn THEN {local.answer} \ {Rejected} ELSE reply[c]]
  /\ Goto(Server, "flushing")
  /\ UNCHANGED <<file, local, pipe, conn, request>> /\ ServerRest
WriteReply ==
  /\ at[Server] = "replying"
  /\ reply' = [c \in Clients |-> IF c = conn THEN {local.answer} ELSE reply[c]]
  /\ Goto(Server, "flushing")
  /\ UNCHANGED <<file, local, pipe, conn, request>> /\ ServerRest

DoneAtLimit == RequestLimit > 0 /\ local.handled >= RequestLimit
Done == local.shutdown \/ (RequestLimit > 0 /\ local.handled >= RequestLimit)
(* FlushFileBuffers returns when the client has read it all or has gone.   *)
Disconnect ==
  /\ at[Server] = "flushing"
  /\ conn = NoClient
  /\ pipe' = "idle" /\ request' = {}
  /\ Goto(Server, IF Done THEN "stopping" ELSE "listening")
  /\ UNCHANGED <<file, local, conn, reply>> /\ ServerRest

StoppedAsIs == local.state
Stopped == [local.state EXCEPT !.clean = TRUE]
StopServer ==
  /\ at[Server] = "stopping"
  /\ file' = Stopped
  /\ LeaveServer
  /\ UNCHANGED <<keyFile, temp, answered, unended, bounds>>

SaveFails ==
  /\ at[Server] \in {"starting", "saving", "stopping"} /\ faults < MaxFaults
  /\ LeaveServer
  /\ unended' = IF Serving THEN unended + 1 ELSE unended
  /\ faults' = faults + 1
  /\ UNCHANGED <<keyFile, temp, file, answered, calls>>
-----------------------------------------------------------------------------
(* A client.                                                               *)
Call(c) ==
  /\ at[c] = "idle" /\ calls < MaxCalls
  /\ calls' = calls + 1
  /\ Goto(c, "looking")
  /\ UNCHANGED <<keyVars, file, local, pipeVars, answered, unended, faults>>

ClientRest == UNCHANGED <<keyFile, temp, file, unended, bounds>>

Connect(c) ==
  /\ at[c] = "connecting" /\ pipe = "free"
  /\ pipe' = "taken" /\ conn' = c
  /\ Goto(c, "sending")
  /\ UNCHANGED <<key, local, request, reply, answered>> /\ ClientRest

(* The deadline passes after an attempt that failed.                       *)
GiveUp(c) ==
  /\ at[c] = "connecting"
  /\ LeaveClient(c)
  /\ UNCHANGED answered /\ ClientRest

Send(c) ==
  /\ at[c] = "sending" /\ conn = c
  /\ \E cmd \in Commands : request' = {[key |-> key[c], command |-> cmd]}
  /\ Goto(c, "waiting")
  /\ UNCHANGED <<key, local, pipe, conn, reply, answered>> /\ ClientRest

Receive(c) ==
  /\ at[c] = "waiting" /\ reply[c] # {}
  /\ answered' = answered \cup (reply[c] \ {Rejected})
  /\ LeaveClient(c)
  /\ ClientRest

(* Writing or reading fails: the server has gone.                          *)
Broken(c) ==
  /\ at[c] \in {"sending", "waiting"} /\ conn # c /\ reply[c] = {}
  /\ LeaveClient(c)
  /\ UNCHANGED answered /\ ClientRest
-----------------------------------------------------------------------------
(* External: processes are killed.  An open temporary file is left torn.   *)
Released(p) == IF temp.opener = p THEN [temp EXCEPT !.opener = NoClient] ELSE temp
Crash ==
  /\ at[Server] # "down" /\ faults < MaxFaults
  /\ faults' = faults + 1
  /\ unended' = IF Serving THEN unended + 1 ELSE unended
  /\ temp' = Released(Server)
  /\ LeaveServer
  /\ UNCHANGED <<keyFile, file, answered, calls>>
ClientDies(c) ==
  /\ at[c] # "idle" /\ faults < MaxFaults
  /\ faults' = faults + 1
  /\ temp' = Released(c)
  /\ LeaveClient(c)
  /\ UNCHANGED <<keyFile, file, answered, unended, calls>>

ServerStep ==
  \/ Credential(Server) \/ LoadState \/ SaveStartup
  \/ Accept \/ AcceptFails \/ ReadRequest \/ SaveRequest
  \/ WriteReply \/ Disconnect \/ StopServer
ClientStep(c) ==
  Credential(c) \/ Connect(c) \/ GiveUp(c) \/ Send(c) \/ Receive(c) \/ Broken(c)

Next ==
  \/ StartServer \/ ServerStep \/ SaveFails \/ Crash
  \/ \E c \in Clients : Call(c) \/ ClientStep(c) \/ ClientDies(c)

Spec == Init /\ [][Next]_vars
(* Processes that are running run; nobody need start, call, die or fail.   *)
Fairness == WF_vars(ServerStep) /\ \A c \in Clients : WF_vars(ClientStep(c))
FairSpec == Spec /\ Fairness
-----------------------------------------------------------------------------
States == [starts : Nat, requests : Nat, unclean : Nat, clean : BOOLEAN]
(* Types, and who can be at the other end of the pipe.                     *)
TypeOK ==
  /\ at[Server] \in {"down", "looking", "opening", "writing", "moving", "loading", "starting",
                     "listening", "reading", "saving", "replying", "flushing", "stopping"}
  /\ \A c \in Clients : at[c] \in {"idle", "looking", "opening", "writing", "moving",
                                   "connecting", "sending", "waiting"}
  /\ key \in [Processes -> Keys \cup {NoKey}]
  /\ keyFile \in Keys \cup {NoKey, TornKey}
  /\ temp \in [holds : Keys \cup {NoKey, TornKey}, opener : Processes \cup {NoClient}]
  /\ file \in States /\ local.state \in States
  /\ local.handled \in Nat /\ local.answer \in Nat /\ local.shutdown \in BOOLEAN
  /\ pipe \in {"none", "free", "taken", "idle"} /\ conn \in Clients \cup {NoClient}
  /\ request \subseteq [key : Keys, command : Commands] /\ Cardinality(request) <= 1
  /\ reply \in [Clients -> SUBSET Nat]
  /\ answered \subseteq Nat \ {0} /\ unended \in Nat
  /\ conn # NoClient => pipe = "taken" /\ at[conn] \in {"sending", "waiting"}
  /\ (at[Server] = "down") <=> (pipe = "none")

(* "clean/unclean restart accounting" (COMMERCIAL_RELEASE_GATES): a run    *)
(* that served and ended without a clean shutdown is counted by the next   *)
(* start that gets as far as serving, exactly once, wherever it ended and  *)
(* however often the starts in between failed.                             *)
UncleanEndsCounted ==
  unended = file.unclean + (IF Serving \/ file.clean THEN 0 ELSE 1)

(* An accepted response gives a count that is on the disk before a client  *)
(* can read it, survives every crash, and was given to nobody else.        *)
AnsweredIsPersisted ==
  /\ \A n \in answered \cup UNION {reply[c] : c \in Clients} : n <= file.requests
  /\ \A c \in Clients : reply[c] \cap answered = {}
  /\ \A c, d \in Clients : c # d => reply[c] \cap reply[d] \subseteq {Rejected}

(* No crash, failed start or restart makes a persisted counter go back.    *)
CountsSurvive ==
  [][/\ file'.starts >= file.starts
     /\ file'.requests >= file.requests
     /\ file'.unclean >= file.unclean]_vars

(* Every call returns, although neither side times out a read or a flush:  *)
(* to clients that wait, to ones that connect while the server starts,     *)
(* stops or dies, and to ones with another credential.                     *)
CallsReturn == \A c \in Clients : at[c] # "idle" ~> at[c] = "idle"

(* A server that accepted a shutdown ends.                                 *)
ShutdownStops == local.shutdown ~> at[Server] = "down"

(* maximum_requests: "zero keeps accepting clients until an authenticated  *)
(* shutdown" (local_ipc.hpp).  Refuted: a client that connects while the   *)
(* server starts and is gone when it listens ends the server.              *)
StopsOnlyWhenAsked ==
  [][Serving /\ RequestLimit = 0 /\ at'[Server] = "down" /\ faults' = faults
       => local.shutdown]_vars
=============================================================================
