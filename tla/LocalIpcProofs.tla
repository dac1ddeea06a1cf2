---------------------------- MODULE LocalIpcProofs ----------------------------
(* The accounting of the local service for any number of clients, calls,    *)
(* deaths and restarts: unclean ends are counted once, counters never go    *)
(* back, and a count a client was told is on the disk and its own.          *)
EXTENDS LocalIpc, FiniteSetTheorems, FunctionTheorems, TLAPS

USE IpcAssumption
-----------------------------------------------------------------------------
Places == {"down", "idle", "looking", "opening", "writing", "moving", "connecting", "sending",
           "waiting", "loading", "starting", "listening", "reading", "saving", "replying",
           "flushing", "stopping"}
Locals == [state : States, handled : Nat, shutdown : BOOLEAN, answer : Nat]

Typed ==
  /\ at \in [Processes -> Places]
  /\ file \in States /\ local \in Locals /\ unended \in Nat
  /\ reply \in [Clients -> SUBSET Nat] /\ answered \subseteq Nat \ {Rejected}

(* What the server holds is what the file says, but for one request that    *)
(* is counted and not yet saved; while it serves the file says it runs.     *)
Counting ==
  /\ at[Server] = "starting" =>
       /\ local.state.starts = file.starts + 1 /\ local.state.requests = file.requests
       /\ local.state.unclean = file.unclean + (IF file.clean THEN 0 ELSE 1)
       /\ ~local.state.clean
  /\ Serving =>
       /\ ~file.clean /\ ~local.state.clean
       /\ local.state.starts = file.starts /\ local.state.unclean = file.unclean
       /\ local.state.requests = IF at[Server] = "saving" THEN file.requests + 1
                                                          ELSE file.requests

(* The count in an answer is the server's own until it is written to the    *)
(* pipe, and nobody has been told it.                                       *)
Told == answered \cup UNION {reply[c] : c \in Clients}
Answering ==
  /\ at[Server] = "saving" => local.answer = local.state.requests
  /\ at[Server] = "replying" /\ local.answer # Rejected =>
       local.answer <= file.requests /\ local.answer \notin Told

Inv == Typed /\ Counting /\ UncleanEndsCounted /\ Answering /\ AnsweredIsPersisted
-----------------------------------------------------------------------------
(* A process other than the server is at another place afterwards; the      *)
(* server and what it counts are left alone.                                *)
Aside ==
  /\ at' \in [Processes -> Places] /\ at'[Server] = at[Server]
  /\ UNCHANGED <<file, local, unended>>

LEMMA GotoTyped ==
  ASSUME Typed, NEW p \in Processes, NEW to \in Places, Goto(p, to)
  PROVE  /\ at' \in [Processes -> Places] /\ at'[p] = to
         /\ \A q \in Processes \ {p} : at'[q] = at[q]
  BY DEF Typed, Goto

LEMMA ServerIsAProcess == Server \in Processes /\ \A c \in Clients : c \in Processes /\ c # Server
  BY DEF Processes

(* Clients look for the credential, connect, call and die beside the server.*)
LEMMA ClientAside ==
  ASSUME Typed, NEW c \in Clients, Call(c) \/ ClientStep(c) \/ ClientDies(c)
  PROVE  Aside
<1>1. c \in Processes /\ c # Server /\ Server \in Processes
  BY ServerIsAProcess
<1>2. ASSUME NEW to \in Places, Goto(c, to), UNCHANGED <<file, local, unended>>
      PROVE  Aside
  BY <1>1, <1>2, GotoTyped DEF Aside
<1>3. LeaveClient(c) => Goto(c, "idle") /\ UNCHANGED local
  BY DEF LeaveClient
<1>4. Leave(c) => Goto(c, "idle") /\ UNCHANGED local
  BY <1>1, <1>3 DEF Leave
<1>5. \A k : Obtained(c, k) => Goto(c, "connecting") /\ UNCHANGED local
  BY <1>1 DEF Obtained, WithKey
<1>6. CASE Credential(c)
  <2>1. UNCHANGED <<file, unended>>
    BY <1>6 DEF Credential, LookForKey, OpenTemp, CloseTemp, MoveTemp, KeyRest
  <2>2. \E to \in Places : Goto(c, to) /\ UNCHANGED local
    BY <1>4, <1>5, <1>6 DEF Credential, LookForKey, OpenTemp, CloseTemp, MoveTemp, Places
  <2>3. QED BY <1>2, <2>1, <2>2
<1>7. CASE Call(c)
  BY <1>2, <1>7 DEF Call, Places
<1>8. CASE Connect(c) \/ GiveUp(c) \/ Send(c) \/ Receive(c) \/ Broken(c) \/ ClientDies(c)
  <2>1. UNCHANGED <<file, unended>>
    BY <1>8 DEF Connect, GiveUp, Send, Receive, Broken, ClientDies, ClientRest
  <2>2. \E to \in Places : Goto(c, to) /\ UNCHANGED local
    BY <1>3, <1>8 DEF Connect, GiveUp, Send, Receive, Broken, ClientDies, Places
  <2>3. QED BY <1>2, <2>1, <2>2
<1>9. QED BY <1>6, <1>7, <1>8 DEF ClientStep

LEMMA AsideKeeps ==
  ASSUME Inv, Aside
  PROVE  Counting' /\ UncleanEndsCounted'
  BY DEF Inv, Aside, Counting, UncleanEndsCounted, Serving

(* A client takes the response it waits for, or leaves it behind; it gets   *)
(* none but from the server.                                                *)
Takes(c) ==
  /\ reply' \in [Clients -> SUBSET Nat]
  /\ \A d \in Clients \ {c} : reply'[d] = reply[d]
  /\ \/ reply'[c] \subseteq reply[c] /\ answered' = answered
     \/ reply'[c] = {} /\ answered' = answered \cup (reply[c] \ {Rejected})

LEMMA ClientTakes ==
  ASSUME Typed, NEW c \in Clients, Call(c) \/ ClientStep(c) \/ ClientDies(c)
  PROVE  Takes(c)
<1>1. c \in Processes /\ c # Server
  BY ServerIsAProcess
<1>2. LeaveClient(c) => reply' = [reply EXCEPT ![c] = {}]
  BY DEF LeaveClient
<1>3. Leave(c) => reply' = [reply EXCEPT ![c] = {}]
  BY <1>1, <1>2 DEF Leave
<1>4. \A k : Obtained(c, k) => UNCHANGED reply
  BY DEF Obtained, pipeVars
<1>5. CASE Receive(c)
  BY <1>2, <1>5 DEF Receive, Takes, Typed
<1>6. CASE (reply' = [reply EXCEPT ![c] = {}] \/ UNCHANGED reply) /\ UNCHANGED answered
  BY <1>6 DEF Takes, Typed
<1>7. CASE Credential(c)
  <2>1. UNCHANGED answered
    BY <1>7 DEF Credential, LookForKey, OpenTemp, CloseTemp, MoveTemp, KeyRest
  <2>2. reply' = [reply EXCEPT ![c] = {}] \/ UNCHANGED reply
    BY <1>3, <1>4, <1>7 DEF Credential, LookForKey, OpenTemp, CloseTemp, MoveTemp, pipeVars
  <2>3. QED BY <1>6, <2>1, <2>2
<1>8. CASE Call(c) \/ Connect(c) \/ GiveUp(c) \/ Send(c) \/ Broken(c) \/ ClientDies(c)
  <2>1. UNCHANGED answered
    BY <1>8 DEF Call, Connect, GiveUp, Send, Broken, ClientDies
  <2>2. reply' = [reply EXCEPT ![c] = {}] \/ UNCHANGED reply
    BY <1>2, <1>8 DEF Call, Connect, GiveUp, Send, Broken, ClientDies, pipeVars
  <2>3. QED BY <1>6, <2>1, <2>2
<1>9. QED BY <1>5, <1>7, <1>8 DEF ClientStep

LEMMA TakenIsTold ==
  ASSUME Inv, NEW c \in Clients, Takes(c), UNCHANGED <<file, local>>, at'[Server] = at[Server]
  PROVE  Answering' /\ AnsweredIsPersisted'
<1>1. \A d \in Clients : reply'[d] \subseteq reply[d]
  BY DEF Takes
<1>2. answered \subseteq answered' /\ answered' \subseteq answered \cup reply[c]
  BY DEF Takes
<1>3. Told' \subseteq Told
  BY <1>1, <1>2 DEF Told
<1>4. Answering'
  BY <1>3 DEF Inv, Answering
<1>5. \A n \in Told' : n <= file'.requests
  BY <1>3 DEF Inv, AnsweredIsPersisted, Told
<1>6. ASSUME NEW d \in Clients PROVE reply'[d] \cap answered' = {}
  <2>1. reply[d] \cap answered = {}
    BY DEF Inv, AnsweredIsPersisted
  <2>2. CASE d = c
    BY <1>1, <2>1, <2>2 DEF Takes
  <2>3. CASE d # c
    <3>1. reply[d] \cap reply[c] \subseteq {Rejected}
      BY <2>3 DEF Inv, AnsweredIsPersisted
    <3>2. QED BY <1>1, <2>1, <3>1 DEF Takes
  <2>4. QED BY <2>2, <2>3
<1>7. \A d, e \in Clients : d # e => reply'[d] \cap reply'[e] \subseteq {Rejected}
  BY <1>1 DEF Inv, AnsweredIsPersisted
<1>8. QED BY <1>4, <1>5, <1>6, <1>7 DEF AnsweredIsPersisted, Told

LEMMA ClientKeeps ==
  ASSUME Inv, NEW c \in Clients, Call(c) \/ ClientStep(c) \/ ClientDies(c)
  PROVE  Inv' /\ UNCHANGED file
<1>1. Aside /\ Takes(c)
  BY ClientAside, ClientTakes DEF Inv
<1>2. Typed'
  BY <1>1 DEF Aside, Takes, Inv, Typed, Rejected
<1>3. QED BY <1>1, <1>2, AsideKeeps, TakenIsTold DEF Aside, Inv
-----------------------------------------------------------------------------
(* The server moves to another place.                                       *)
LEMMA ServerGoes ==
  ASSUME Typed, NEW to \in Places, Goto(Server, to)
  PROVE  at' \in [Processes -> Places] /\ at'[Server] = to
  BY ServerIsAProcess, GotoTyped

(* Nobody is told anything, and the file counts no less than before.        *)
LEMMA Untold ==
  ASSUME Inv, UNCHANGED <<reply, answered>>, file' \in States, file'.requests >= file.requests
  PROVE  AnsweredIsPersisted' /\ Told' = Told
<1>1. Told' = Told
  BY DEF Told
<1>2. ASSUME NEW n \in Told PROVE n <= file'.requests
  <2>1. n \in Nat /\ n <= file.requests
    BY DEF Inv, Typed, AnsweredIsPersisted, Told
  <2>2. QED BY <2>1 DEF Inv, Typed, States
<1>3. QED BY <1>1, <1>2 DEF Inv, AnsweredIsPersisted, Told

LEMMA LeftTyped ==
  ASSUME Typed, LeaveServer
  PROVE  /\ at' \in [Processes -> Places] /\ at'[Server] = "down"
         /\ local' \in Locals /\ UNCHANGED reply
<1>1. NoLocal \in Locals
  BY DEF NoLocal, Initial, Rejected, Locals, States
<1>2. QED BY <1>1, ServerGoes DEF LeaveServer, Places

(* Before it loads the state, and after it has ended, the server holds      *)
(* nothing that counts.                                                     *)
Away == {"down", "looking", "opening", "writing", "moving", "loading"}
LEMMA AwayKeeps ==
  ASSUME Inv, at' \in [Processes -> Places], at'[Server] \in Away, local' \in Locals,
         UNCHANGED <<reply, answered>>,
         file' \in States, file'.requests >= file.requests, unended' \in Nat,
         unended' = file'.unclean + (IF file'.clean THEN 0 ELSE 1)
  PROVE  Inv'
<1>1. ~Serving' /\ at'[Server] \notin {"starting", "saving", "replying"}
  BY DEF Away, Serving
<1>2. Typed'
  BY DEF Inv, Typed
<1>3. Counting' /\ Answering'
  BY <1>1 DEF Counting, Answering
<1>4. UncleanEndsCounted'
  BY <1>1 DEF UncleanEndsCounted
<1>5. QED BY <1>2, <1>3, <1>4, Untold DEF Inv

LEMMA CredentialKeeps ==
  ASSUME Inv, Credential(Server) \/ StartServer
  PROVE  Inv' /\ UNCHANGED file
<1>1. Typed /\ Server \in Processes
  BY ServerIsAProcess DEF Inv
<1>2. UNCHANGED <<file, unended, answered>>
  BY DEF Credential, LookForKey, OpenTemp, CloseTemp, MoveTemp, KeyRest, StartServer
<1>3. ~Serving
  BY DEF Credential, LookForKey, OpenTemp, CloseTemp, MoveTemp, StartServer, Serving
<1>4. \/ LeaveServer
      \/ \E to \in Away : Goto(Server, to) /\ UNCHANGED <<local, reply>>
  BY DEF Credential, LookForKey, OpenTemp, CloseTemp, MoveTemp, StartServer, Obtained, WithKey,
         Leave, pipeVars, Away
<1>5. /\ at' \in [Processes -> Places] /\ at'[Server] \in Away
      /\ local' \in Locals /\ UNCHANGED reply
  <2>1. CASE LeaveServer
    BY <1>1, <2>1, LeftTyped DEF Away
  <2>2. CASE \E to \in Away : Goto(Server, to) /\ UNCHANGED <<local, reply>>
    <3>1. PICK to \in Away : Goto(Server, to) /\ UNCHANGED <<local, reply>>
      BY <2>2
    <3>2. to \in Places
      BY DEF Away, Places
    <3>3. QED BY <1>1, <3>1, <3>2, ServerGoes DEF Typed
  <2>3. QED BY <1>4, <2>1, <2>2
<1>6. unended = file.unclean + (IF file.clean THEN 0 ELSE 1)
  BY <1>3 DEF Inv, UncleanEndsCounted
<1>7. file \in States /\ unended \in Nat /\ file.requests >= file.requests
  BY <1>1 DEF Typed, States
<1>8. QED BY <1>2, <1>5, <1>6, <1>7, AwayKeeps

(* However a run ends, its end is counted unless it was asked for.          *)
LEMMA EndKeeps ==
  ASSUME Inv, AcceptFails \/ SaveFails \/ Crash
  PROVE  Inv' /\ UNCHANGED file
<1>1. Typed /\ LeaveServer /\ UNCHANGED <<file, answered>>
  BY DEF Inv, AcceptFails, SaveFails, Crash
<1>2. unended' = IF Serving THEN unended + 1 ELSE unended
  BY DEF AcceptFails, SaveFails, Crash, Serving
<1>3. file \in States /\ unended \in Nat /\ file.requests >= file.requests
  BY <1>1 DEF Typed, States
<1>4. unended' = file.unclean + (IF file.clean THEN 0 ELSE 1) /\ unended' \in Nat
  BY <1>2, <1>3 DEF Inv, Counting, UncleanEndsCounted, States
<1>5. QED BY <1>1, <1>3, <1>4, LeftTyped, AwayKeeps DEF Away

LEMMA StopKeeps ==
  ASSUME Inv, StopServer
  PROVE  /\ Inv' /\ file'.starts >= file.starts
         /\ file'.requests >= file.requests /\ file'.unclean >= file.unclean
<1>1. Typed /\ LeaveServer /\ UNCHANGED <<answered, unended>> /\ Serving
  BY DEF Inv, StopServer, Serving
<1>2. local.state \in States /\ file \in States /\ unended \in Nat
  BY <1>1 DEF Typed, Locals
<1>3. /\ local.state.starts = file.starts /\ local.state.unclean = file.unclean
      /\ local.state.requests = file.requests
  BY <1>1 DEF Inv, Counting, StopServer
<1>4. file' = [local.state EXCEPT !.clean = TRUE]
  BY DEF StopServer, Stopped
<1>5. /\ file' \in States /\ file'.clean
      /\ file'.starts = file.starts /\ file'.unclean = file.unclean
      /\ file'.requests = file.requests
  BY <1>2, <1>3, <1>4 DEF States
<1>6. unended' = file'.unclean + (IF file'.clean THEN 0 ELSE 1)
  BY <1>1, <1>2, <1>5 DEF Inv, UncleanEndsCounted, States
<1>7. file.starts \in Nat /\ file.requests \in Nat /\ file.unclean \in Nat
  BY <1>2 DEF States
<1>8. QED BY <1>1, <1>2, <1>5, <1>6, <1>7, LeftTyped, AwayKeeps DEF Away
-----------------------------------------------------------------------------
(* The counters of the file do not go back.                                 *)
Forward ==
  /\ file'.starts >= file.starts /\ file'.requests >= file.requests
  /\ file'.unclean >= file.unclean

LEMMA SameForward ==
  ASSUME Typed, UNCHANGED file PROVE Forward
  BY DEF Typed, States, Forward

LEMMA LoadKeeps ==
  ASSUME Inv, LoadState
  PROVE  Inv' /\ UNCHANGED file
<1>1. Typed /\ UNCHANGED <<file, reply, answered, unended>> /\ at[Server] = "loading"
  BY DEF Inv, LoadState, ServerRest, pipeVars
<1>2. /\ at' \in [Processes -> Places] /\ at'[Server] = "starting"
  BY <1>1, ServerGoes DEF LoadState, Places
<1>3. file \in States /\ local \in Locals
  BY <1>1 DEF Typed
<1>4. /\ Resumed \in States /\ Resumed.clean = FALSE
      /\ Resumed.starts = file.starts + 1 /\ Resumed.requests = file.requests
      /\ Resumed.unclean = file.unclean + (IF file.clean THEN 0 ELSE 1)
  <2>1. file.unclean + (IF file.clean THEN 0 ELSE 1) \in Nat
    BY <1>3 DEF States
  <2>2. file.starts + 1 \in Nat
    BY <1>3 DEF States
  <2>3. QED BY <1>3, <2>1, <2>2, Zenon DEF States, Resumed
<1>5. local' \in Locals /\ local'.state = Resumed
  BY <1>3, <1>4 DEF LoadState, Locals
<1>6. Typed'
  BY <1>1, <1>2, <1>5 DEF Typed
<1>7. Counting' /\ Answering'
  BY <1>1, <1>2, <1>4, <1>5 DEF Counting, Answering, Serving
<1>8. UncleanEndsCounted'
  BY <1>1, <1>2 DEF Inv, UncleanEndsCounted, Serving
<1>9. file.requests >= file.requests
  BY <1>3 DEF States
<1>10. QED BY <1>1, <1>3, <1>6, <1>7, <1>8, <1>9, Untold DEF Inv

LEMMA StartupKeeps ==
  ASSUME Inv, SaveStartup
  PROVE  Inv' /\ Forward
<1>1. /\ Typed /\ UNCHANGED <<local, reply, answered, unended>>
      /\ at[Server] = "starting" /\ file' = local.state
  BY DEF Inv, SaveStartup, ServerRest, pipeVars
<1>2. at' \in [Processes -> Places] /\ at'[Server] = "listening"
  BY <1>1, ServerGoes DEF SaveStartup, Places
<1>3. file \in States /\ file' \in States /\ unended \in Nat
  BY <1>1 DEF Typed, Locals
<1>4. /\ file'.starts = file.starts + 1 /\ file'.requests = file.requests
      /\ file'.unclean = file.unclean + (IF file.clean THEN 0 ELSE 1) /\ ~file'.clean
  BY <1>1 DEF Inv, Counting
<1>5. Forward
  BY <1>3, <1>4 DEF Forward, States
<1>6. Typed'
  BY <1>1, <1>2, <1>3 DEF Typed
<1>7. Counting' /\ Answering'
  BY <1>1, <1>2, <1>4 DEF Counting, Answering, Serving
<1>8. UncleanEndsCounted'
  BY <1>1, <1>2, <1>3, <1>4 DEF Inv, UncleanEndsCounted, Serving, States
<1>9. QED BY <1>1, <1>3, <1>5, <1>6, <1>7, <1>8, Untold DEF Inv, Forward

(* Serving on, with nothing counted, saved or told.                         *)
LEMMA ServesOn ==
  ASSUME Inv, Serving, at[Server] # "saving", at' \in [Processes -> Places],
         at'[Server] \in {"listening", "reading", "replying", "flushing", "stopping"},
         at'[Server] = "replying" => local'.answer = Rejected,
         local' \in Locals, local'.state = local.state,
         UNCHANGED <<file, reply, answered, unended>>
  PROVE  Inv'
<1>1. Serving'
  BY DEF Serving
<1>2. Typed'
  BY DEF Inv, Typed
<1>3. Counting' /\ Answering'
  BY <1>1 DEF Inv, Counting, Answering
<1>4. UncleanEndsCounted'
  BY <1>1 DEF Inv, UncleanEndsCounted
<1>5. file \in States /\ file.requests >= file.requests
  BY DEF Inv, Typed, States
<1>6. QED BY <1>2, <1>3, <1>4, <1>5, Untold DEF Inv

LEMMA ListenKeeps ==
  ASSUME Inv, Accept \/ Disconnect
  PROVE  Inv' /\ UNCHANGED file
<1>1. /\ Typed /\ UNCHANGED <<file, local, reply, answered, unended>> /\ Serving
      /\ at[Server] # "saving"
  BY DEF Inv, Accept, Disconnect, ServerRest, Serving
<1>2. \/ at' = at /\ at[Server] = "listening"
      \/ \E to \in {"listening", "reading", "stopping"} : Goto(Server, to)
  <2>1. CASE Accept
    BY <2>1 DEF Accept
  <2>2. CASE Disconnect
    <3>1. PICK to : to = (IF Done THEN "stopping" ELSE "listening")
      OBVIOUS
    <3>2. Goto(Server, to)
      BY <2>2, <3>1, Zenon DEF Disconnect
    <3>3. to \in {"listening", "stopping"}
      BY <3>1, Zenon
    <3>4. QED BY <3>2, <3>3
  <2>3. QED BY <2>1, <2>2
<1>3. at' \in [Processes -> Places] /\ at'[Server] \in {"listening", "reading", "stopping"}
  <2>1. CASE at' = at /\ at[Server] = "listening"
    BY <1>1, <2>1 DEF Typed
  <2>2. CASE \E to \in {"listening", "reading", "stopping"} : Goto(Server, to)
    <3>1. PICK to \in {"listening", "reading", "stopping"} : Goto(Server, to)
      BY <2>2
    <3>2. to \in Places
      BY DEF Places
    <3>3. QED BY <1>1, <3>1, <3>2, ServerGoes
  <2>3. QED BY <1>2, <2>1, <2>2
<1>4. local' \in Locals
  BY <1>1 DEF Typed
<1>5. QED BY <1>1, <1>3, <1>4, ServesOn
-----------------------------------------------------------------------------
(* A request that is taken is counted before it is saved, with the count    *)
(* that will be its answer.                                                 *)
LEMMA ReadKeeps ==
  ASSUME Inv, ReadRequest
  PROVE  Inv' /\ UNCHANGED file
<1>1. /\ Typed /\ UNCHANGED <<file, reply, answered, unended>> /\ at[Server] = "reading"
      /\ Serving
  BY DEF Inv, ReadRequest, ServerRest, Serving
<1>2. file \in States /\ local \in Locals /\ local.state \in States
  BY <1>1 DEF Typed, Locals
<1>3. CASE Goto(Server, "replying") /\ local' = [local EXCEPT !.answer = Rejected]
  <2>1. at' \in [Processes -> Places] /\ at'[Server] = "replying"
    BY <1>1, <1>3, ServerGoes DEF Places
  <2>2. local' \in Locals /\ local'.state = local.state /\ local'.answer = Rejected
    BY <1>2, <1>3 DEF Locals, Rejected
  <2>3. QED BY <1>1, <2>1, <2>2, ServesOn
<1>4. ASSUME NEW r \in request, Goto(Server, "saving"),
             local' = [local EXCEPT !.state.requests = @ + 1, !.handled = @ + 1,
                         !.answer = local.state.requests + 1,
                         !.shutdown = r.command = "shutdown"]
      PROVE  Inv'
  <2>1. at' \in [Processes -> Places] /\ at'[Server] = "saving"
    BY <1>1, <1>4, ServerGoes DEF Places
  <2>2. PICK asked \in BOOLEAN : asked = (r.command = "shutdown")
    BY Zenon
  <2>3. local.state.requests + 1 \in Nat /\ local.handled + 1 \in Nat
    BY <1>2 DEF Locals, States
  <2>4. local' = [local EXCEPT !.state.requests = @ + 1, !.handled = @ + 1,
                    !.answer = local.state.requests + 1, !.shutdown = asked]
    BY <1>4, <2>2, Zenon
  <2>5. /\ local' \in Locals
        /\ local'.state = [local.state EXCEPT !.requests = @ + 1]
        /\ local'.answer = local.state.requests + 1
    BY <1>2, <2>3, <2>4 DEF Locals, States
  <2>6. /\ local'.state.starts = local.state.starts
        /\ local'.state.unclean = local.state.unclean
        /\ local'.state.clean = local.state.clean
        /\ local'.state.requests = local.state.requests + 1
    BY <1>2, <2>5, Zenon DEF States
  <2>7. Serving'
    BY <2>1 DEF Serving
  <2>8. Typed'
    BY <1>1, <2>1, <2>5 DEF Typed
  <2>9. /\ ~file.clean /\ ~local.state.clean
        /\ local.state.starts = file.starts /\ local.state.unclean = file.unclean
        /\ local.state.requests = file.requests
    BY <1>1 DEF Inv, Counting
  <2>10. Counting' /\ Answering'
    BY <1>1, <2>1, <2>5, <2>6, <2>9 DEF Counting, Answering
  <2>11. UncleanEndsCounted'
    BY <1>1, <2>7 DEF Inv, UncleanEndsCounted
  <2>12. file.requests >= file.requests
    BY <1>2 DEF States
  <2>13. QED BY <1>1, <1>2, <2>8, <2>10, <2>11, <2>12, Untold DEF Inv
<1>5. QED BY <1>1, <1>3, <1>4, Zenon DEF ReadRequest

(* Once saved, the count is on the disk and nobody has it.                  *)
LEMMA SaveKeeps ==
  ASSUME Inv, SaveRequest
  PROVE  Inv' /\ Forward
<1>1. /\ Typed /\ UNCHANGED <<local, reply, answered, unended>> /\ Serving
      /\ at[Server] = "saving" /\ file' = local.state
  BY DEF Inv, SaveRequest, ServerRest, pipeVars, Serving
<1>2. at' \in [Processes -> Places] /\ at'[Server] = "replying"
  BY <1>1, ServerGoes DEF SaveRequest, Places
<1>3. file \in States /\ file' \in States
  BY <1>1 DEF Typed, Locals
<1>4. /\ file'.starts = file.starts /\ file'.unclean = file.unclean
      /\ file'.requests = file.requests + 1 /\ ~file.clean /\ ~file'.clean
  BY <1>1 DEF Inv, Counting
<1>5. Forward
  BY <1>3, <1>4 DEF Forward, States
<1>6. Typed'
  BY <1>1, <1>2, <1>3 DEF Typed
<1>7. Counting'
  BY <1>1, <1>2, <1>4 DEF Counting, Serving
<1>8. AnsweredIsPersisted' /\ Told' = Told
  BY <1>1, <1>3, <1>5, Untold DEF Forward
<1>9. local.answer \notin Told
  <2>1. local.answer = file.requests + 1
    BY <1>1, <1>4 DEF Inv, Answering
  <2>2. \A n \in Told : n \in Nat /\ n <= file.requests
    BY <1>1 DEF Inv, Typed, AnsweredIsPersisted, Told
  <2>3. QED BY <1>3, <2>1, <2>2 DEF States
<1>10. Answering'
  <2>1. local'.answer = file'.requests
    BY <1>1 DEF Inv, Answering
  <2>2. file'.requests <= file'.requests
    BY <1>3 DEF States
  <2>3. QED BY <1>1, <1>2, <1>8, <1>9, <2>1, <2>2 DEF Answering
<1>11. UncleanEndsCounted'
  BY <1>1, <1>2, <1>4 DEF Inv, UncleanEndsCounted, Serving
<1>12. QED BY <1>5, <1>6, <1>7, <1>8, <1>10, <1>11 DEF Inv

(* The answer goes to the client at the other end and to nobody else.       *)
LEMMA ReplyKeeps ==
  ASSUME Inv, WriteReply
  PROVE  Inv' /\ UNCHANGED file
<1>1. /\ Typed /\ UNCHANGED <<file, local, answered, unended>> /\ Serving
      /\ at[Server] = "replying"
      /\ reply' = [c \in Clients |-> IF c = conn THEN {local.answer} ELSE reply[c]]
  BY DEF Inv, WriteReply, ServerRest, Serving
<1>2. at' \in [Processes -> Places] /\ at'[Server] = "flushing"
  BY <1>1, ServerGoes DEF WriteReply, Places
<1>3. local.answer \in Nat /\ file \in States
  BY <1>1 DEF Typed, Locals
<1>4. Typed'
  BY <1>1, <1>2, <1>3 DEF Typed
<1>5. Counting' /\ Answering' /\ UncleanEndsCounted'
  BY <1>1, <1>2 DEF Inv, Counting, Answering, UncleanEndsCounted, Serving
<1>6. local.answer = Rejected \/ (local.answer <= file.requests /\ local.answer \notin Told)
  BY <1>1 DEF Inv, Answering
<1>7. local.answer <= file.requests
  BY <1>3, <1>6 DEF States, Rejected
<1>8. ASSUME NEW c \in Clients
      PROVE  /\ \A n \in reply'[c] : n <= file'.requests
             /\ reply'[c] \cap answered' = {}
  <2>1. CASE c = conn
    <3>1. reply'[c] = {local.answer} /\ local.answer \notin answered
      BY <1>1, <1>6, <2>1 DEF Typed, Told
    <3>2. QED BY <1>1, <1>7, <3>1
  <2>2. CASE c # conn
    <3>1. reply'[c] = reply[c]
      BY <1>1, <2>2
    <3>2. QED BY <1>1, <3>1 DEF Inv, AnsweredIsPersisted
  <2>3. QED BY <2>1, <2>2
<1>9. ASSUME NEW c \in Clients, NEW d \in Clients, c # d
      PROVE  reply'[c] \cap reply'[d] \subseteq {Rejected}
  <2>1. reply[c] \cap reply[d] \subseteq {Rejected}
    BY <1>9 DEF Inv, AnsweredIsPersisted
  <2>2. \A e \in Clients : local.answer \in reply[e] => local.answer = Rejected
    BY <1>6 DEF Told
  <2>3. reply'[c] = (IF c = conn THEN {local.answer} ELSE reply[c])
    BY <1>1
  <2>4. reply'[d] = (IF d = conn THEN {local.answer} ELSE reply[d])
    BY <1>1
  <2>5. QED BY <1>9, <2>1, <2>2, <2>3, <2>4
<1>10. \A n \in answered' : n <= file'.requests
  BY <1>1 DEF Inv, AnsweredIsPersisted
<1>11. AnsweredIsPersisted'
  BY <1>8, <1>9, <1>10 DEF AnsweredIsPersisted
<1>12. QED BY <1>1, <1>4, <1>5, <1>11 DEF Inv
-----------------------------------------------------------------------------
LEMMA InitHolds == Init => Inv
<1> SUFFICES ASSUME Init PROVE Inv
  OBVIOUS
<1>1. Initial \in States /\ Initial.clean = TRUE /\ Initial.unclean = 0
  BY DEF Initial, States
<1>2. NoLocal \in Locals
  BY <1>1 DEF NoLocal, Rejected, Locals
<1>3. at \in [Processes -> Places] /\ at[Server] = "down"
  BY ServerIsAProcess DEF Init, Places
<1>4. /\ file = Initial /\ local = NoLocal /\ unended = 0 /\ answered = {}
      /\ reply = [c \in Clients |-> {}]
  BY DEF Init
<1>5. Typed
  BY <1>1, <1>2, <1>3, <1>4 DEF Typed
<1>6. Counting /\ Answering
  BY <1>3 DEF Counting, Answering, Serving
<1>7. UncleanEndsCounted
  BY <1>1, <1>3, <1>4 DEF UncleanEndsCounted, Serving
<1>8. AnsweredIsPersisted
  BY <1>4 DEF AnsweredIsPersisted
<1>9. QED BY <1>5, <1>6, <1>7, <1>8 DEF Inv

LEMMA StepHolds ==
  ASSUME Inv, [Next]_vars PROVE Inv' /\ Forward
<1>1. CASE UNCHANGED vars
  <2>1. UNCHANGED <<at, file, local, reply, answered, unended>>
    BY <1>1 DEF vars, pipeVars
  <2>2. Inv'
    BY <2>1 DEF Inv, Typed, Counting, UncleanEndsCounted, Answering, AnsweredIsPersisted,
       Serving, Told
  <2>3. QED BY <2>1, <2>2, SameForward DEF Inv
<1>2. CASE \E c \in Clients : Call(c) \/ ClientStep(c) \/ ClientDies(c)
  BY <1>2, ClientKeeps, SameForward DEF Inv
<1>3. CASE StartServer \/ Credential(Server) \/ LoadState
  BY <1>3, CredentialKeeps, LoadKeeps, SameForward DEF Inv
<1>4. CASE SaveStartup \/ SaveRequest \/ StopServer
  BY <1>4, StartupKeeps, SaveKeeps, StopKeeps DEF Forward
<1>5. CASE Accept \/ Disconnect \/ ReadRequest \/ WriteReply
  BY <1>5, ListenKeeps, ReadKeeps, ReplyKeeps, SameForward DEF Inv
<1>6. CASE AcceptFails \/ SaveFails \/ Crash
  BY <1>6, EndKeeps, SameForward DEF Inv
<1>7. QED BY <1>1, <1>2, <1>3, <1>4, <1>5, <1>6 DEF Next, ServerStep

LEMMA Always == Spec => []Inv
<1>1. Inv /\ [Next]_vars => Inv'
  BY StepHolds
<1>2. QED BY InitHolds, <1>1, PTL DEF Spec

(* A server run that served and ended without a clean shutdown is counted   *)
(* exactly once, wherever it ended (local_ipc.cpp, load_state at start).    *)
THEOREM UncleanCounted == Spec => []UncleanEndsCounted
<1>1. Inv => UncleanEndsCounted
  BY DEF Inv
<1>2. QED BY Always, <1>1, PTL

(* A count that a client can read is on the disk already and is given to    *)
(* no other client, across every crash and restart.                         *)
THEOREM AnswersPersisted == Spec => []AnsweredIsPersisted
<1>1. Inv => AnsweredIsPersisted
  BY DEF Inv
<1>2. QED BY Always, <1>1, PTL

(* The persisted counters never go back.                                    *)
THEOREM CountersStay == Spec => CountsSurvive
<1>1. Inv /\ [Next]_vars => [Forward]_vars
  BY StepHolds
<1>2. [Forward]_vars => [/\ file'.starts >= file.starts
                         /\ file'.requests >= file.requests
                         /\ file'.unclean >= file.unclean]_vars
  BY DEF Forward
<1>3. QED BY Always, <1>1, <1>2, PTL DEF Spec, CountsSurvive
-----------------------------------------------------------------------------
(* Types, and who is at the other end of the pipe.  A process that is past  *)
(* looking for the credential holds one, so that a request carries one.     *)
ServerPlaces == {"down", "looking", "opening", "writing", "moving", "loading", "starting",
                 "listening", "reading", "saving", "replying", "flushing", "stopping"}
ClientPlaces == {"idle", "looking", "opening", "writing", "moving", "connecting", "sending",
                 "waiting"}
PlacesOf(p) == IF p = Server THEN ServerPlaces ELSE ClientPlaces
Keyless == {"down", "idle", "looking"}

FilesTyped ==
  /\ keyFile \in Keys \cup {NoKey, TornKey}
  /\ temp \in [holds : Keys \cup {NoKey, TornKey}, opener : Processes \cup {NoClient}]
Keyed ==
  /\ key \in [Processes -> Keys \cup {NoKey}]
  /\ \A p \in Processes : at[p] \in PlacesOf(p) /\ (at[p] \notin Keyless => key[p] \in Keys)
  /\ FilesTyped
Asked == request \subseteq [key : Keys, command : Commands] /\ Cardinality(request) <= 1
Connected ==
  /\ pipe \in {"none", "free", "taken", "idle"} /\ conn \in Clients \cup {NoClient}
  /\ Asked
  /\ conn # NoClient => pipe = "taken" /\ at[conn] \in {"sending", "waiting"}
  /\ (at[Server] = "down") <=> (pipe = "none")

(* A process that goes somewhere with a credential, or back without one.    *)
Goes(p, to, k) == Goto(p, to) /\ key' = [key EXCEPT ![p] = k]
May(p, to, k) ==
  /\ to \in PlacesOf(p) /\ k \in Keys \cup {NoKey}
  /\ to \notin Keyless => k \in Keys

LEMMA GoesKeyed ==
  ASSUME Typed, Keyed, NEW p \in Processes, NEW to, NEW k,
         May(p, to, k), Goes(p, to, k), FilesTyped'
  PROVE  Keyed' /\ at'[p] = to /\ \A q \in Processes \ {p} : at'[q] = at[q]
<1>1. at'[p] = to /\ \A q \in Processes \ {p} : at'[q] = at[q]
  BY DEF Typed, Goes, Goto
<1>2. /\ key' \in [Processes -> Keys \cup {NoKey}] /\ key'[p] = k
      /\ \A q \in Processes \ {p} : key'[q] = key[q]
  BY DEF Keyed, Goes, May
<1>3. ASSUME NEW q \in Processes
      PROVE  at'[q] \in PlacesOf(q) /\ (at'[q] \notin Keyless => key'[q] \in Keys)
  <2>1. CASE q = p
    BY <1>1, <1>2, <2>1 DEF May
  <2>2. CASE q # p
    BY <1>1, <1>2, <2>2 DEF Keyed
  <2>3. QED BY <2>1, <2>2
<1>4. QED BY <1>1, <1>2, <1>3 DEF Keyed

(* A process that keeps the credential it holds.                            *)
LEMMA StaysKeyed ==
  ASSUME Typed, Keyed, NEW p \in Processes, NEW to \in PlacesOf(p),
         Goto(p, to), UNCHANGED key, FilesTyped', at[p] \notin Keyless \/ to \in Keyless
  PROVE  Keyed' /\ at'[p] = to /\ \A q \in Processes \ {p} : at'[q] = at[q]
<1>1. key' = [key EXCEPT ![p] = key[p]]
  BY DEF Keyed
<1>2. May(p, to, key[p])
  BY DEF Keyed, May
<1>3. QED BY <1>1, <1>2, GoesKeyed DEF Goes

LEMMA MoreByOne ==
  \A S, x : IsFiniteSet(S) =>
    /\ IsFiniteSet(S \cup {x}) /\ Cardinality(S) \in Nat
    /\ Cardinality(S \cup {x}) <= Cardinality(S) + 1
<1> SUFFICES ASSUME NEW S, NEW x, IsFiniteSet(S)
             PROVE  /\ IsFiniteSet(S \cup {x}) /\ Cardinality(S) \in Nat
                    /\ Cardinality(S \cup {x}) <= Cardinality(S) + 1
  OBVIOUS
<1>1. Cardinality(S) \in Nat
  BY FS_CardinalityType
<1>2. /\ IsFiniteSet(S \cup {x})
      /\ Cardinality(S \cup {x}) = IF x \in S THEN Cardinality(S) ELSE Cardinality(S) + 1
  BY FS_AddElement, Zenon
<1>3. QED BY <1>1, <1>2

(* There is always a credential that nobody knows.                          *)
LEMMA NewKeyIsNew ==
  ASSUME Keyed
  PROVE  NewKey \in Keys \ Known
<1> DEFINE Held == {key[p] : p \in Processes}
<1>1. IsFiniteSet(Processes) /\ Cardinality(Processes) <= Cardinality(Clients) + 1
  <2>1. IsFiniteSet(Clients) /\ Cardinality(Clients) \in Nat
    BY FS_CardinalityType DEF IpcAssumption
  <2>2. QED BY <2>1, MoreByOne DEF Processes
<1>2. key \in Surjection(Processes, Held)
  BY DEF Keyed, Surjection
<1>3. IsFiniteSet(Held) /\ Cardinality(Held) <= Cardinality(Processes)
  <2> HIDE DEF Held
  <2>1. QED BY <1>1, <1>2, FS_Surjection
<1> HIDE DEF Held
<1>4. /\ IsFiniteSet(Held \cup {keyFile})
      /\ Cardinality(Held \cup {keyFile}) <= Cardinality(Held) + 1
  BY <1>3, MoreByOne
<1>5. /\ IsFiniteSet((Held \cup {keyFile}) \cup {temp.holds})
      /\ Cardinality((Held \cup {keyFile}) \cup {temp.holds})
           <= Cardinality(Held \cup {keyFile}) + 1
  BY <1>4, MoreByOne
<1>6. Known = (Held \cup {keyFile}) \cup {temp.holds}
  BY DEF Known, Held
<1>7. IsFiniteSet(Known) /\ Cardinality(Known) < Cardinality(Keys)
  <2>1. /\ Cardinality(Clients) \in Nat /\ Cardinality(Processes) \in Nat
        /\ Cardinality(Held) \in Nat /\ Cardinality(Held \cup {keyFile}) \in Nat
        /\ Cardinality(Keys) \in Nat /\ Cardinality(Known) \in Nat
    BY <1>1, <1>3, <1>4, <1>5, <1>6, FS_CardinalityType DEF IpcAssumption
  <2>2. QED BY <1>1, <1>3, <1>4, <1>5, <1>6, <2>1 DEF IpcAssumption
<1>8. \E k \in Keys : k \notin Known
  <2> SUFFICES ASSUME Keys \subseteq Known PROVE FALSE
    OBVIOUS
  <2>1. Cardinality(Keys) <= Cardinality(Known)
    BY <1>7, FS_Subset
  <2>2. Cardinality(Keys) \in Nat /\ Cardinality(Known) \in Nat
    BY <1>7, FS_CardinalityType DEF IpcAssumption
  <2>3. QED BY <1>7, <2>1, <2>2
<1>9. QED BY <1>8 DEF NewKey

LEMMA FewAsked ==
  /\ {} \subseteq [key : Keys, command : Commands] /\ Cardinality({}) <= 1
  /\ \A r \in [key : Keys, command : Commands] :
       {r} \subseteq [key : Keys, command : Commands] /\ Cardinality({r}) <= 1
<1>1. Cardinality({}) <= 1
  BY FS_EmptySet
<1>2. \A r : Cardinality({r}) <= 1
  <2> SUFFICES ASSUME NEW r PROVE Cardinality({r}) <= 1
    OBVIOUS
  <2>1. Cardinality({r}) = 1
    BY FS_Singleton, Zenon
  <2>2. QED BY <2>1
<1>3. QED BY <1>1, <1>2
-----------------------------------------------------------------------------
Wired == Typed /\ Keyed /\ Connected

(* However a process leaves its function, its end of the pipe is closed.    *)
LEMMA ServerLeaves ==
  ASSUME Wired, LeaveServer, FilesTyped'
  PROVE  Keyed' /\ Connected'
<1>1. Server \in Processes /\ May(Server, "down", NoKey)
  BY ServerIsAProcess DEF May, PlacesOf, ServerPlaces, Keyless
<1>2. Goes(Server, "down", NoKey)
  BY DEF LeaveServer, Goes
<1>3. Keyed' /\ at'[Server] = "down"
  BY <1>1, <1>2, GoesKeyed DEF Wired
<1>4. pipe' = "none" /\ conn' = NoClient /\ request' = {}
  BY DEF LeaveServer
<1>5. Asked'
  BY <1>4, FewAsked DEF Asked
<1>6. QED BY <1>3, <1>4, <1>5 DEF Connected

LEMMA ClientLeaves ==
  ASSUME Wired, NEW c \in Clients, LeaveClient(c), FilesTyped'
  PROVE  Keyed' /\ Connected'
<1>1. /\ c \in Processes /\ c # Server /\ Server \in Processes
      /\ \A d \in Clients : d \in Processes
  BY ServerIsAProcess
<1>2. May(c, "idle", NoKey)
  BY <1>1 DEF May, PlacesOf, ClientPlaces, Keyless
<1>3. Goes(c, "idle", NoKey)
  BY DEF LeaveClient, Goes
<1>4. Keyed' /\ \A q \in Processes \ {c} : at'[q] = at[q]
  BY <1>1, <1>2, <1>3, GoesKeyed DEF Wired
<1>5. UNCHANGED <<pipe, request>> /\ conn' = IF conn = c THEN NoClient ELSE conn
  BY DEF LeaveClient
<1>6. Asked'
  BY <1>5 DEF Wired, Connected, Asked
<1>7. QED BY <1>1, <1>4, <1>5, <1>6 DEF Wired, Connected

LEMMA Leaves ==
  ASSUME Wired, NEW p \in Processes, Leave(p), FilesTyped'
  PROVE  Keyed' /\ Connected'
  BY ServerLeaves, ClientLeaves DEF Leave, Processes

(* A process that is not at the pipe and leaves it alone.                   *)
LEMMA BesideThePipe ==
  ASSUME Wired, NEW p \in Processes, UNCHANGED pipeVars, at[p] \notin {"sending", "waiting"},
         at'[p] # "down", at[p] # "down",
         \A q \in Processes \ {p} : at'[q] = at[q]
  PROVE  Connected'
<1>1. \A d \in Clients : d \in Processes /\ d # Server
  BY ServerIsAProcess
<1>2. UNCHANGED <<pipe, conn, request>>
  BY DEF pipeVars
<1>3. (at'[Server] = "down") <=> (at[Server] = "down")
  BY ServerIsAProcess
<1>4. conn # NoClient => conn \in Clients /\ conn # p /\ at'[conn] = at[conn]
  BY <1>1 DEF Wired, Connected
<1>5. QED BY <1>2, <1>3, <1>4 DEF Wired, Connected, Asked

LEMMA CredentialWired ==
  ASSUME Wired, NEW p \in Processes, Credential(p)
  PROVE  Keyed' /\ Connected'
<1>1. Typed /\ Keyed /\ Connected
  BY DEF Wired
<1> DEFINE Between == {"looking", "opening", "writing", "moving", "loading", "connecting"}
<1>2. /\ WithKey(p) \in PlacesOf(p) /\ WithKey(p) \notin Keyless
      /\ {"looking", "opening", "writing", "moving"} \subseteq PlacesOf(p)
  BY DEF WithKey, PlacesOf, ServerPlaces, ClientPlaces, Keyless
<1>3. ASSUME NEW to \in Between, to \notin Keyless, to \in PlacesOf(p), NEW k \in Keys,
             Goes(p, to, k), UNCHANGED pipeVars, FilesTyped', at[p] \in Between
      PROVE  Keyed' /\ Connected'
  <2>1. May(p, to, k)
    BY <1>3 DEF May
  <2>2. Keyed' /\ at'[p] = to /\ \A q \in Processes \ {p} : at'[q] = at[q]
    BY <1>1, <1>3, <2>1, GoesKeyed
  <2>3. QED BY <1>3, <2>2, BesideThePipe
<1>4. WithKey(p) \in Between
  BY DEF WithKey
<1>5. ASSUME at[p] \in Between, at[p] \notin Keyless
      PROVE  key[p] \in Keys /\ key = [key EXCEPT ![p] = key[p]]
  BY <1>1, <1>5 DEF Keyed
<1>6. CASE LookForKey(p)
  <2>1. UNCHANGED <<keyFile, temp>> /\ at[p] = "looking"
    BY <1>6 DEF LookForKey
  <2>2. FilesTyped'
    BY <1>1, <2>1 DEF Keyed, FilesTyped
  <2>3. CASE keyFile \in Keys /\ Obtained(p, keyFile)
    BY <1>2, <1>3, <1>4, <2>1, <2>2, <2>3 DEF Obtained, Goes
  <2>4. CASE Leave(p)
    BY <2>2, <2>4, Leaves
  <2>5. CASE key' = [key EXCEPT ![p] = NewKey] /\ Goto(p, "opening") /\ UNCHANGED pipeVars
    <3>1. NewKey \in Keys
      BY <1>1, NewKeyIsNew
    <3>2. "opening" \notin Keyless
      BY DEF Keyless
    <3>3. QED BY <1>2, <1>3, <2>1, <2>2, <2>5, <3>1, <3>2 DEF Goes
  <2>6. QED BY <1>6, <2>3, <2>4, <2>5 DEF LookForKey
<1>7. CASE OpenTemp(p)
  <2>1. UNCHANGED keyFile /\ at[p] = "opening" /\ at[p] \notin Keyless
    BY <1>7 DEF OpenTemp, Keyless
  <2>2. FilesTyped'
    BY <1>1, <1>7, <2>1 DEF OpenTemp, Keyed, FilesTyped
  <2>3. CASE Leave(p)
    BY <2>2, <2>3, Leaves
  <2>4. CASE Goto(p, "writing") /\ UNCHANGED key /\ UNCHANGED pipeVars
    <3>1. "writing" \notin Keyless
      BY DEF Keyless
    <3>2. QED BY <1>2, <1>3, <1>5, <2>1, <2>2, <2>4, <3>1 DEF Goes
  <2>5. QED BY <1>7, <2>3, <2>4 DEF OpenTemp
<1>8. CASE CloseTemp(p)
  <2>1. /\ UNCHANGED <<keyFile, key, pipeVars>> /\ at[p] = "writing" /\ at[p] \notin Keyless
        /\ Goto(p, "moving")
    BY <1>8 DEF CloseTemp, Keyless
  <2>2. key[p] \in Keys
    BY <1>5, <2>1
  <2>3. FilesTyped'
    BY <1>1, <1>8, <2>1, <2>2 DEF CloseTemp, Keyed, FilesTyped
  <2>4. "moving" \notin Keyless
    BY DEF Keyless
  <2>5. QED BY <1>2, <1>3, <1>5, <2>1, <2>2, <2>3, <2>4 DEF Goes
<1>9. CASE MoveTemp(p)
  <2>1. at[p] = "moving" /\ at[p] \notin Keyless
    BY <1>9 DEF MoveTemp, Keyless
  <2>2. CASE Leave(p) /\ UNCHANGED <<keyFile, temp>>
    <3>1. FilesTyped'
      BY <1>1, <2>2 DEF Keyed, FilesTyped
    <3>2. QED BY <2>2, <3>1, Leaves
  <2>3. CASE keyFile' = temp.holds /\ temp' = NoTemp /\ Obtained(p, key[p])
    <3>1. FilesTyped'
      BY <1>1, <2>3 DEF Keyed, FilesTyped, NoTemp
    <3>2. QED BY <1>2, <1>3, <1>4, <1>5, <2>1, <2>3, <3>1 DEF Obtained, Goes
  <2>4. QED BY <1>9, <2>2, <2>3 DEF MoveTemp
<1>10. QED BY <1>6, <1>7, <1>8, <1>9 DEF Credential
-----------------------------------------------------------------------------
(* A step of the server from one place where it has the pipe to another.    *)
LEMMA ServerWired ==
  ASSUME Wired,
         \/ StartServer \/ LoadState \/ SaveStartup \/ Accept \/ ReadRequest
         \/ SaveRequest \/ WriteReply \/ Disconnect
  PROVE  Keyed' /\ Connected'
<1>1. Typed /\ Keyed /\ Connected /\ Server \in Processes
  BY ServerIsAProcess DEF Wired
<1>2. UNCHANGED <<key, keyFile, temp>>
  BY DEF StartServer, LoadState, SaveStartup, Accept, ReadRequest, SaveRequest, WriteReply,
         Disconnect, ServerRest, keyVars
<1>3. FilesTyped'
  BY <1>1, <1>2 DEF Keyed, FilesTyped
<1>4. \/ UNCHANGED at /\ at[Server] = "listening"
      \/ \E to \in ServerPlaces \ {"down"} :
           Goto(Server, to) /\ (at[Server] \notin Keyless \/ to \in Keyless)
  <2>1. CASE Disconnect
    <3>1. PICK to : to = (IF Done THEN "stopping" ELSE "listening")
      OBVIOUS
    <3>2. Goto(Server, to) /\ at[Server] = "flushing"
      BY <2>1, <3>1, Zenon DEF Disconnect
    <3>3. to \in {"listening", "stopping"}
      BY <3>1, Zenon
    <3>4. QED BY <3>2, <3>3 DEF Keyless, ServerPlaces
  <2>2. CASE Accept
    BY <2>2 DEF Accept, Keyless, ServerPlaces
  <2>3. CASE \/ StartServer \/ LoadState \/ SaveStartup \/ ReadRequest \/ SaveRequest
             \/ WriteReply
    BY <2>3 DEF StartServer, LoadState, SaveStartup, ReadRequest, SaveRequest, WriteReply,
                Keyless, ServerPlaces
  <2>4. QED BY <2>1, <2>2, <2>3
<1>5. Keyed' /\ at'[Server] # "down" /\ \A q \in Processes \ {Server} : at'[q] = at[q]
  <2>1. CASE UNCHANGED at /\ at[Server] = "listening"
    BY <1>1, <1>2, <1>3, <2>1 DEF Keyed
  <2>2. CASE \E to \in ServerPlaces \ {"down"} :
               Goto(Server, to) /\ (at[Server] \notin Keyless \/ to \in Keyless)
    <3>1. PICK to \in ServerPlaces \ {"down"} :
            Goto(Server, to) /\ (at[Server] \notin Keyless \/ to \in Keyless)
      BY <2>2
    <3>2. to \in PlacesOf(Server) /\ to # "down"
      BY DEF PlacesOf
    <3>3. QED BY <1>1, <1>2, <1>3, <3>1, <3>2, StaysKeyed
  <2>3. QED BY <1>4, <2>1, <2>2
<1>6. \A c \in Clients : at'[c] = at[c]
  BY <1>5, ServerIsAProcess
<1>7. /\ pipe' \in {"free", "taken", "idle"} /\ conn' = conn
      /\ conn # NoClient => pipe' = "taken"
      /\ request' = request \/ request' = {}
  <2>1. CASE StartServer
    BY <1>1, <2>1 DEF StartServer, Connected
  <2>2. CASE Accept
    BY <1>1, <2>2 DEF Accept, Connected
  <2>3. CASE Disconnect
    BY <1>1, <2>3 DEF Disconnect, Connected
  <2>4. CASE LoadState \/ SaveStartup \/ ReadRequest \/ SaveRequest \/ WriteReply
    <3>1. /\ UNCHANGED <<pipe, conn>> /\ at[Server] # "down"
          /\ request' = request \/ request' = {}
      BY <2>4 DEF LoadState, SaveStartup, ReadRequest, SaveRequest, WriteReply, pipeVars
    <3>2. QED BY <1>1, <3>1 DEF Connected
  <2>5. QED BY <2>1, <2>2, <2>3, <2>4
<1>8. Asked'
  BY <1>1, <1>7, FewAsked DEF Connected, Asked
<1>9. QED BY <1>1, <1>5, <1>6, <1>7, <1>8 DEF Connected

LEMMA ClientWired ==
  ASSUME Wired, NEW c \in Clients, Call(c) \/ Connect(c) \/ Send(c)
  PROVE  Keyed' /\ Connected'
<1>1. /\ Typed /\ Keyed /\ Connected
      /\ c \in Processes /\ c # Server /\ Server \in Processes
      /\ \A d \in Clients : d \in Processes
  BY ServerIsAProcess DEF Wired
<1>2. UNCHANGED <<key, keyFile, temp>>
  BY DEF Call, Connect, Send, ClientRest, keyVars
<1>3. FilesTyped'
  BY <1>1, <1>2 DEF Keyed, FilesTyped
<1>4. PICK to \in {"looking", "sending", "waiting"} :
        Goto(c, to) /\ (at[c] \notin Keyless \/ to \in Keyless)
  BY DEF Call, Connect, Send, Keyless
<1>5. to \in PlacesOf(c)
  BY <1>1 DEF PlacesOf, ClientPlaces
<1>6. Keyed' /\ at'[c] = to /\ \A q \in Processes \ {c} : at'[q] = at[q]
  BY <1>1, <1>2, <1>3, <1>4, <1>5, StaysKeyed
<1>7. CASE Call(c)
  <2>1. at[c] = "idle" /\ UNCHANGED pipeVars
    BY <1>7 DEF Call
  <2>2. QED BY <1>1, <1>4, <1>6, <2>1, BesideThePipe
<1>8. CASE Connect(c)
  <2>1. /\ at[c] = "connecting" /\ pipe = "free" /\ pipe' = "taken" /\ conn' = c
        /\ UNCHANGED request /\ Goto(c, "sending")
    BY <1>8 DEF Connect
  <2>2. at'[c] = "sending"
    BY <1>1, <2>1 DEF Goto, Typed
  <2>3. Asked'
    BY <1>1, <2>1 DEF Connected, Asked
  <2>4. QED BY <1>1, <1>6, <2>1, <2>2, <2>3 DEF Connected
<1>9. CASE Send(c)
  <2>1. /\ at[c] = "sending" /\ conn = c /\ UNCHANGED <<pipe, conn>> /\ Goto(c, "waiting")
        /\ \E cmd \in Commands : request' = {[key |-> key[c], command |-> cmd]}
    BY <1>9 DEF Send
  <2>2. at'[c] = "waiting"
    BY <1>1, <2>1 DEF Goto, Typed
  <2>3. key[c] \in Keys
    BY <1>1, <2>1 DEF Keyed, Keyless
  <2>4. Asked'
    <3>1. PICK r \in [key : Keys, command : Commands] : request' = {r}
      BY <2>1, <2>3
    <3>2. QED BY <3>1, FewAsked DEF Asked
  <2>5. QED BY <1>1, <1>6, <2>1, <2>2, <2>4 DEF Connected
<1>10. QED BY <1>7, <1>8, <1>9

LEMMA EndWired ==
  ASSUME Wired,
         \/ AcceptFails \/ StopServer \/ SaveFails \/ Crash
         \/ \E c \in Clients : GiveUp(c) \/ Receive(c) \/ Broken(c) \/ ClientDies(c)
  PROVE  Keyed' /\ Connected'
<1>1. FilesTyped
  BY DEF Wired, Keyed
<1>2. ASSUME NEW p \in Processes, UNCHANGED keyFile, temp' = temp \/ temp' = Released(p)
      PROVE  FilesTyped'
  <2>1. Released(p) \in [holds : Keys \cup {NoKey, TornKey}, opener : Processes \cup {NoClient}]
    BY <1>1 DEF Released, FilesTyped
  <2>2. QED BY <1>1, <1>2, <2>1 DEF FilesTyped
<1>3. CASE AcceptFails \/ StopServer \/ SaveFails \/ Crash
  <2>1. LeaveServer /\ UNCHANGED keyFile /\ (temp' = temp \/ temp' = Released(Server))
    BY <1>3 DEF AcceptFails, StopServer, SaveFails, Crash
  <2>2. FilesTyped'
    BY <1>2, <2>1, ServerIsAProcess
  <2>3. QED BY <2>1, <2>2, ServerLeaves
<1>4. ASSUME NEW c \in Clients, GiveUp(c) \/ Receive(c) \/ Broken(c) \/ ClientDies(c)
      PROVE  Keyed' /\ Connected'
  <2>1. LeaveClient(c) /\ UNCHANGED keyFile /\ (temp' = temp \/ temp' = Released(c))
    BY <1>4 DEF GiveUp, Receive, Broken, ClientDies, ClientRest
  <2>2. FilesTyped'
    BY <1>2, <2>1, ServerIsAProcess
  <2>3. QED BY <2>1, <2>2, ClientLeaves
<1>5. QED BY <1>3, <1>4

LEMMA InitWired == Init => Keyed /\ Connected
<1> SUFFICES ASSUME Init PROVE Keyed /\ Connected
  OBVIOUS
<1>1. Server \in Processes /\ \A c \in Clients : c \in Processes /\ c # Server
  BY ServerIsAProcess
<1>2. Keys # {}
  BY FS_EmptySet, FS_CardinalityType DEF IpcAssumption
<1>3. FilesTyped
  BY <1>2 DEF Init, FilesTyped, NoTemp
<1>4. \A p \in Processes : at[p] \in PlacesOf(p) /\ at[p] \in Keyless
  BY DEF Init, PlacesOf, ServerPlaces, ClientPlaces, Keyless
<1>5. Keyed
  BY <1>3, <1>4 DEF Init, Keyed
<1>6. Asked
  BY FewAsked DEF Init, Asked
<1>7. pipe = "none" /\ conn = NoClient /\ at[Server] = "down"
  BY <1>1 DEF Init
<1>8. QED BY <1>5, <1>6, <1>7 DEF Connected

LEMMA StepWired ==
  ASSUME Wired, [Next]_vars PROVE Keyed' /\ Connected'
<1>1. CASE UNCHANGED vars
  BY <1>1 DEF vars, keyVars, pipeVars, Wired, Keyed, Connected, FilesTyped, Asked
<1>2. CASE \E p \in Processes : Credential(p)
  BY <1>2, CredentialWired
<1>3. CASE \/ StartServer \/ LoadState \/ SaveStartup \/ Accept \/ ReadRequest
           \/ SaveRequest \/ WriteReply \/ Disconnect
  BY <1>3, ServerWired
<1>4. CASE \E c \in Clients : Call(c) \/ Connect(c) \/ Send(c)
  BY <1>4, ClientWired
<1>5. CASE \/ AcceptFails \/ StopServer \/ SaveFails \/ Crash
           \/ \E c \in Clients : GiveUp(c) \/ Receive(c) \/ Broken(c) \/ ClientDies(c)
  BY <1>5, EndWired
<1>6. QED BY <1>1, <1>2, <1>3, <1>4, <1>5, ServerIsAProcess DEF Next, ServerStep, ClientStep

(* Types, and the pipe: a client that is at its other end is one that sends *)
(* or waits, no server is up without the pipe, and at most one request of a *)
(* known shape is in it, wherever processes die and whoever makes the       *)
(* credential (local_ipc.cpp, one pipe instance, one exchange at a time).   *)
THEOREM TypeCorrect == Spec => []TypeOK
<1>1. Inv /\ Keyed /\ Connected /\ [Next]_vars => (Keyed /\ Connected)'
  BY StepWired DEF Wired, Inv
<1>2. Inv /\ Keyed /\ Connected => TypeOK
  <2> SUFFICES ASSUME Inv, Keyed, Connected PROVE TypeOK
    OBVIOUS
  <2>1. Server \in Processes /\ \A c \in Clients : c \in Processes /\ c # Server
    BY ServerIsAProcess
  <2>2. at[Server] \in ServerPlaces /\ \A c \in Clients : at[c] \in ClientPlaces
    BY <2>1 DEF Keyed, PlacesOf
  <2>3. /\ local.state \in States /\ local.handled \in Nat /\ local.answer \in Nat
        /\ local.shutdown \in BOOLEAN
    BY DEF Inv, Typed, Locals
  <2>4. QED BY <2>2, <2>3 DEF Inv, Typed, Keyed, Connected, FilesTyped, Asked, TypeOK,
               ServerPlaces, ClientPlaces, Rejected
<1>3. QED BY Always, InitWired, <1>1, <1>2, PTL DEF Spec
=============================================================================
