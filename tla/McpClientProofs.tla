-------------------------- MODULE McpClientProofs --------------------------
(***************************************************************************)
(* Proofs about McpClient, for any number of servers, tools, calls and     *)
(* unasked lines, and any capacity of the pipes.                           *)
(***************************************************************************)
EXTENDS McpClient, SequenceTheorems, TLAPS

USE McpAssumption

\* What the guards of the request steps rely on: a request in progress has a
\* server; while connecting it is the next one, and a call's has a tool and is
\* followed by no notification.
RpcSound ==
  /\ rpc = Idle \/ (rpc.step # "idle" /\ rpc.server \in Servers)
  /\ phase \in {"failed", "ended", "aborted"} => rpc = Idle
  /\ phase = "connecting" /\ rpc # Idle => rpc.server = Len(clients) + 1
  /\ phase = "ready" /\ rpc # Idle => rpc.tool \in Tools /\ rpc.step # "note"

\* The variables of the client and those of the servers.
ClientTypes ==
  /\ phase \in {"connecting", "ready", "failed", "ended", "aborted"}
  /\ clients \in Seq(SUBSET Tools) /\ Len(clients) <= NumServers
  /\ index \in [Tools -> 0..Len(clients)]
  /\ nextId \in [Servers -> Nat \ {0}]
  /\ rpc \in [server : 0..NumServers, id : Nat, step : {"idle", "write", "read", "note"},
              left : Nat, tool : Tools \cup {"none"}]
  /\ log \in Seq(Calls)

ChildTypes == child \in [Servers -> {"none", "running", "closed", "killed"}]

PipeTypes ==
  /\ stdin \in [Servers -> Seq(Nat)] /\ \A s \in Servers : Len(stdin[s]) <= PipeCap
  /\ due \in [Servers -> SUBSET Nat]
  /\ busy \in [Servers -> Lines]
  /\ stdout \in [Servers -> Seq(Lines)]
  /\ said \in 0..MaxSaid

TypeInv == ClientTypes /\ RpcSound /\ ChildTypes /\ PipeTypes

\* Every id that has been used on a connection is below the next one, and the
\* request in progress is none of those that have been answered.
IdsSpent ==
  /\ \A k \in DOMAIN log : log[k].id < nextId[log[k].server]
  /\ rpc # Idle =>
       /\ rpc.id < nextId[rpc.server]
       /\ \A k \in DOMAIN log : log[k].server = rpc.server => log[k].id # rpc.id

-----------------------------------------------------------------------------
\* Idle is a request state, of no server.
LEMMA IdleFacts ==
  /\ Idle \in [server : 0..NumServers, id : Nat, step : {"idle", "write", "read", "note"},
               left : Nat, tool : Tools \cup {"none"}]
  /\ Idle.step = "idle"
BY DEF Idle

\* An element put at the end of a sequence.
LEMMA Appended ==
  ASSUME NEW S, NEW q \in Seq(S), NEW e \in S
  PROVE  /\ Append(q, e) \in Seq(S)
         /\ Len(Append(q, e)) = Len(q) + 1
         /\ \A k \in 1..Len(q) : Append(q, e)[k] = q[k]
         /\ Append(q, e)[Len(q) + 1] = e
  OBVIOUS

\* Dropping the provider leaves every server without a process or killed.
LEMMA DroppedTypes ==
  Dropped \in [Servers -> {"none", "killed"}]
BY DEF Dropped

\* A request that fails, while connecting or in a call.
LEMMA ErrsKeeps ==
  ASSUME ClientTypes, RpcSound, ChildTypes, rpc # Idle, Errs
  PROVE  ClientTypes' /\ RpcSound' /\ ChildTypes'
<1>1. CASE phase = "connecting"
  BY <1>1, IdleFacts, DroppedTypes DEF Errs, ConnectFails, ClientTypes, RpcSound, ChildTypes
<1>2. CASE phase # "connecting"
  <2> DEFINE call == [server |-> rpc.server, id |-> rpc.id, tool |-> rpc.tool,
                      answer |-> "err", for |-> rpc.id]
  <2>1. phase = "ready" /\ rpc.server \in Servers /\ rpc.tool \in Tools
    BY <1>2 DEF ClientTypes, RpcSound
  <2>2. call \in Calls
    BY <2>1 DEF ClientTypes, Calls
  <2>3. log' = Append(log, call) /\ rpc' = Idle
        /\ UNCHANGED <<phase, clients, index, nextId, child>>
    BY <1>2 DEF Errs
  <2>4. log' \in Seq(Calls)
    BY <2>2, <2>3, Appended DEF ClientTypes
  <2> HIDE DEF call
  <2>5. QED
    BY <2>3, <2>4, IdleFacts DEF ClientTypes, RpcSound, ChildTypes
<1>3. QED
  BY <1>1, <1>2

\* A request that is begun.
LEMMA RequestKeeps ==
  ASSUME ClientTypes, NEW s \in Servers, NEW tool \in Tools \cup {"none"}, NEW size \in Nat,
         Request(s, tool, size), UNCHANGED <<phase, clients, index, log>>,
         \/ phase = "connecting" /\ s = Len(clients) + 1
         \/ phase = "ready" /\ tool \in Tools
  PROVE  ClientTypes' /\ RpcSound'
<1>1. /\ rpc' = [server |-> s, id |-> nextId[s], step |-> "write", left |-> size, tool |-> tool]
      /\ nextId' = [nextId EXCEPT ![s] = @ + 1]
  BY DEF Request, FreshId
<1>2. nextId[s] \in Nat \ {0} /\ nextId' \in [Servers -> Nat \ {0}]
  BY <1>1 DEF ClientTypes
<1>3. /\ rpc' \in [server : 0..NumServers, id : Nat, step : {"idle", "write", "read", "note"},
                   left : Nat, tool : Tools \cup {"none"}]
      /\ rpc'.step = "write" /\ rpc'.server = s /\ rpc'.tool = tool
  BY <1>1, <1>2 DEF Servers
<1>4. QED
  BY <1>2, <1>3 DEF ClientTypes, RpcSound

\* A request that is answered: the next request of the connection, a server
\* that is connected, or a call that returns.
LEMMA AnsweredKeeps ==
  ASSUME ClientTypes, RpcSound, ChildTypes, rpc # Idle, NEW line \in Lines, Answered(line)
  PROVE  ClientTypes' /\ RpcSound' /\ ChildTypes'
<1>1. phase \in {"connecting", "ready"} /\ rpc.server \in Servers
  BY DEF ClientTypes, RpcSound
<1>2. CASE phase = "ready"
  <2> DEFINE call == [server |-> rpc.server, id |-> rpc.id, tool |-> rpc.tool,
                      answer |-> "ok", for |-> line.id]
  <2>1. call \in Calls
    BY <1>1, <1>2 DEF ClientTypes, RpcSound, Calls, Lines
  <2>2. log' = Append(log, call) /\ rpc' = Idle
        /\ UNCHANGED <<phase, clients, index, nextId, child>>
    BY <1>2 DEF Answered
  <2>3. log' \in Seq(Calls)
    BY <2>1, <2>2, Appended DEF ClientTypes
  <2> HIDE DEF call
  <2>4. QED
    BY <1>2, <2>2, <2>3, IdleFacts DEF ClientTypes, RpcSound, ChildTypes
<1>3. CASE phase = "connecting" /\ rpc.id = Initialize
  <2>1. rpc' = [rpc EXCEPT !.step = "note", !.left = 1]
        /\ UNCHANGED <<phase, clients, index, nextId, child, log>>
    BY <1>3 DEF Answered
  <2>2. QED
    BY <1>1, <1>3, <2>1, IdleFacts DEF ClientTypes, RpcSound, ChildTypes
<1>4. CASE phase = "connecting" /\ rpc.id # Initialize /\ line.kind # "list"
  <2>1. Errs
    BY <1>4 DEF Answered
  <2>2. QED
    BY <2>1, ErrsKeeps
<1>5. CASE phase = "connecting" /\ rpc.id # Initialize /\ line.kind = "list"
  <2>1. /\ clients' = Append(clients, line.tools)
        /\ index' = [t \in Tools |-> IF t \in line.tools THEN Len(clients) + 1 ELSE index[t]]
        /\ rpc' = Idle
        /\ UNCHANGED <<phase, nextId, child, log>>
    BY <1>5 DEF Answered, NewClient
  <2>2. line.tools \in SUBSET Tools /\ clients \in Seq(SUBSET Tools)
    BY DEF Lines, ClientTypes
  <2>3. clients' \in Seq(SUBSET Tools) /\ Len(clients') = Len(clients) + 1
    BY <2>1, <2>2, Appended
  <2>4. Len(clients) + 1 <= NumServers /\ Len(clients) \in Nat
    BY <1>1, <1>5, <2>2 DEF RpcSound, Servers
  <2>5. index' \in [Tools -> 0..Len(clients')]
    BY <2>1, <2>3, <2>4 DEF ClientTypes
  <2>6. QED
    BY <1>5, <2>1, <2>3, <2>4, <2>5, IdleFacts DEF ClientTypes, RpcSound, ChildTypes
<1>6. QED
  BY <1>1, <1>2, <1>3, <1>4, <1>5

-----------------------------------------------------------------------------
\* The steps of the client.
LEMMA ClientKeeps ==
  ASSUME TypeInv, ClientStep \/ CallTool \/ End \/ Abort
  PROVE  TypeInv'
<1> USE DEF TypeInv
<1>1. CASE Spawn
  <2>1. Len(clients) + 1 \in Servers
    BY <1>1 DEF Spawn, ClientTypes, Servers
  <2>2. PipeTypes'
    BY <1>1 DEF Spawn, PipeTypes
  <2>3. CASE child' = [child EXCEPT ![Len(clients) + 1] = "running"]
             /\ Request(Len(clients) + 1, "none", 1) /\ UNCHANGED phase
    <3>1. ChildTypes'
      BY <2>1, <2>3 DEF ChildTypes
    <3>2. ClientTypes' /\ RpcSound'
      BY <1>1, <2>1, <2>3, RequestKeeps DEF Spawn
    <3>3. QED
      BY <2>2, <3>1, <3>2
  <2>4. CASE ConnectFails /\ UNCHANGED nextId
    BY <1>1, <2>2, <2>4, IdleFacts, DroppedTypes
       DEF Spawn, ConnectFails, ClientTypes, RpcSound, ChildTypes
  <2>5. QED
    BY <1>1, <2>3, <2>4 DEF Spawn
<1>2. CASE Connected
  BY <1>2, IdleFacts DEF Connected, serverVars, ClientTypes, RpcSound, ChildTypes, PipeTypes
<1>3. CASE CallTool
  <2>1. PICK t \in Tools, size \in Sizes : index[t] # 0 /\ Request(index[t], t, size)
    BY <1>3 DEF CallTool
  <2>2. index[t] \in Servers /\ size \in Nat
    BY <2>1 DEF ClientTypes, Servers
  <2>3. ClientTypes' /\ RpcSound'
    BY <1>3, <2>1, <2>2, RequestKeeps DEF CallTool
  <2>4. QED
    BY <1>3, <2>3 DEF CallTool, serverVars, ChildTypes, PipeTypes
<1>4. CASE End
  BY <1>4, IdleFacts, DroppedTypes DEF End, ClientTypes, RpcSound, ChildTypes, PipeTypes
<1>5. CASE Write
  <2>1. rpc # Idle /\ rpc.server \in Servers /\ phase \in {"connecting", "ready"}
    BY <1>5, IdleFacts DEF Write, ClientTypes, RpcSound
  <2> DEFINE s == rpc.server
             unit == IF rpc.step = "note" THEN 0 ELSE rpc.id
  <2>2. CASE child[s] # "running"
    <3>1. Errs /\ UNCHANGED stdin
      BY <1>5, <2>2 DEF Write
    <3>2. PipeTypes'
      BY <1>5, <3>1 DEF Write, PipeTypes
    <3>3. QED
      BY <2>1, <3>1, <3>2, ErrsKeeps
  <2>3. CASE child[s] = "running"
    <3>1. /\ Len(stdin[s]) < PipeCap
          /\ stdin' = [stdin EXCEPT ![s] = Append(@, unit)]
          /\ UNCHANGED <<phase, clients, index, child, log, due, busy, stdout, said>>
      BY <1>5, <2>3 DEF Write
    <3>2. stdin[s] \in Seq(Nat) /\ unit \in Nat
      BY <2>1 DEF PipeTypes, ClientTypes
    <3>3. Append(stdin[s], unit) \in Seq(Nat) /\ Len(Append(stdin[s], unit)) <= PipeCap
      BY <3>1, <3>2, Appended DEF PipeTypes
    <3> HIDE DEF unit
    <3>4. PipeTypes' /\ ChildTypes'
      BY <2>1, <3>1, <3>3 DEF PipeTypes, ChildTypes
    <3>5. \/ rpc' = [rpc EXCEPT !.left = @ - 1] /\ rpc.left > 1 /\ UNCHANGED nextId
          \/ rpc' = [rpc EXCEPT !.step = "read", !.left = 0] /\ UNCHANGED nextId
          \/ rpc.step = "note" /\ Request(s, "none", 1)
      BY <1>5, <2>3 DEF Write
    <3>6. CASE rpc' = [rpc EXCEPT !.left = @ - 1] /\ rpc.left > 1 /\ UNCHANGED nextId
      <4>1. rpc.left - 1 \in Nat
        BY <3>6 DEF ClientTypes
      <4>2. QED
        BY <1>5, <2>1, <3>1, <3>4, <3>6, <4>1, IdleFacts DEF Write, ClientTypes, RpcSound
    <3>7. CASE rpc' = [rpc EXCEPT !.step = "read", !.left = 0] /\ UNCHANGED nextId
      BY <2>1, <3>1, <3>4, <3>7, IdleFacts DEF ClientTypes, RpcSound
    <3>8. CASE rpc.step = "note" /\ Request(s, "none", 1)
      <4>1. phase = "connecting" /\ s = Len(clients) + 1
        BY <2>1, <3>8 DEF RpcSound
      <4>2. QED
        BY <2>1, <3>1, <3>4, <3>8, <4>1, RequestKeeps
    <3>9. QED
      BY <3>5, <3>6, <3>7, <3>8
  <2>4. QED
    BY <2>2, <2>3
<1>6. CASE Read
  <2>1. rpc # Idle /\ rpc.server \in Servers
    BY <1>6, IdleFacts DEF Read, RpcSound
  <2> DEFINE s == rpc.server
             line == Head(stdout[s])
  <2>2. stdout[s] \in Seq(Lines) /\ stdout[s] # <<>>
    BY <1>6, <2>1 DEF Read, PipeTypes
  <2>3. line \in Lines /\ Tail(stdout[s]) \in Seq(Lines)
    BY <2>2
  <2>4. PipeTypes'
    BY <1>6, <2>1, <2>3 DEF Read, PipeTypes
  <2>5. Errs \/ Answered(line) \/ UNCHANGED <<clientVars, child>>
    BY <1>6 DEF Read
  <2> HIDE DEF line
  <2>6. CASE Errs
    BY <2>1, <2>4, <2>6, ErrsKeeps
  <2>7. CASE Answered(line)
    BY <2>1, <2>3, <2>4, <2>7, AnsweredKeeps
  <2>8. CASE UNCHANGED <<clientVars, child>>
    BY <2>4, <2>8 DEF clientVars, ClientTypes, RpcSound, ChildTypes
  <2>9. QED
    BY <2>5, <2>6, <2>7, <2>8
<1>7. CASE ReadEof
  <2>1. rpc # Idle /\ Errs
    BY <1>7, IdleFacts DEF ReadEof, AtEof
  <2>2. PipeTypes'
    BY <1>7 DEF ReadEof, PipeTypes
  <2>3. QED
    BY <2>1, <2>2, ErrsKeeps
<1>8. CASE Abort
  BY <1>8, IdleFacts DEF Abort, serverVars, ClientTypes, RpcSound, ChildTypes, PipeTypes
<1>9. QED
  BY <1>1, <1>2, <1>3, <1>4, <1>5, <1>6, <1>7, <1>8 DEF ClientStep

\* The steps of a server.
LEMMA ServerKeeps ==
  ASSUME TypeInv, NEW s \in Servers, ServerStep(s) \/ ServerSays(s) \/ ServerCloses(s)
  PROVE  TypeInv'
<1>1. UNCHANGED clientVars
  BY DEF ServerStep, ServerReads, ServerAnswers, ServerWrites, ServerSays, ServerCloses
<1>2. ClientTypes' /\ RpcSound'
  BY <1>1 DEF TypeInv, clientVars, ClientTypes, RpcSound
<1>3. ASSUME NEW kind \in {"none", "result", "list", "error", "request", "junk", "note"},
             NEW id \in Nat, NEW tools \in SUBSET Tools
      PROVE  [busy EXCEPT ![s] = Line(kind, id, tools)] \in [Servers -> Lines]
  BY DEF TypeInv, PipeTypes, Line, Lines
<1>4. ChildTypes' /\ PipeTypes'
  <2>1. CASE ServerReads(s)
    <3>1. stdin[s] \in Seq(Nat) /\ stdin[s] # <<>> /\ Len(stdin[s]) <= PipeCap
      BY <2>1 DEF ServerReads, TypeInv, PipeTypes
    <3>2. Head(stdin[s]) \in Nat /\ Tail(stdin[s]) \in Seq(Nat) /\ Len(Tail(stdin[s])) <= PipeCap
      BY <3>1
    <3>3. /\ stdin' = [stdin EXCEPT ![s] = Tail(stdin[s])]
          /\ due' \in {due, [due EXCEPT ![s] = @ \cup {Head(stdin[s])}]}
          /\ UNCHANGED <<child, busy, stdout, said>>
      BY <2>1 DEF ServerReads
    <3>4. QED
      BY <3>2, <3>3 DEF TypeInv, ChildTypes, PipeTypes
  <2>2. CASE ServerAnswers(s)
    <3>1. PICK id \in due[s] :
            /\ \E kind \in {"error", "result", "list"}, tools \in SUBSET Tools :
                 busy' = [busy EXCEPT ![s] = Line(kind, id, tools)]
            /\ due' = [due EXCEPT ![s] = @ \ {id}]
      BY <2>2 DEF ServerAnswers
    <3>2. id \in Nat
      BY DEF TypeInv, PipeTypes
    <3>3. busy' \in [Servers -> Lines]
      BY <1>3, <3>1, <3>2
    <3>4. QED
      BY <2>2, <3>1, <3>3 DEF ServerAnswers, TypeInv, ChildTypes, PipeTypes
  <2>3. CASE ServerWrites(s)
    <3>1. busy' = [busy EXCEPT ![s] = Line("none", 0, {})]
      BY <2>3 DEF ServerWrites, Silence
    <3>2. busy' \in [Servers -> Lines]
      BY <1>3, <3>1
    <3>3. Append(stdout[s], busy[s]) \in Seq(Lines)
      BY DEF TypeInv, PipeTypes
    <3>4. QED
      BY <2>3, <3>2, <3>3 DEF ServerWrites, TypeInv, ChildTypes, PipeTypes
  <2>4. CASE ServerSays(s)
    <3>1. said + 1 \in 0..MaxSaid
      BY <2>4 DEF ServerSays, TypeInv, PipeTypes
    <3>2. PICK kind \in {"note", "junk", "request"}, id \in Nat :
            busy' = [busy EXCEPT ![s] = Line(kind, id, {})]
      BY <2>4 DEF ServerSays
    <3>3. busy' \in [Servers -> Lines]
      BY <1>3, <3>1, <3>2
    <3>4. QED
      BY <2>4, <3>1, <3>3 DEF ServerSays, TypeInv, ChildTypes, PipeTypes
  <2>5. CASE ServerCloses(s)
    BY <2>5 DEF ServerCloses, TypeInv, ChildTypes, PipeTypes
  <2>6. QED
    BY <2>1, <2>2, <2>3, <2>4, <2>5 DEF ServerStep
<1>5. QED
  BY <1>2, <1>4 DEF TypeInv

LEMMA InitTypes == Init => TypeInv
<1> SUFFICES ASSUME Init PROVE TypeInv
  OBVIOUS
<1>1. Silence \in Lines
  BY DEF Silence, Line, Lines
<1>2. QED
  BY <1>1, IdleFacts DEF Init, TypeInv, ClientTypes, RpcSound, ChildTypes, PipeTypes

LEMMA StepTypes == TypeInv /\ [Next]_vars => TypeInv'
<1> SUFFICES ASSUME TypeInv, [Next]_vars PROVE TypeInv'
  OBVIOUS
<1>1. CASE ClientStep \/ CallTool \/ End \/ Abort
  BY <1>1, ClientKeeps
<1>2. CASE \E s \in Servers : ServerStep(s) \/ ServerSays(s) \/ ServerCloses(s)
  BY <1>2, ServerKeeps
<1>3. CASE UNCHANGED vars
  BY <1>3 DEF vars, TypeInv, ClientTypes, RpcSound, ChildTypes, PipeTypes
<1>4. QED
  BY <1>1, <1>2, <1>3 DEF Next

(***************************************************************************)
(* Every variable keeps its type: the pipe to a server never holds more    *)
(* than it can, and tool_index points at clients that are connected.       *)
(***************************************************************************)
THEOREM McpTypes == Spec => []TypeOK
<1>1. TypeInv => TypeOK
  BY DEF TypeInv, ClientTypes, ChildTypes, PipeTypes, TypeOK
<1>2. QED
  BY <1>1, InitTypes, StepTypes, PTL DEF Spec

-----------------------------------------------------------------------------
(***************************************************************************)
(* tool_index points at the last connected client that lists the tool: the *)
(* index a client is given is the place it then takes in clients.          *)
(***************************************************************************)
THEOREM Routed == Spec => []RoutedToOwner
<1>1. Init => RoutedToOwner
  BY DEF Init, RoutedToOwner
<1>2. TypeInv /\ RoutedToOwner /\ [Next]_vars => RoutedToOwner'
  <2> SUFFICES ASSUME TypeInv, RoutedToOwner, [Next]_vars PROVE RoutedToOwner'
    OBVIOUS
  <2>1. CASE UNCHANGED <<clients, index>>
    BY <2>1 DEF RoutedToOwner
  <2>2. CASE \E line \in Lines :
               /\ clients' = Append(clients, line.tools)
               /\ index' = [t \in Tools |-> IF t \in line.tools THEN Len(clients) + 1 ELSE index[t]]
    <3>1. PICK line \in Lines :
               /\ clients' = Append(clients, line.tools)
               /\ index' = [t \in Tools |-> IF t \in line.tools THEN Len(clients) + 1 ELSE index[t]]
      BY <2>2
    <3>2. line.tools \in SUBSET Tools /\ clients \in Seq(SUBSET Tools) /\ Len(clients) \in Nat
      BY DEF Lines, TypeInv, ClientTypes
    <3>3. /\ Len(clients') = Len(clients) + 1
          /\ \A c \in 1..Len(clients) : clients'[c] = clients[c]
          /\ clients'[Len(clients) + 1] = line.tools
      BY <3>1, <3>2, Appended
    <3>4. DOMAIN clients' = 1..Len(clients) + 1 /\ DOMAIN clients = 1..Len(clients)
      BY <3>1, <3>2, <3>3
    <3>5. ASSUME NEW t \in Tools
          PROVE  /\ index'[t] # 0 => index'[t] \in DOMAIN clients' /\ t \in clients'[index'[t]]
                 /\ \A c \in DOMAIN clients' : t \in clients'[c] => c <= index'[t]
      <4>1. index[t] \in 0..Len(clients)
        BY DEF TypeInv, ClientTypes
      <4>2. CASE t \in line.tools
        BY <3>1, <3>2, <3>3, <3>4, <4>2
      <4>3. CASE t \notin line.tools
        BY <3>1, <3>2, <3>3, <3>4, <4>1, <4>3 DEF RoutedToOwner
      <4>4. QED
        BY <4>2, <4>3
    <3>6. QED
      BY <3>5 DEF RoutedToOwner
  <2>3. ASSUME Errs PROVE UNCHANGED <<clients, index>>
    BY <2>3 DEF Errs
  <2>4. CASE Read
    <3>1. rpc.server \in Servers
      BY <2>4, IdleFacts DEF Read, TypeInv, RpcSound
    <3>2. Head(stdout[rpc.server]) \in Lines
      BY <2>4, <3>1 DEF Read, TypeInv, PipeTypes
    <3>3. QED
      BY <2>1, <2>2, <2>3, <2>4, <3>2 DEF Read, Answered, NewClient, clientVars, ClientTypes, TypeInv
  <2>5. CASE Write
    BY <2>1, <2>3, <2>5 DEF Write, Request
  <2>6. CASE Spawn \/ Connected \/ ReadEof \/ CallTool \/ End \/ Abort
    BY <2>1, <2>3, <2>6 DEF Spawn, Connected, ReadEof, AtEof, CallTool, End, Abort
  <2>7. CASE \E s \in Servers : ServerStep(s) \/ ServerSays(s) \/ ServerCloses(s)
    BY <2>1, <2>7 DEF ServerStep, ServerReads, ServerAnswers, ServerWrites, ServerSays,
                      ServerCloses, clientVars
  <2>8. CASE UNCHANGED vars
    BY <2>1, <2>8 DEF vars
  <2>9. QED
    BY <2>4, <2>5, <2>6, <2>7, <2>8 DEF Next, ClientStep
<1>3. QED
  BY <1>1, <1>2, InitTypes, StepTypes, PTL DEF Spec

(***************************************************************************)
(* No server outlives a provider that is dropped, whichever of them failed *)
(* to connect: once all are killed none is started, and no server stops    *)
(* being killed.                                                           *)
(***************************************************************************)
THEOREM NoneLeft == Spec => []NoOrphans
<1>1. Init => NoOrphans
  BY DEF Init, NoOrphans
<1>2. TypeInv /\ NoOrphans /\ [Next]_vars => NoOrphans'
  <2> SUFFICES ASSUME TypeInv, NoOrphans, [Next]_vars PROVE NoOrphans'
    OBVIOUS
  <2>1. CASE UNCHANGED <<phase, child>>
    BY <2>1 DEF NoOrphans
  <2>2. CASE child' = Dropped
    BY <2>2, DroppedTypes DEF NoOrphans
  <2>3. CASE phase' \in {"connecting", "ready"}
    BY <2>3 DEF NoOrphans
  <2>4. CASE Abort
    BY <2>4 DEF Abort, NoOrphans
  <2>5. ASSUME Errs PROVE UNCHANGED <<phase, child>> \/ child' = Dropped
    BY <2>5 DEF Errs, ConnectFails
  <2>6. ASSUME NEW line, Answered(line)
        PROVE  UNCHANGED <<phase, child>> \/ child' = Dropped
    BY <2>5, <2>6 DEF Answered
  <2>7. CASE Read
    BY <2>1, <2>2, <2>5, <2>6, <2>7 DEF Read, clientVars
  <2>8. CASE Spawn
    BY <2>2, <2>3, <2>8 DEF Spawn, ConnectFails
  <2>9. CASE Write \/ ReadEof
    BY <2>1, <2>2, <2>5, <2>9 DEF Write, ReadEof, AtEof
  <2>10. CASE Connected \/ CallTool \/ End
    BY <2>1, <2>2, <2>3, <2>10 DEF Connected, CallTool, End, serverVars
  <2>11. CASE \E s \in Servers : ServerStep(s) \/ ServerSays(s) \/ ServerCloses(s)
    <3>1. PICK s \in Servers : ServerStep(s) \/ ServerSays(s) \/ ServerCloses(s)
      BY <2>11
    <3>2. UNCHANGED phase
      BY <3>1 DEF ServerStep, ServerReads, ServerAnswers, ServerWrites, ServerSays,
                  ServerCloses, clientVars
    <3>3. CASE ServerCloses(s)
      <4>1. child[s] = "running"
        BY <3>3 DEF ServerCloses, Up
      <4>2. QED
        BY <3>2, <4>1 DEF NoOrphans
    <3>4. CASE ServerStep(s) \/ ServerSays(s)
      BY <2>1, <3>2, <3>4 DEF ServerStep, ServerReads, ServerAnswers, ServerWrites, ServerSays
    <3>5. QED
      BY <3>1, <3>3, <3>4
  <2>12. CASE UNCHANGED vars
    BY <2>1, <2>12 DEF vars
  <2>13. QED
    BY <2>4, <2>7, <2>8, <2>9, <2>10, <2>11, <2>12 DEF Next, ClientStep
<1>3. QED
  BY <1>1, <1>2, InitTypes, StepTypes, PTL DEF Spec

-----------------------------------------------------------------------------
Matched == IdsSpent /\ AnswersMatch

\* A request is begun with the next id of its connection.
LEMMA RequestSpends ==
  ASSUME TypeInv, Matched, NEW s \in Servers, NEW tool, NEW size,
         Request(s, tool, size), UNCHANGED log
  PROVE  Matched'
<1>1. /\ rpc'.server = s /\ rpc'.id = nextId[s]
      /\ nextId' = [nextId EXCEPT ![s] = @ + 1]
  BY DEF Request, FreshId
<1>2. nextId \in [Servers -> Nat \ {0}] /\ log \in Seq(Calls)
  BY DEF TypeInv, ClientTypes
<1>3. \A k \in DOMAIN log : log[k].server \in Servers /\ log[k].id \in Nat
  <2>1. \A k \in DOMAIN log : log[k] \in Calls
    BY <1>2
  <2>2. \A c \in Calls : c.server \in Servers /\ c.id \in Nat
    BY DEF Calls
  <2>3. QED
    BY <2>1, <2>2
<1>4. \A r \in Servers : nextId[r] <= nextId'[r] /\ nextId'[s] = nextId[s] + 1
  BY <1>1, <1>2
<1>5. ASSUME NEW k \in DOMAIN log PROVE log[k].id < nextId'[log[k].server]
  <2>1. log[k].id < nextId[log[k].server]
    BY DEF Matched, IdsSpent
  <2>2. /\ log[k].server \in Servers /\ log[k].id \in Nat
        /\ nextId[log[k].server] \in Nat /\ nextId'[log[k].server] \in Nat
    BY <1>1, <1>2, <1>3
  <2>3. QED
    BY <1>4, <2>1, <2>2
<1>6. /\ rpc'.id < nextId'[rpc'.server]
      /\ \A k \in DOMAIN log : log[k].server = rpc'.server => log[k].id # rpc'.id
  BY <1>1, <1>2, <1>3, <1>4 DEF Matched, IdsSpent
<1>7. log' = log
  OBVIOUS
<1>8. QED
  BY <1>5, <1>6, <1>7 DEF Matched, IdsSpent, AnswersMatch

\* A call returns with the answer to its own request, or an error.
LEMMA ReturnMatches ==
  ASSUME TypeInv, Matched, rpc # Idle, rpc' = Idle, UNCHANGED nextId,
         NEW call \in Calls, log' = Append(log, call),
         call.server = rpc.server, call.id = rpc.id, call.for = rpc.id
  PROVE  Matched'
<1>1. log \in Seq(Calls) /\ Len(log) \in Nat /\ DOMAIN log = 1..Len(log)
  BY DEF TypeInv, ClientTypes
<1>2. /\ DOMAIN log' = 1..Len(log) + 1
      /\ \A k \in 1..Len(log) : log'[k] = log[k]
      /\ log'[Len(log) + 1] = call
  BY <1>1, Appended
<1>3. IdsSpent'
  BY <1>1, <1>2 DEF Matched, IdsSpent
<1>4. AnswersMatch'
  BY <1>1, <1>2 DEF Matched, IdsSpent, AnswersMatch
<1>5. QED
  BY <1>3, <1>4 DEF Matched

(***************************************************************************)
(* A call that returns "ok" was given the response with the id of its own  *)
(* request, and no two calls of a connection have the same id: whatever    *)
(* late answers and unasked lines are in the pipe.                         *)
(***************************************************************************)
THEOREM AnswersAreOwn == Spec => []AnswersMatch
<1>1. Init => Matched
  BY DEF Init, Matched, IdsSpent, AnswersMatch
<1>2. TypeInv /\ Matched /\ [Next]_vars => Matched'
  <2> SUFFICES ASSUME TypeInv, Matched, [Next]_vars PROVE Matched'
    OBVIOUS
  <2>1. CASE UNCHANGED <<nextId, rpc, log>>
    BY <2>1 DEF Matched, IdsSpent, AnswersMatch
  <2>2. CASE rpc' = Idle /\ UNCHANGED <<nextId, log>>
    BY <2>2 DEF Matched, IdsSpent, AnswersMatch
  <2>3. CASE rpc # Idle /\ rpc'.server = rpc.server /\ rpc'.id = rpc.id
             /\ UNCHANGED <<nextId, log>>
    BY <2>3 DEF Matched, IdsSpent, AnswersMatch
  <2>4. rpc = Idle \/ (rpc.step # "idle" /\ rpc.server \in Servers)
    BY DEF TypeInv, RpcSound
  <2>5. ASSUME rpc # Idle, Errs PROVE Matched'
    <3>1. CASE phase = "connecting"
      BY <2>2, <2>5, <3>1 DEF Errs, ConnectFails
    <3>2. CASE phase # "connecting"
      <4> DEFINE call == [server |-> rpc.server, id |-> rpc.id, tool |-> rpc.tool,
                          answer |-> "err", for |-> rpc.id]
      <4>1. call \in Calls
        BY <2>5, <3>2 DEF TypeInv, ClientTypes, RpcSound, Calls
      <4>2. log' = Append(log, call) /\ rpc' = Idle /\ UNCHANGED nextId
        BY <2>5, <3>2 DEF Errs
      <4>3. call.server = rpc.server /\ call.id = rpc.id /\ call.for = rpc.id
        OBVIOUS
      <4> HIDE DEF call
      <4>4. QED
        BY <2>5, <4>1, <4>2, <4>3, ReturnMatches
    <3>3. QED
      BY <3>1, <3>2
  <2>6. ASSUME rpc # Idle, NEW line \in Lines, Matches(line), Answered(line) PROVE Matched'
    <3>1. CASE phase = "ready"
      <4> DEFINE call == [server |-> rpc.server, id |-> rpc.id, tool |-> rpc.tool,
                          answer |-> "ok", for |-> line.id]
      <4>1. call \in Calls
        BY <2>6, <3>1 DEF TypeInv, ClientTypes, RpcSound, Calls, Lines
      <4>2. log' = Append(log, call) /\ rpc' = Idle /\ UNCHANGED nextId
        BY <2>6, <3>1 DEF Answered
      <4>3. call.server = rpc.server /\ call.id = rpc.id /\ call.for = rpc.id
        BY <2>6 DEF Matches
      <4> HIDE DEF call
      <4>4. QED
        BY <2>6, <4>1, <4>2, <4>3, ReturnMatches
    <3>2. CASE phase # "ready" /\ rpc.id = Initialize
      BY <2>3, <2>6, <3>2 DEF Answered, TypeInv, ClientTypes
    <3>3. CASE phase # "ready" /\ rpc.id # Initialize
      BY <2>2, <2>5, <2>6, <3>3 DEF Answered
    <3>4. QED
      BY <3>1, <3>2, <3>3
  <2>7. CASE Read
    <3>1. rpc # Idle /\ rpc.server \in Servers
      BY <2>4, <2>7, IdleFacts DEF Read
    <3>2. Head(stdout[rpc.server]) \in Lines
      BY <2>7, <3>1 DEF Read, TypeInv, PipeTypes
    <3>3. QED
      BY <2>1, <2>5, <2>6, <2>7, <3>1, <3>2 DEF Read, clientVars
  <2>8. CASE Write
    <3>1. rpc # Idle /\ rpc.server \in Servers
      BY <2>4, <2>8, IdleFacts DEF Write
    <3>2. CASE child[rpc.server] # "running"
      BY <2>5, <2>8, <3>1, <3>2 DEF Write
    <3>3. CASE child[rpc.server] = "running" /\ Request(rpc.server, "none", 1)
      BY <2>8, <3>1, <3>3, RequestSpends DEF Write
    <3>4. CASE /\ child[rpc.server] = "running"
               /\ \/ rpc' = [rpc EXCEPT !.left = @ - 1]
                  \/ rpc' = [rpc EXCEPT !.step = "read", !.left = 0]
               /\ UNCHANGED nextId
      BY <2>3, <2>8, <3>1, <3>4 DEF Write, TypeInv, ClientTypes
    <3>5. QED
      BY <2>8, <3>2, <3>3, <3>4 DEF Write
  <2>9. CASE ReadEof
    BY <2>5, <2>9, IdleFacts DEF ReadEof, AtEof
  <2>10. CASE Spawn
    <3>1. Len(clients) + 1 \in Servers
      BY <2>10 DEF Spawn, TypeInv, ClientTypes, Servers
    <3>2. QED
      BY <2>2, <2>10, <3>1, RequestSpends DEF Spawn, ConnectFails
  <2>11. CASE CallTool
    <3>1. PICK t \in Tools, size \in Sizes : index[t] # 0 /\ Request(index[t], t, size)
      BY <2>11 DEF CallTool
    <3>2. index[t] \in Servers
      BY <3>1 DEF TypeInv, ClientTypes, Servers
    <3>3. QED
      BY <2>11, <3>1, <3>2, RequestSpends DEF CallTool
  <2>12. CASE Connected \/ End
    BY <2>1, <2>12 DEF Connected, End
  <2>13. CASE \E s \in Servers : ServerStep(s) \/ ServerSays(s) \/ ServerCloses(s)
    BY <2>1, <2>13 DEF ServerStep, ServerReads, ServerAnswers, ServerWrites, ServerSays,
                       ServerCloses, clientVars
  <2>14. CASE UNCHANGED vars
    BY <2>1, <2>14 DEF vars
  <2>15. CASE Abort
    BY <2>2, <2>15 DEF Abort
  <2>16. QED
    BY <2>7, <2>8, <2>9, <2>10, <2>11, <2>12, <2>13, <2>14, <2>15 DEF Next, ClientStep
<1>3. Matched => AnswersMatch
  BY DEF Matched
<1>4. QED
  BY <1>1, <1>2, <1>3, InitTypes, StepTypes, PTL DEF Spec
=============================================================================
