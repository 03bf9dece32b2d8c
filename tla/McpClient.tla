----------------------------- MODULE McpClient -----------------------------
(***************************************************************************)
(* Tool calls over MCP (src/tools/mcp_client.rs, src/tools/mcp_provider.rs)*)
(* McpProvider::connect starts the configured servers one after the other, *)
(* shakes hands with each and indexes its tools; McpProvider::call then    *)
(* sends one JSON-RPC request to the server that has the tool and reads    *)
(* its lines until one carries the id of the request.                      *)
(*                                                                         *)
(* Tool calls come from the program's main thread only (the environments   *)
(* of par-map and spawn threads have no provider), so one send_request     *)
(* runs at a time.  The servers are other people's programs: they answer   *)
(* in any order, late or never, say things nobody asked for, write lines   *)
(* that are not JSON, and die.  What they are assumed to do is the         *)
(* fairness of Spec.                                                       *)
(***************************************************************************)
EXTENDS Naturals, Sequences, FiniteSets

CONSTANTS
  NumServers,  \* the servers of the configuration file, in the order they are started
  Tools,       \* tool names
  PipeCap,     \* what the pipe to a server buffers, in units of a request
  Sizes,       \* the lengths a request may have
  MaxCalls,    \* bound: tool calls of the program
  MaxSaid,     \* bound: lines the servers write without being asked
  MaxId        \* bound: ids of the servers' own requests

ASSUME McpAssumption ==
  /\ NumServers \in Nat
  /\ PipeCap \in Nat \ {0}
  /\ Sizes \subseteq Nat \ {0}
  /\ MaxCalls \in Nat
  /\ {MaxSaid, MaxId} \subseteq Nat

Servers == 1..NumServers

VARIABLES
  phase,    \* "connecting", "ready", "failed", "ended" or "aborted"
  clients,  \* McpProvider.clients: the tools of each connected server
  index,    \* McpProvider.tool_index: a tool's client, 0 if it has none
  nextId,   \* next_id of each client
  rpc,      \* the send_request or send_notification in progress
  child,    \* each server: "none", "running", "closed" or "killed"
  stdin,    \* units in the pipe to each server: the id of their request, 0 for a notification
  due,      \* requests each server has read and not answered
  busy,     \* the line each server is about to write, or Silence
  stdout,   \* lines in the pipe from each server
  said,     \* lines written without being asked
  log       \* history: the tool calls that have returned

vars == <<phase, clients, index, nextId, rpc, child, stdin, due, busy, stdout, said, log>>

clientVars == <<phase, clients, index, nextId, rpc, log>>

serverVars == <<child, stdin, due, busy, stdout, said>>

-----------------------------------------------------------------------------
\* A line is a response ("result", "list" with an array of tools, or "error") to
\* request id, a "request" of the server's own with a numeric id, "junk" that is
\* not JSON, or a "note": a notification, a blank line, an id that is no number.
Line(kind, id, tools) == [kind |-> kind, id |-> id, tools |-> tools]

Silence == Line("none", 0, {})

\* One line fits in the pipe from a server.
OutCap == 1

\* The first requests of a connection.
Initialize == 1
ToolsList  == 2

Idle == [server |-> 0, id |-> 0, step |-> "idle", left |-> 0, tool |-> "none"]

Init ==
  /\ phase = "connecting"
  /\ clients = <<>>
  /\ index = [t \in Tools |-> 0]
  /\ nextId = [s \in Servers |-> 1]
  /\ rpc = Idle
  /\ child = [s \in Servers |-> "none"]
  /\ stdin = [s \in Servers |-> <<>>]
  /\ due = [s \in Servers |-> {}]
  /\ busy = [s \in Servers |-> Silence]
  /\ stdout = [s \in Servers |-> <<>>]
  /\ said = 0
  /\ log = <<>>

-----------------------------------------------------------------------------
\* Mutant: only the connection that is being made is dropped.
DroppedLast ==
  [s \in Servers |-> IF s = Len(clients) + 1 /\ child[s] # "none" THEN "killed" ELSE child[s]]

\* kill_on_drop: every client's Child is dropped with it.
Dropped == [s \in Servers |-> IF child[s] = "none" THEN "none" ELSE "killed"]

\* McpProvider::connect returns Err: nothing it has started survives it.
ConnectFails ==
  /\ phase' = "failed"
  /\ rpc' = Idle
  /\ child' = Dropped

\* The id of the next request.
FreshId(s) == nextId[s]

\* send_request, up to the write.
Request(s, tool, size) ==
  /\ rpc' = [server |-> s, id |-> FreshId(s), step |-> "write", left |-> size, tool |-> tool]
  /\ nextId' = [nextId EXCEPT ![s] = @ + 1]

\* McpClient::connect starts the next server and sends initialize, or cannot start it.
Spawn ==
  /\ phase = "connecting"
  /\ rpc = Idle
  /\ Len(clients) < NumServers
  /\ LET s == Len(clients) + 1
     IN  \/ /\ child' = [child EXCEPT ![s] = "running"]
            /\ Request(s, "none", 1)
            /\ UNCHANGED phase
         \/ ConnectFails /\ UNCHANGED nextId
  /\ UNCHANGED <<clients, index, stdin, due, busy, stdout, said, log>>

\* Every server of the configuration is connected.
Connected ==
  /\ phase = "connecting"
  /\ rpc = Idle
  /\ Len(clients) = NumServers
  /\ phase' = "ready"
  /\ UNCHANGED <<clients, index, nextId, rpc, log, serverVars>>

\* McpProvider::call of a tool that has a client; any other is NotConfigured.
CallTool ==
  /\ phase = "ready"
  /\ rpc = Idle
  /\ Len(log) < MaxCalls
  /\ \E t \in Tools, size \in Sizes :
       /\ index[t] # 0
       /\ Request(index[t], t, size)
  /\ UNCHANGED <<phase, clients, index, log, serverVars>>

\* The run returns and the provider is dropped with it.
End ==
  /\ phase = "ready"
  /\ rpc = Idle
  /\ phase' = "ended"
  /\ child' = Dropped
  /\ UNCHANGED <<clients, index, nextId, rpc, stdin, due, busy, stdout, said, log>>

\* The runtime guard ends the process, in the middle of a request too: nothing is
\* dropped, and the servers are left to notice that their pipes are closed.
Abort ==
  /\ phase \in {"connecting", "ready"}
  /\ phase' = "aborted"
  /\ rpc' = Idle
  /\ UNCHANGED <<clients, index, nextId, log, serverVars>>

\* A connected client's request is over with an error: it fails the connection
\* that is being made, or the call.
Errs ==
  IF phase = "connecting"
  THEN ConnectFails /\ UNCHANGED <<clients, index, nextId, log>>
  ELSE /\ log' = Append(log, [server |-> rpc.server, id |-> rpc.id, tool |-> rpc.tool,
                              answer |-> "err", for |-> rpc.id])
       /\ rpc' = Idle
       /\ UNCHANGED <<phase, clients, index, nextId, child>>

\* write_all: a unit at a time, and an error once the server has gone.
Write ==
  /\ rpc.step \in {"write", "note"}
  /\ LET s == rpc.server
     IN  IF child[s] # "running"
         THEN Errs /\ UNCHANGED stdin
         ELSE /\ Len(stdin[s]) < PipeCap
              /\ stdin' = [stdin EXCEPT ![s] = Append(@, IF rpc.step = "note" THEN 0 ELSE rpc.id)]
              /\ \/ /\ rpc.left > 1
                    /\ rpc' = [rpc EXCEPT !.left = @ - 1]
                    /\ UNCHANGED nextId
                 \/ /\ rpc.left = 1 /\ rpc.step = "write"
                    /\ rpc' = [rpc EXCEPT !.step = "read", !.left = 0]
                    /\ UNCHANGED nextId
                 \/ /\ rpc.step = "note"   \* notifications/initialized, then tools/list
                    /\ Request(s, "none", 1)
              /\ UNCHANGED <<phase, clients, index, child, log>>
  /\ UNCHANGED <<due, busy, stdout, said>>

\* Mutant: the place a client gets is counted after the push.
NewClientAfter == Len(clients) + 2

\* The position a client gets in McpProvider.clients.
NewClient == Len(clients) + 1

\* The answer to the request: initialize is followed by a notification,
\* tools/list completes a connection, a call returns.
Answered(line) ==
  CASE phase = "ready" ->
         /\ log' = Append(log, [server |-> rpc.server, id |-> rpc.id, tool |-> rpc.tool,
                                answer |-> "ok", for |-> line.id])
         /\ rpc' = Idle
         /\ UNCHANGED <<phase, clients, index, nextId, child>>
    [] phase # "ready" /\ rpc.id = Initialize ->
         /\ rpc' = [rpc EXCEPT !.step = "note", !.left = 1]
         /\ UNCHANGED <<phase, clients, index, nextId, child, log>>
    [] phase # "ready" /\ rpc.id # Initialize ->
         IF line.kind # "list"   \* no "tools" array; an empty one will do
         THEN Errs
         ELSE /\ clients' = Append(clients, line.tools)
              /\ index' = [t \in Tools |-> IF t \in line.tools THEN NewClient ELSE index[t]]
              /\ rpc' = Idle
              /\ UNCHANGED <<phase, nextId, child, log>>

\* Mutant: the first response is taken for the answer.
MatchesAny(line) == line.kind \notin {"junk", "note"}

\* resp.get("id") is the id of the request, whatever else the line is.
Matches(line) == line.kind \notin {"junk", "note"} /\ line.id = rpc.id

\* read_line, and what becomes of the line.
Read ==
  /\ rpc.step = "read"
  /\ stdout[rpc.server] # <<>>
  /\ LET line == Head(stdout[rpc.server])
     IN  IF line.kind = "junk" \/ (Matches(line) /\ line.kind = "error") THEN Errs
         ELSE IF Matches(line) THEN Answered(line)
         ELSE UNCHANGED <<clientVars, child>>
  /\ stdout' = [stdout EXCEPT ![rpc.server] = Tail(@)]
  /\ UNCHANGED <<stdin, due, busy, said>>

\* Mutant: end of file is skipped like a blank line.
AtEofSkipped == UNCHANGED <<clientVars, child>>

\* "MCP server closed connection".
AtEof == Errs

ReadEof ==
  /\ rpc.step = "read"
  /\ child[rpc.server] = "closed"
  /\ stdout[rpc.server] = <<>>
  /\ AtEof
  /\ UNCHANGED <<stdin, due, busy, stdout, said>>

-----------------------------------------------------------------------------
\* A server: one thread, blocked while the line it has begun does not fit.
Up(s) == child[s] = "running"

Free(s) == Up(s) /\ busy[s] = Silence

\* It takes a request when it has read its last unit.
ServerReads(s) ==
  /\ Free(s)
  /\ stdin[s] # <<>>
  /\ LET id == Head(stdin[s])
         rest == Tail(stdin[s])
         more == (rest # <<>> /\ Head(rest) = id) \/ (rpc.server = s /\ rpc.id = id /\ rpc.left > 0)
     IN  /\ stdin' = [stdin EXCEPT ![s] = rest]
         /\ due' = IF id = 0 \/ more THEN due ELSE [due EXCEPT ![s] = @ \cup {id}]
  /\ UNCHANGED <<child, busy, stdout, said, clientVars>>

\* It answers any request it has, or reports an error.
ServerAnswers(s) ==
  /\ Free(s)
  /\ \E id \in due[s] :
       /\ \/ \E kind \in {"error", "result"} : busy' = [busy EXCEPT ![s] = Line(kind, id, {})]
          \/ /\ id = ToolsList
             /\ \E tools \in SUBSET Tools : busy' = [busy EXCEPT ![s] = Line("list", id, tools)]
       /\ due' = [due EXCEPT ![s] = @ \ {id}]
  /\ UNCHANGED <<child, stdin, stdout, said, clientVars>>

\* It says something nobody asked for.  Its own requests have ids of its choice.
ServerSays(s) ==
  /\ Free(s)
  /\ said < MaxSaid
  /\ said' = said + 1
  /\ \/ \E kind \in {"note", "junk"} : busy' = [busy EXCEPT ![s] = Line(kind, 0, {})]
     \/ \E id \in 1..MaxId : busy' = [busy EXCEPT ![s] = Line("request", id, {})]
  /\ UNCHANGED <<child, stdin, due, stdout, clientVars>>

ServerWrites(s) ==
  /\ Up(s)
  /\ busy[s] # Silence
  /\ Len(stdout[s]) < OutCap
  /\ stdout' = [stdout EXCEPT ![s] = Append(@, busy[s])]
  /\ busy' = [busy EXCEPT ![s] = Silence]
  /\ UNCHANGED <<child, stdin, due, said, clientVars>>

\* It exits, and its ends of both pipes close.
ServerCloses(s) ==
  /\ Up(s)
  /\ child' = [child EXCEPT ![s] = "closed"]
  /\ UNCHANGED <<stdin, due, busy, stdout, said, clientVars>>

-----------------------------------------------------------------------------
ClientStep == Spawn \/ Connected \/ Write \/ Read \/ ReadEof

ServerStep(s) == ServerReads(s) \/ ServerAnswers(s) \/ ServerWrites(s)

Next ==
  \/ ClientStep \/ CallTool \/ End \/ Abort
  \/ \E s \in Servers : ServerStep(s) \/ ServerSays(s) \/ ServerCloses(s)

(***************************************************************************)
(* The client runs on; a server that is up goes on reading, answering and  *)
(* writing, but need not say anything unasked nor die.                     *)
(***************************************************************************)
Fairness ==
  /\ WF_vars(ClientStep)
  /\ \A s \in Servers : WF_vars(ServerStep(s))

Spec == Init /\ [][Next]_vars /\ Fairness

-----------------------------------------------------------------------------
Lines == [kind : {"none", "result", "list", "error", "request", "junk", "note"}, id : Nat,
          tools : SUBSET Tools]

Calls == [server : Servers, id : Nat, tool : Tools, answer : {"ok", "err"}, for : Nat]

TypeOK ==
  /\ phase \in {"connecting", "ready", "failed", "ended", "aborted"}
  /\ clients \in Seq(SUBSET Tools) /\ Len(clients) <= NumServers
  /\ index \in [Tools -> 0..Len(clients)]
  /\ nextId \in [Servers -> Nat \ {0}]
  /\ rpc \in [server : 0..NumServers, id : Nat, step : {"idle", "write", "read", "note"},
              left : Nat, tool : Tools \cup {"none"}]
  /\ child \in [Servers -> {"none", "running", "closed", "killed"}]
  /\ stdin \in [Servers -> Seq(Nat)] /\ \A s \in Servers : Len(stdin[s]) <= PipeCap
  /\ due \in [Servers -> SUBSET Nat]
  /\ busy \in [Servers -> Lines]
  /\ stdout \in [Servers -> Seq(Lines)]
  /\ said \in 0..MaxSaid
  /\ log \in Seq(Calls)

(***************************************************************************)
(* A call gets the answer to its own request, and no other call of the     *)
(* connection has its id: answers to earlier calls that failed on a line   *)
(* that was no JSON arrive later and are skipped.  (A request of the       *)
(* server's own that happens to carry the id is taken for the answer.)     *)
(***************************************************************************)
AnswersMatch ==
  \A k \in DOMAIN log :
    /\ log[k].for = log[k].id
    /\ \A j \in DOMAIN log : log[j].server = log[k].server /\ log[j].id = log[k].id => j = k

(***************************************************************************)
(* A call goes to a server that lists the tool, the last one connected of  *)
(* those that do, although tool_decls declares the tool once for each.     *)
(***************************************************************************)
RoutedToOwner ==
  \A t \in Tools :
    /\ index[t] # 0 => index[t] \in DOMAIN clients /\ t \in clients[index[t]]
    /\ \A c \in DOMAIN clients : t \in clients[c] => c <= index[t]

(***************************************************************************)
(* No server outlives a provider that is dropped: when connecting fails at *)
(* any of them, the ones already connected are killed too.  (After an      *)
(* abort nothing is dropped, and this says nothing.)                       *)
(***************************************************************************)
NoOrphans ==
  phase \in {"failed", "ended"} => \A s \in Servers : child[s] \in {"none", "killed"}

(***************************************************************************)
(* A call whose request fits in what is left of the pipe returns: with the *)
(* answer, or an error if the server dies or talks nonsense, however much  *)
(* else it says; or the guard ends the process.  (A longer request can     *)
(* block for ever: the client reads nothing before it has written all, and *)
(* the server may be waiting for it to read.)                              *)
(***************************************************************************)
CallReturns ==
  \A s \in Servers :
    (phase = "ready" /\ rpc.server = s /\ rpc.step = "write"
       /\ rpc.left + Len(stdin[s]) <= PipeCap) ~> rpc = Idle
=============================================================================
