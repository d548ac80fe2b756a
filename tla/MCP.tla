-------------------------------- MODULE MCP --------------------------------
(***************************************************************************)
(* The tool servers of internal/mcp: the manager's map of clients, the     *)
(* requests to its management endpoints that add, remove and reconnect     *)
(* them, and the tool calls of the agent loop.                             *)
(*                                                                         *)
(* The map is read and written under the manager's lock, a client's tools  *)
(* under the client's, and a client's Conn under neither when it is set by *)
(* connectClient or used by a tool call.                                   *)
(***************************************************************************)
EXTENDS Callbacks

LOCAL INSTANCE SequencesExt

VARIABLES
  clients,    \* clients[s]: the client object registered for server s, or None
  objects,    \* objects[o]: a Client: its server, its Conn and its tools
  open,       \* the connections that are open
  made,       \* the number of connections made so far
  mu,         \* the admin request that holds the manager's lock, or None
  admin,      \* admin[a]: how far admin request a has got
  tooling,    \* tooling[r]: the tool calls r is executing, and their results
  closed      \* Close has cancelled the manager's context

mcpVars == <<clients, objects, open, made, mu, admin, tooling, closed>>

\* A server offers the tool of its own name.
Servers == set.Servers

Registering(s) == clients[s] # None

Client(s) == objects[clients[s]]

Doing(a, pc) == Running /\ admin[a].pc = pc

Done == [op |-> "done", server |-> None, pc |-> "done", object |-> None, conn |-> None]

Goes(a, pc) == admin' = [admin EXCEPT ![a].pc = pc]

Finishes(a) == admin' = [admin EXCEPT ![a] = Done]

----------------------------------------------------------------------------
(* The management endpoints.                                               *)

\* The admin server hands the request to the handler.
Arrives(a, op) == down.phase = "serving" /\ admin[a].pc = "idle" /\ op \in set.Ops[a]

\* AddClient: a placeholder is registered, and connected without the lock.
AddClient(a, s) ==
  /\ Arrives(a, "add")
  /\ mu = None
  /\ IF Registering(s)
     THEN Finishes(a) /\ UNCHANGED <<clients, objects>>
     ELSE /\ objects' = Append(objects, [server |-> s, conn |-> None, tools |-> FALSE])
          /\ clients' = [clients EXCEPT ![s] = Len(objects) + 1]
          /\ admin' = [admin EXCEPT ![a] = [op |-> "add", server |-> s, pc |-> "dial",
                                            object |-> Len(objects) + 1, conn |-> None]]
  /\ UNCHANGED <<open, made, mu, tooling, closed, set, faults, down>>

\* A failed connectClient of AddClient: whatever is registered is deleted.
AddClientUndo(a) ==
  /\ Doing(a, "undo")
  /\ mu = None
  /\ clients' = [clients EXCEPT ![admin[a].server] = None]
  /\ Finishes(a)
  /\ UNCHANGED <<objects, open, made, mu, tooling, closed, set, faults, down>>

\* RemoveClient up to the connection's Close; the lock is held throughout.
RemoveClient(a, s) ==
  /\ Arrives(a, "remove")
  /\ mu = None
  /\ IF ~ Registering(s)
     THEN Finishes(a) /\ UNCHANGED mu
     ELSE /\ mu' = a
          /\ admin' = [admin EXCEPT ![a] = [op |-> "remove", server |-> s, pc |-> "close",
                                            object |-> clients[s], conn |-> None]]
  /\ UNCHANGED <<clients, objects, open, made, tooling, closed, set, faults, down>>

\* ReconnectClient looks the client up, releases the lock and takes it again.
ReconnectClient(a, s) ==
  /\ Arrives(a, "reconnect")
  /\ mu = None
  /\ IF ~ Registering(s)
     THEN Finishes(a)
     ELSE admin' = [admin EXCEPT ![a] = [op |-> "reconnect", server |-> s, pc |-> "relock",
                                         object |-> clients[s], conn |-> None]]
  /\ UNCHANGED <<clients, objects, open, made, mu, tooling, closed, set, faults, down>>

ReconnectLock(a) ==
  /\ Doing(a, "relock")
  /\ mu = None
  /\ mu' = a
  /\ Goes(a, "close")
  /\ UNCHANGED <<clients, objects, open, made, tooling, closed, set, faults, down>>

\* cleanupClient: close the connection ...
CleanupClose(a) ==
  /\ Doing(a, "close")
  /\ open' = open \ {objects[admin[a].object].conn}
  /\ Goes(a, "clear")
  /\ UNCHANGED <<clients, objects, made, mu, tooling, closed, set, faults, down>>

\* ... then forget it and its tools, and release the lock.
CleanupClear(a) ==
  /\ Doing(a, "clear")
  /\ objects' = [objects EXCEPT ![admin[a].object].conn = None,
                                ![admin[a].object].tools = FALSE]
  /\ mu' = None
  /\ IF admin[a].op = "remove"
     THEN clients' = [clients EXCEPT ![admin[a].server] = None] /\ Finishes(a)
     ELSE Goes(a, "dial") /\ UNCHANGED clients
  /\ UNCHANGED <<open, made, tooling, closed, set, faults, down>>

----------------------------------------------------------------------------
(* connectClient, without the manager's lock.                              *)

\* The transport is created and started and the protocol initialised; when
\* the last of these fails the started transport is not closed.
ConnectDial(a) ==
  /\ Doing(a, "dial")
  /\ \/ /\ ~ closed
        /\ made' = made + 1
        /\ open' = open \cup {made + 1}
        /\ admin' = [admin EXCEPT ![a].pc = "install", ![a].conn = made + 1]
        /\ UNCHANGED faults
     \/ /\ ~ closed => faults < set.MaxFaults
        /\ faults' = IF closed THEN faults ELSE faults + 1
        /\ \E started \in IF closed THEN {0} ELSE {0, 1} :
             /\ made' = made + started
             /\ open' = open \cup (made + 1 .. made + started)
        /\ IF admin[a].op = "add" THEN Goes(a, "undo") ELSE Finishes(a)
  /\ UNCHANGED <<clients, objects, mu, tooling, closed, set, down>>

ConnectInstall(a) ==
  /\ Doing(a, "install")
  /\ objects' = [objects EXCEPT ![admin[a].object].conn = admin[a].conn]
  /\ Goes(a, "list")
  /\ UNCHANGED <<clients, open, made, mu, tooling, closed, set, faults, down>>

\* refreshClientTools: the list of tools is asked of the client's connection,
\* and a failure leaves the client connected without tools.
RefreshList(a) ==
  /\ Doing(a, "list")
  /\ LET conn == objects[admin[a].object].conn
     IN \/ conn \in open /\ ~ closed /\ Goes(a, "store") /\ UNCHANGED faults
        \/ /\ conn \notin open \/ closed \/ faults < set.MaxFaults
           /\ faults' = IF conn \notin open \/ closed THEN faults ELSE faults + 1
           /\ Finishes(a)
  /\ UNCHANGED <<clients, objects, open, made, mu, tooling, closed, set, down>>

RefreshStore(a) ==
  /\ Doing(a, "store")
  /\ objects' = [objects EXCEPT ![admin[a].object].tools = TRUE]
  /\ Finishes(a)
  /\ UNCHANGED <<clients, open, made, mu, tooling, closed, set, faults, down>>

\* Close, deferred by main.
Close ==
  /\ mu = None
  /\ closed' = TRUE
  /\ LET gone == {clients[s] : s \in Servers} \ {None}
     IN /\ open' = open \ {objects[o].conn : o \in gone}
        /\ objects' = [o \in DOMAIN objects |->
             IF o \in gone THEN [objects[o] EXCEPT !.conn = None, !.tools = FALSE]
             ELSE objects[o]]
  /\ clients' = [s \in Servers |-> None]
  /\ UNCHANGED <<made, mu, admin, tooling>>

AdminArrives(a) ==
  \E s \in Servers : AddClient(a, s) \/ RemoveClient(a, s) \/ ReconnectClient(a, s)

AdminStep(a) ==
  \/ AddClientUndo(a) \/ ReconnectLock(a) \/ CleanupClose(a) \/ CleanupClear(a)
  \/ ConnectDial(a) \/ ConnectInstall(a) \/ RefreshList(a) \/ RefreshStore(a)

----------------------------------------------------------------------------
(* Tool calls.                                                             *)

\* GetAvailableTools: the tools of the connected clients, to inject.
GetAvailableTools ==
  {s \in Servers : Registering(s) /\ Client(s).conn # None /\ Client(s).tools}

NoTools == [calls |-> <<>>, results |-> <<>>]

\* ExecuteToolCalls: a goroutine for each call, and a place for each result.
ExecuteToolCalls(r, tools) ==
  tooling' = [tooling EXCEPT ![r] =
    [calls |-> [i \in DOMAIN tools |-> [tool |-> tools[i], pc |-> "find",
                                        object |-> None, conn |-> None]],
     results |-> [i \in DOMAIN tools |-> None]]]

Answer_InTurn(r, i, ok) ==
  LET t == tooling[r]
      free == CHOOSE k \in DOMAIN t.results :
                /\ t.results[k] = None
                /\ \A j \in 1 .. (k - 1) : t.results[j] # None
  IN tooling' = [tooling EXCEPT
       ![r].calls[i] = [@ EXCEPT !.pc = "answered", !.object = None, !.conn = None],
       ![r].results[free] = [call |-> i, ok |-> ok]]

\* results[idx] = ...
Answer(r, i, ok) ==
  tooling' = [tooling EXCEPT
    ![r].calls[i] = [@ EXCEPT !.pc = "answered", !.object = None, !.conn = None],
    ![r].results[i] = [call |-> i, ok |-> ok]]

\* findClientForTool, under the manager's read lock.
FindClientForTool(r, i) ==
  LET c == tooling[r].calls[i]
      holders == {s \in Servers : Registering(s) /\ Client(s).tools /\ s = c.tool}
  IN /\ Running /\ c.pc = "find"
     /\ mu = None
     /\ IF holders = {} THEN Answer(r, i, FALSE)
        ELSE \E s \in holders :
               tooling' = [tooling EXCEPT ![r].calls[i].pc = "check",
                                          ![r].calls[i].object = clients[s]]
     /\ UNCHANGED <<clients, objects, open, made, mu, admin, closed,
                    set, faults, down>>

\* "client not connected", and the arguments that do not parse.
ExecuteToolCheck(r, i) ==
  LET c == tooling[r].calls[i]
  IN /\ Running /\ c.pc = "check"
     /\ \/ objects[c.object].conn = None /\ Answer(r, i, FALSE) /\ UNCHANGED faults
        \/ /\ objects[c.object].conn # None
           /\ tooling' = [tooling EXCEPT ![r].calls[i].pc = "call"]
           /\ UNCHANGED faults
        \/ objects[c.object].conn # None /\ Answer(r, i, FALSE) /\ Succeeds(FALSE)
     /\ UNCHANGED <<clients, objects, open, made, mu, admin, closed, set, down>>

\* client.Conn is read again: a nil one panics in a goroutine of its own.
ExecuteToolSend(r, i) ==
  LET c == tooling[r].calls[i]
      conn == objects[c.object].conn
  IN /\ Running /\ c.pc = "call"
     /\ down' = IF conn = None THEN [down EXCEPT !.phase = "crashed"] ELSE down
     /\ tooling' = [tooling EXCEPT ![r].calls[i].pc = "wait", ![r].calls[i].conn = conn]
     /\ UNCHANGED <<clients, objects, open, made, mu, admin, closed, set, faults>>

\* The server answers, or the call fails: the connection was closed under it,
\* or the execution timeout has passed.
ExecuteToolOnClient(r, i) ==
  LET c == tooling[r].calls[i]
  IN /\ Running /\ c.pc = "wait"
     /\ \/ c.conn \in open /\ Answer(r, i, TRUE) /\ UNCHANGED faults
        \/ c.conn \in open /\ Answer(r, i, FALSE) /\ Succeeds(FALSE)
        \/ c.conn \notin open /\ Answer(r, i, FALSE) /\ UNCHANGED faults
     /\ UNCHANGED <<clients, objects, open, made, mu, admin, closed, set, down>>

\* wg.Wait
AllAnswered(r) ==
  \A i \in DOMAIN tooling[r].calls : tooling[r].calls[i].pc = "answered"

ToolStep(r) ==
  \E i \in DOMAIN tooling[r].calls :
    \/ FindClientForTool(r, i) \/ ExecuteToolCheck(r, i)
    \/ ExecuteToolSend(r, i) \/ ExecuteToolOnClient(r, i)

\* NewManager: a configured server it cannot connect to is left out.
NewManager ==
  /\ \E up \in SUBSET Servers :
       LET order == SetToSeq(up)
       IN /\ objects = [o \in DOMAIN order |->
                          [server |-> order[o], conn |-> o, tools |-> TRUE]]
          /\ clients = [s \in Servers |->
                          IF s \in up THEN CHOOSE o \in DOMAIN order : order[o] = s ELSE None]
          /\ made = Len(order)
          /\ open = DOMAIN order
  /\ mu = None
  /\ admin = [a \in Admins |-> [Done EXCEPT !.pc = "idle"]]
  /\ tooling = [r \in Requests |-> NoTools]
  /\ closed = FALSE
=============================================================================
