------------------------------ MODULE SftpSession ------------------------------
(***************************************************************************)
(* The connection of SftpMiddlewareService.  One instance serves all       *)
(* handlers of a process, and keeps one configuration and one client for   *)
(* them: connect makes a client unless there is one that is connected,     *)
(* tries it again when the server does not answer, and lets a listener     *)
(* forget the client when its connection breaks.  FileTransfer models what  *)
(* is done over it.                                                        *)
(*                                                                         *)
(* The key sftp-connection of the cache is only logged: of the calls of    *)
(* the cache, what is left are the moments at which others run.  A server  *)
(* is named by its host, and so are its folders.                           *)
(***************************************************************************)
EXTENDS Naturals, Sequences

CONSTANTS
  Handlers,
  Hosts,
  Nowhere,     \* no host; as a path, the directory a login starts in
  retries,     \* attempts after the first one
  MaxClients,  \* bound: clients made
  MaxUses,     \* bound: calls of connect
  MaxFaults    \* bound: refused attempts, broken connections, handlers that do not disconnect

\* Assumed by the modules that instantiate this one.
ConstantsFit ==
  /\ {retries, MaxClients, MaxUses, MaxFaults} \subseteq Nat
  /\ Nowhere \notin Hosts

VARIABLES
  config,     \* host and basePath of the last connect
  client,     \* the SftpClient, 0 for none
  clients,    \* those that were made
  handler,
  forgetting, \* error listeners that wait for the cache
  uses, faults,
  stray       \* ghost: a handler without company wrote elsewhere

vars == <<config, client, clients, handler, forgetting, uses, faults, stray>>

Idle == [pc |-> "idle"]

Init ==
  /\ config = Nowhere
  /\ client = 0
  /\ clients = <<>>
  /\ handler = [h \in Handlers |-> Idle]
  /\ forgetting = 0
  /\ uses = 0 /\ faults = 0
  /\ stray = FALSE

isConnected == client # 0 /\ clients[client].up

Goto(h, pc) == handler' = [handler EXCEPT ![h].pc = pc]
Fault == faults < MaxFaults /\ faults' = faults + 1

Connecting(h) == handler[h].pc \in {"cache", "asking", "waiting", "save"}

\* Ghosts.  A handler is alone if no other one is at work between its connect and
\* its disconnect, and it found no connection that a handler had left open.  A client
\* is crossed if connects overlapped, or a listener forgot it.
Alone(h) ==
  /\ \A g \in Handlers \ {h} : handler[g] = Idle
  /\ isConnected => ~clients[client].left
Crossed == \E g \in Handlers : Connecting(g)
CrossedAt(c) == IF c \in DOMAIN clients THEN [clients EXCEPT ![c].crossed = TRUE] ELSE clients

----------------------------------------------------------------------------
(* connect.                                                                *)

Connect(h, host) ==
  /\ handler[h] = Idle /\ uses < MaxUses
  /\ config' = host
  /\ handler' = [g \in Handlers |->
       CASE g = h -> [pc |-> IF isConnected THEN "use" ELSE "cache", host |-> host,
                      on |-> 0, attempts |-> 0, path |-> Nowhere, alone |-> Alone(h)]
         [] g # h /\ handler[g] # Idle -> [handler[g] EXCEPT !.alone = FALSE]
         [] OTHER -> Idle]
  /\ clients' = [c \in DOMAIN clients |-> [clients[c] EXCEPT !.crossed =
                   @ \/ \E g \in Handlers : Connecting(g) /\ handler[g].on = c]]
  /\ uses' = uses + 1
  /\ UNCHANGED <<client, forgetting, faults, stray>>

\* The client that was found broken before the cache was asked is replaced, whatever
\* it is by now.
NewClient(h) ==
  /\ handler[h].pc = "cache" /\ Len(clients) < MaxClients
  /\ clients' = Append(clients,
       [host |-> Nowhere, up |-> FALSE, listens |-> FALSE, left |-> FALSE,
        crossed |-> \E g \in Handlers \ {h} : Connecting(g)])
  /\ client' = Len(clients) + 1
  /\ handler' = [handler EXCEPT ![h].pc = "asking", ![h].on = client', ![h].attempts = 1]
  /\ UNCHANGED <<config, forgetting, uses, faults, stray>>

\* The server answers the connect of the client it was called on.
Answered(h) ==
  /\ handler[h].pc = "asking" /\ handler[h].on # 0 /\ ~clients[handler[h].on].up
  /\ clients' = [clients EXCEPT ![handler[h].on].up = TRUE,
                                ![handler[h].on].host = handler[h].host]
  /\ Goto(h, "save")
  /\ UNCHANGED <<config, client, forgetting, uses, faults, stray>>

\* connectWithRetry: some codes and messages end it, and so does the last attempt.
GivesUp(h) == handler[h].attempts > retries

Refused(h) ==
  /\ handler[h].pc = "asking"
  /\ IF handler[h].on # 0 /\ ~clients[handler[h].on].up
       THEN /\ Fault
            /\ \E fatal \in BOOLEAN : Goto(h, IF fatal \/ GivesUp(h) THEN "threw" ELSE "waiting")
       ELSE /\ Goto(h, IF GivesUp(h) THEN "threw" ELSE "waiting")   \* no client, or one in use
            /\ UNCHANGED faults
  /\ UNCHANGED <<config, client, clients, forgetting, uses, stray>>

\* After the delay: the client is the one the service holds by then.
Retry(h) ==
  /\ handler[h].pc = "waiting"
  /\ handler' = [handler EXCEPT ![h].pc = "asking", ![h].on = client, ![h].attempts = @ + 1]
  /\ UNCHANGED <<config, client, clients, forgetting, uses, faults, stray>>

\* Once the cache has the id; without a client this throws.
addListeners(h) ==
  /\ handler[h].pc = "save"
  /\ IF client = 0
       THEN Goto(h, "threw") /\ UNCHANGED clients
       ELSE /\ clients' = [clients EXCEPT ![client].listens = TRUE]
            /\ Goto(h, "use")
  /\ UNCHANGED <<config, client, forgetting, uses, faults, stray>>

----------------------------------------------------------------------------
(* writeFile, disconnect.                                                  *)

\* exists: false without a connection, and then the path is empty
exists == isConnected

getFullPathOrFail(h) ==
  /\ handler[h].pc = "use"
  /\ \E path \in {Nowhere} \cup (IF exists THEN {config} ELSE {}) :
       handler' = [handler EXCEPT ![h].pc = "put", ![h].path = path]
  /\ UNCHANGED <<config, client, clients, forgetting, uses, faults, stray>>

Elsewhere(h) ==
  \/ clients[client].host # handler[h].host
  \/ handler[h].path \notin {handler[h].host, Nowhere}

writeFile(h) ==
  /\ handler[h].pc = "put"
  /\ IF isConnected
       THEN /\ stray' = (stray \/ (handler[h].alone /\ Elsewhere(h)))
            /\ Goto(h, "wrote")
       ELSE Goto(h, "threw") /\ UNCHANGED stray
  /\ UNCHANGED <<config, client, clients, forgetting, uses, faults>>

\* Variant: the connection is kept for the next handler.
EndsNothing == clients
End == IF isConnected THEN [clients EXCEPT ![client].up = FALSE] ELSE clients

disconnect(h) ==
  /\ handler[h].pc \in {"wrote", "threw"}
  /\ clients' = End
  /\ handler' = [handler EXCEPT ![h] = Idle]
  /\ UNCHANGED <<config, client, forgetting, uses, faults, stray>>

----------------------------------------------------------------------------
(* The world around.                                                       *)

\* A handler ends without disconnect.
Leave(h) ==
  /\ handler[h].pc \in {"wrote", "threw"} /\ Fault
  /\ clients' = IF isConnected THEN [clients EXCEPT ![client].left = TRUE] ELSE clients
  /\ handler' = [handler EXCEPT ![h] = Idle]
  /\ UNCHANGED <<config, client, forgetting, uses, stray>>

\* A connection breaks.
Break(c) ==
  /\ clients[c].up /\ Fault
  /\ clients' = [clients EXCEPT ![c].up = FALSE]
  /\ forgetting' = IF clients[c].listens THEN forgetting + 1 ELSE forgetting
  /\ UNCHANGED <<config, client, handler, uses, stray>>

\* The error listener, after it has awaited the cache: it forgets the client the
\* service holds by then.
Forget ==
  /\ forgetting > 0
  /\ forgetting' = forgetting - 1
  /\ client' = 0
  /\ clients' = CrossedAt(client)
  /\ UNCHANGED <<config, handler, uses, faults, stray>>

Next ==
  \/ \E h \in Handlers :
       \/ \E host \in Hosts : Connect(h, host)
       \/ NewClient(h) \/ Answered(h) \/ Refused(h) \/ Retry(h) \/ addListeners(h)
       \/ getFullPathOrFail(h) \/ writeFile(h) \/ disconnect(h) \/ Leave(h)
  \/ \E c \in DOMAIN clients : Break(c)
  \/ Forget

Spec == Init /\ [][Next]_vars

----------------------------------------------------------------------------
\* Handlers that follow one another write to their own host and under its base path,
\* although connect returns whatever connection there is (sftp-middleware.service.ts:83):
\* only one that overlaps with others, or comes after one that did not disconnect,
\* writes elsewhere.
OwnHost == ~stray

\* No connection is left open that the service has lost hold of, and which nothing
\* would ever close, unless connects overlapped or a listener forgot it
\* (sftp-middleware.service.ts:97, :123).
NoneLost ==
  \A c \in DOMAIN clients : clients[c].up /\ c # client => clients[c].crossed

\* Both.
SessionsHold == OwnHost /\ NoneLost
================================================================================
