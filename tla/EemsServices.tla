---------------------------- MODULE EemsServices ----------------------------
(***************************************************************************)
(* The serving process: run_server, run_service and the signal handler of  *)
(* main() on the one thread of the io_context, with the coroutines of the  *)
(* connections that run_server spawns.                                     *)
(*                                                                         *)
(* ready is the queue of the io_context.  The thread takes its head and    *)
(* runs it to its next suspension: one action.  An operation a coroutine   *)
(* waits for completes by putting it at the tail.  An exception out of a   *)
(* coroutine goes to net::detached, which drops it.                        *)
(*                                                                         *)
(* A connection is HttpConnection seen from the io_context: it waits for a *)
(* request or for its peer to read, or it is in a body whose file has      *)
(* ended ("spin"), where each round writes nothing and completes at once.  *)
(***************************************************************************)
EXTENDS Configuration, Functions

CONSTANTS Conn,          \* the connections peers may make, each of them once
          Tables,        \* the [server] tables the file may have
          Host,          \* what net::ip::host_name() returns
          FreePorts,     \* what the system may choose for port 0
          Datagrams      \* what may arrive at the multicast socket

ASSUME ConnAssumption == Conn \intersect {"server", "discovery", "signals"} = {}
ASSUME PortsAssumption == /\ FreePorts \subseteq 0 .. PortModulus - 1
                          /\ \A table \in Tables : table.port \in Int

VARIABLES process,   \* "running" or "exited"
          ready,     \* the coroutines and handlers that can go on
          at,        \* what each of them waits for, or will do when it goes on
          config,    \* config.server, shared by all services
          acceptor,  \* {port} while the acceptor is open
          backlog,   \* the connections that are not yet accepted
          expired,   \* the spinning connections whose timer has run out
          arriving,  \* the datagrams that have not arrived
          inbox,     \* the datagrams in the buffer of the multicast socket
          response,  \* what run_service is sending: {answer}
          answers    \* the answers that were sent

netVars == <<acceptor, backlog, expired>>
discoveryVars == <<arriving, inbox, response, answers>>
vars == <<process, ready, at, config, netVars, discoveryVars>>

Task == {"server", "discovery", "signals"} \union Conn

(* co_spawn posts the first step of each coroutine, in the order of main(). *)
Init ==
    /\ process = "running"
    /\ ready = <<"server", "discovery">>
    /\ at = [t \in Task |-> IF t \in Conn THEN "none" ELSE "start"]
    /\ \E table \in Tables : config = LoadServerConfig(table, Host)
    /\ acceptor = {}
    /\ backlog = <<>>
    /\ expired = {}
    /\ arriving = Datagrams
    /\ inbox = <<>>
    /\ response = {}
    /\ answers = {}

-----------------------------------------------------------------------------
Queued(t) == \E i \in DOMAIN ready : ready[i] = t

Resumes(t, state) == /\ process = "running"
                     /\ ready # <<>>
                     /\ Head(ready) = t
                     /\ at[t] = state

(* The task gives up the thread until an operation completes, or for ever. *)
Suspend(t, state) == /\ ready' = Tail(ready)
                     /\ at' = [at EXCEPT ![t] = state]

(* An operation that t waits for in the given state completes. *)
Completes(t, state) == /\ process = "running"
                       /\ at[t] = state
                       /\ ~Queued(t)
                       /\ ready' = Append(ready, t)

-----------------------------------------------------------------------------
(***************************************************************************)
(* run_server.  The configuration gets the port the acceptor was given and *)
(* the address made from it, before the first suspension.                  *)
(***************************************************************************)
Url(host, port) == [host |-> host, port |-> port]

(* A variant with a seeded fault: the address is made from the old port.   *)
UrlFirst(port) ==
    [config EXCEPT !.listen_port = port, !.base_url = Url(config.host_name, config.listen_port)]

Listening(port) ==
    [config EXCEPT !.listen_port = port, !.base_url = Url(config.host_name, port)]

BoundPorts == IF config.listen_port = 0 THEN FreePorts ELSE {config.listen_port}

ServerListens ==
    /\ Resumes("server", "start")
    /\ \E port \in BoundPorts : acceptor' = {port} /\ config' = Listening(port)
    /\ Suspend("server", "accept")
    /\ UNCHANGED <<process, backlog, expired, discoveryVars>>

(* The port is taken: the constructor of the acceptor throws. *)
ListenFails ==
    /\ Resumes("server", "start")
    /\ Suspend("server", "ended")
    /\ UNCHANGED <<process, config, netVars, discoveryVars>>

(* A variant with a seeded fault: the coroutine is made but not spawned.   *)
AcceptsUnspawned ==
    /\ Resumes("server", "accept")
    /\ backlog' = Tail(backlog)
    /\ Suspend(Head(backlog), "start")
    /\ UNCHANGED <<process, config, acceptor, expired, discoveryVars>>

(* The new coroutine runs to its first read at once, or in its turn. *)
ServerAccepts ==
    /\ Resumes("server", "accept")
    /\ backlog' = Tail(backlog)
    /\ \/ at' = [at EXCEPT ![Head(backlog)] = "read"] /\ ready' = Tail(ready)
       \/ /\ at' = [at EXCEPT ![Head(backlog)] = "start"]
          /\ ready' = Append(Tail(ready), Head(backlog))
    /\ UNCHANGED <<process, config, acceptor, expired, discoveryVars>>

(* A variant with a seeded fault: the acceptor outlives the coroutine.     *)
AcceptFailsOpen ==
    /\ Resumes("server", "accept")
    /\ Suspend("server", "ended")
    /\ UNCHANGED <<process, config, netVars, discoveryVars>>

(* async_accept throws: the acceptor is closed, and resets its backlog. *)
AcceptFails ==
    /\ Resumes("server", "accept")
    /\ ready' = Tail(ready)
    /\ at' = [t \in Task |-> IF t = "server" THEN "ended"
                             ELSE IF at[t] = "backlog" THEN "reset" ELSE at[t]]
    /\ acceptor' = {}
    /\ backlog' = <<>>
    /\ UNCHANGED <<process, config, expired, discoveryVars>>

-----------------------------------------------------------------------------
(***************************************************************************)
(* run_service and handle_request.  A datagram is [sender, request], and a *)
(* request that can be parsed [method, target, man, st]; one that cannot   *)
(* is Malformed and throws.                                                *)
(***************************************************************************)
Malformed == [method |-> "", target |-> "", man |-> "", st |-> ""]

SearchTargets == {"upnp:rootdevice", "urn:schemas-upnp-org:device:MediaServer:1"}

IsSearch(req) == /\ req.method = "M-SEARCH"
                 /\ req.target = "*"
                 /\ req.man = "ssdp:discover"
                 /\ req.st \in SearchTargets

ResponseTo(datagram) ==
    [to |-> datagram.sender, location |-> config.base_url, uuid |-> config.uuid,
     st |-> datagram.request.st]

DiscoveryJoins ==
    /\ Resumes("discovery", "start")
    /\ Suspend("discovery", "receive")
    /\ UNCHANGED <<process, config, netVars, discoveryVars>>

(* Another program has port 1900 for itself, or there is no multicast. *)
JoinFails ==
    /\ Resumes("discovery", "start")
    /\ Suspend("discovery", "ended")
    /\ UNCHANGED <<process, config, netVars, discoveryVars>>

(* async_receive_from throws: the network went away, for example. *)
ReceiveFails ==
    /\ Resumes("discovery", "receive")
    /\ Suspend("discovery", "ended")
    /\ UNCHANGED <<process, config, netVars, discoveryVars>>

DiscoveryReceives ==
    LET req == Head(inbox).request
    IN  /\ Resumes("discovery", "receive")
        /\ inbox' = Tail(inbox)
        /\ \/ /\ req = Malformed
              /\ Suspend("discovery", "ended")
              /\ UNCHANGED response
           \/ /\ req # Malformed
              /\ ~IsSearch(req)
              /\ Suspend("discovery", "receive")
              /\ UNCHANGED response
           \/ /\ IsSearch(req)
              /\ Suspend("discovery", "send")
              /\ response' = {ResponseTo(Head(inbox))}
        /\ UNCHANGED <<process, config, netVars, arriving, answers>>

DiscoverySends ==
    /\ Resumes("discovery", "send")
    /\ response' = {}
    /\ \/ Suspend("discovery", "receive") /\ answers' = answers \union response
       \/ Suspend("discovery", "ended") /\ UNCHANGED answers
    /\ UNCHANGED <<process, config, netVars, arriving, inbox>>

-----------------------------------------------------------------------------
(***************************************************************************)
(* handle_connections, as far as it takes turns with the others.           *)
(***************************************************************************)
ConnectionStarts(c) ==
    /\ Resumes(c, "start")
    /\ Suspend(c, "read")
    /\ UNCHANGED <<process, config, netVars, discoveryVars>>

ConnectionAnswers(c) ==
    /\ Resumes(c, "read")
    /\ Suspend(c, "write")
    /\ UNCHANGED <<process, config, netVars, discoveryVars>>

(* What was written was a chunk, the end of the response, or of the file. *)
ConnectionGoesOn(c) ==
    /\ Resumes(c, "write")
    /\ \/ Suspend(c, "write")
       \/ Suspend(c, "read")
       \/ /\ ready' = Append(Tail(ready), c)
          /\ at' = [at EXCEPT ![c] = "spin"]
    /\ UNCHANGED <<process, config, netVars, discoveryVars>>

(* A variant with a seeded fault: nothing to write, so no co_await.        *)
RoundWithoutWrite(c) == UNCHANGED <<ready, at>>

(* The empty write completes at once, and fails once the timer has run out. *)
EndOfFileRound(c) ==
    IF c \in expired THEN Suspend(c, "closed")
    ELSE ready' = Append(Tail(ready), c) /\ UNCHANGED at

ConnectionSpins(c) ==
    /\ Resumes(c, "spin")
    /\ EndOfFileRound(c)
    /\ UNCHANGED <<process, config, netVars, discoveryVars>>

ConnectionEnds(c) ==
    /\ Resumes(c, "failed")
    /\ Suspend(c, "closed")
    /\ UNCHANGED <<process, config, netVars, discoveryVars>>

(* The handler of SIGINT and SIGTERM: io_context.stop(), and main returns. *)
SignalHandled ==
    /\ Resumes("signals", "start")
    /\ Suspend("signals", "ended")
    /\ process' = "exited"
    /\ UNCHANGED <<config, netVars, discoveryVars>>

Connection(c) == \/ ConnectionStarts(c)
                 \/ ConnectionAnswers(c)
                 \/ ConnectionGoesOn(c)
                 \/ ConnectionSpins(c)
                 \/ ConnectionEnds(c)

Run == \/ ServerListens
       \/ ListenFails
       \/ ServerAccepts
       \/ AcceptFails
       \/ DiscoveryJoins
       \/ JoinFails
       \/ ReceiveFails
       \/ DiscoveryReceives
       \/ DiscoverySends
       \/ \E c \in Conn : Connection(c)
       \/ SignalHandled

-----------------------------------------------------------------------------
(***************************************************************************)
(* The system underneath and the peers: operations complete, connections   *)
(* and datagrams come in, peers read or go away, time passes.              *)
(***************************************************************************)
AcceptCompletes ==
    /\ Completes("server", "accept")
    /\ backlog # <<>>
    /\ UNCHANGED <<process, at, config, netVars, discoveryVars>>

ReceiveCompletes ==
    /\ Completes("discovery", "receive")
    /\ inbox # <<>>
    /\ UNCHANGED <<process, at, config, netVars, discoveryVars>>

SendCompletes ==
    /\ Completes("discovery", "send")
    /\ UNCHANGED <<process, at, config, netVars, discoveryVars>>

PeerConnects(c) ==
    /\ process = "running"
    /\ acceptor # {}
    /\ at[c] = "none"
    /\ at' = [at EXCEPT ![c] = "backlog"]
    /\ backlog' = Append(backlog, c)
    /\ UNCHANGED <<process, ready, config, acceptor, expired, discoveryVars>>

(* A request arrives, or the peer reads what was written. *)
PeerGoesOn(c) ==
    /\ Completes(c, "read") \/ Completes(c, "write")
    /\ UNCHANGED <<process, at, config, netVars, discoveryVars>>

(* The peer closes or resets, or the timer runs out. *)
PeerFails(c) ==
    /\ Completes(c, "read") \/ Completes(c, "write")
    /\ at' = [at EXCEPT ![c] = "failed"]
    /\ UNCHANGED <<process, config, netVars, discoveryVars>>

TimeRunsOut(c) ==
    /\ process = "running"
    /\ at[c] = "spin"
    /\ c \notin expired
    /\ expired' = expired \union {c}
    /\ UNCHANGED <<process, ready, at, config, acceptor, backlog, discoveryVars>>

(* Datagrams come in any order, and some never. *)
DatagramArrives ==
    /\ process = "running"
    /\ at["discovery"] \in {"receive", "send"}
    /\ \E d \in arriving : arriving' = arriving \ {d} /\ inbox' = Append(inbox, d)
    /\ UNCHANGED <<process, ready, at, config, netVars, response, answers>>

Signal ==
    /\ Completes("signals", "start")
    /\ UNCHANGED <<process, at, config, netVars, discoveryVars>>

Peers == \/ \E c \in Conn : PeerConnects(c) \/ PeerGoesOn(c) \/ PeerFails(c) \/ TimeRunsOut(c)
         \/ DatagramArrives
         \/ Signal

Next == \/ Run
        \/ AcceptCompletes
        \/ ReceiveCompletes
        \/ SendCompletes
        \/ Peers

Spec == Init /\ [][Next]_vars

(***************************************************************************)
(* The thread goes on as long as something is queued, the system completes *)
(* what it can, and time passes.  Peers need do nothing.                   *)
(***************************************************************************)
Fairness == /\ WF_vars(Run)
            /\ WF_vars(AcceptCompletes)
            /\ WF_vars(ReceiveCompletes)
            /\ WF_vars(SendCompletes)
            /\ \A c \in Conn : WF_vars(TimeRunsOut(c))

FairSpec == Spec /\ Fairness

-----------------------------------------------------------------------------
TypeOK ==
    /\ process \in {"running", "exited"}
    /\ ready \in Seq(Task)
    /\ at \in [Task -> {"start", "accept", "receive", "send", "ended", "none", "backlog",
                        "read", "write", "spin", "failed", "closed", "reset"}]
    /\ config.listen_port \in 0 .. PortModulus - 1
    /\ acceptor \subseteq 0 .. PortModulus - 1
    /\ backlog \in Seq(Conn)
    /\ expired \subseteq Conn
    /\ arriving \subseteq Datagrams
    /\ inbox \in Seq(Datagrams)

(***************************************************************************)
(* What discovery told anyone is the address in the configuration: the one *)
(* the server is bound to, for as long as the accept loop runs.  When the  *)
(* loop has ended, it is the address it had, or none at all if it never    *)
(* listened.  The identity is that of the device description found there,  *)
(* and what was answered is a search of the one who asked (run_server,     *)
(* handle_request, root_device_description).                               *)
(***************************************************************************)
RootDevice == [url_base |-> config.base_url, friendly_name |-> config.name, udn |-> config.uuid]

ServerUrl == Url(config.host_name, config.listen_port)

AnswersTrue ==
    \A a \in answers :
        /\ at["server"] = "accept" => acceptor = {config.listen_port} /\ a.location = ServerUrl
        /\ a.location \in {NoUrl, ServerUrl}
        /\ a.location = RootDevice.url_base
        /\ a.uuid = RootDevice.udn
        /\ \E d \in Datagrams \ arriving :
              d.sender = a.to /\ IsSearch(d.request) /\ d.request.st = a.st

(***************************************************************************)
(* Nothing is lost on its way through the coroutines.  A search that was   *)
(* received waits in the socket, is being answered or was, until discovery *)
(* ends; a connection that was made waits in the backlog, and one that has *)
(* nothing to wait for has a turn to come (run_service, run_server,        *)
(* handle_connections).  The two properties below rest on it.              *)
(***************************************************************************)
SearchesKept ==
    at["discovery"] # "ended" =>
        \A d \in Datagrams \ arriving :
            IsSearch(d.request) =>
                \/ d \in Range(inbox)
                \/ \E a \in response \union answers : a.to = d.sender /\ a.st = d.request.st

ConnectionsKept ==
    \A c \in Conn : /\ at[c] = "backlog" => c \in Range(backlog)
                    /\ at[c] \in {"start", "spin", "failed"} => Queued(c)

NothingForgotten == SearchesKept /\ ConnectionsKept

(***************************************************************************)
(* A search that was received is answered, unless discovery has ended or   *)
(* the process exits: no connection keeps it from its turn.                *)
(***************************************************************************)
SearchAnswered ==
    \A d \in Datagrams :
        (IsSearch(d.request) /\ \E i \in DOMAIN inbox : inbox[i] = d)
            ~> (\/ \E a \in answers : a.to = d.sender
                \/ at["discovery"] = "ended"
                \/ process = "exited")

(***************************************************************************)
(* A connection that was made is not left waiting by the others: it is     *)
(* accepted, and its coroutine waits for a request; or an accept failed    *)
(* before its turn, with an exception that ends the loop, and the acceptor *)
(* closed and reset it, never accepted; or the process exits (run_server). *)
(***************************************************************************)
AcceptedOrReset ==
    \A c \in Conn : (at[c] = "backlog") ~> \/ at[c] = "read"
                                           \/ at[c] = "reset" /\ at["server"] = "ended"
                                           \/ process = "exited"

(* A signal ends the process, whatever the connections are doing. *)
SignalEnds == Queued("signals") ~> (process = "exited")

(***************************************************************************)
(* server.cpp says of the update of the configuration that "now it's       *)
(* single-threaded so other services won' access it": nobody is told an    *)
(* address before there is one.                                            *)
(***************************************************************************)
AnnouncedWhenListening == \A a \in answers : a.location # NoUrl
=============================================================================
