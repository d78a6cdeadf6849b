--------------------------- MODULE ServicesProofs ---------------------------
(***************************************************************************)
(* What discovery announces is true, and nothing is forgotten, for any     *)
(* number of connections, any configuration and any datagrams.             *)
(***************************************************************************)
EXTENDS EemsServices, TLAPS, SequenceTheorems

ConfigOK ==
    config = [listen_port |-> config.listen_port, host_name |-> config.host_name,
              name |-> config.name, uuid |-> config.uuid, base_url |-> config.base_url]

(***************************************************************************)
(* Nothing is in a queue twice, so that the thread gives a task one turn   *)
(* for each operation that completed: what the operation completed with is *)
(* still there when the task goes on.                                      *)
(***************************************************************************)
QueuesOK ==
    /\ IsInjective(ready)
    /\ IsInjective(backlog)
    /\ \A c \in Conn : c \in Range(backlog) => at[c] = "backlog"
    /\ \A c \in Conn : at[c] \in {"none", "backlog", "closed", "reset"} => c \notin Range(ready)
    /\ at["server"] = "accept" /\ "server" \in Range(ready) => backlog # <<>>
    /\ at["discovery"] = "receive" /\ "discovery" \in Range(ready) => inbox # <<>>

(* The server is the first to run: nothing has been said until it has. *)
ServerFirst ==
    at["server"] = "start" => /\ ready # <<>>
                              /\ Head(ready) = "server"
                              /\ at["discovery"] = "start"
                              /\ acceptor = {}
                              /\ response = {}
                              /\ answers = {}

(* From then on the configuration stays as it is. *)
TrueAnswer(a) ==
    /\ a.location = config.base_url
    /\ a.uuid = config.uuid
    /\ \E d \in Datagrams \ arriving :
          d.sender = a.to /\ IsSearch(d.request) /\ d.request.st = a.st

(* The address is complete before the accept loop runs, and none before.   *)
AddressTrue ==
    /\ at["server"] = "accept" => acceptor = {config.listen_port} /\ config.base_url = ServerUrl
    /\ config.base_url \in {NoUrl, ServerUrl}

AllTrue ==
    /\ AddressTrue
    /\ Range(inbox) \intersect arriving = {}
    /\ \A a \in answers \union response : TrueAnswer(a)

Inv == TypeOK /\ ConfigOK /\ QueuesOK /\ ServerFirst /\ AllTrue

-----------------------------------------------------------------------------
(***************************************************************************)
(* Taking the head of a queue, and putting something new at its tail.      *)
(***************************************************************************)
LEMMA HeadTaken ==
    ASSUME NEW S, NEW q \in Seq(S), q # <<>>
    PROVE  /\ Tail(q) \in Seq(S)
           /\ Head(q) \in S
           /\ Head(q) \in Range(q)
           /\ IsInjective(q) => IsInjective(Tail(q))
           /\ \A t : t \in Range(Tail(q)) => t \in Range(q)
           /\ IsInjective(q) => Head(q) \notin Range(Tail(q))
           /\ \A t : t \in Range(q) => t = Head(q) \/ t \in Range(Tail(q))
<1>1. Len(q) \in Nat \ {0} /\ DOMAIN q = 1 .. Len(q) /\ Head(q) = q[1]
  BY LenProperties, EmptySeq, HeadTailProperties
<1>2. /\ Tail(q) \in Seq(S)
      /\ Head(q) \in S
      /\ DOMAIN Tail(q) = 1 .. Len(q) - 1
      /\ \A i \in 1 .. Len(q) - 1 : Tail(q)[i] = q[i + 1]
  BY HeadTailProperties, LenProperties
<1>3. \A t : t \in Range(q) => t = Head(q) \/ t \in Range(Tail(q))
  <2> SUFFICES ASSUME NEW i \in 1 .. Len(q), i # 1
               PROVE  q[i] \in Range(Tail(q))
    BY <1>1 DEF Range
  <2>1. i - 1 \in DOMAIN Tail(q) /\ Tail(q)[i - 1] = q[i]
    BY <1>1, <1>2
  <2> QED
    BY <2>1 DEF Range
<1>4. \A i \in DOMAIN Tail(q) : i + 1 \in DOMAIN q /\ i + 1 # 1 /\ Tail(q)[i] = q[i + 1]
  BY <1>1, <1>2
<1>5. 1 \in DOMAIN q
  BY <1>1
<1>6. IsInjective(q) => IsInjective(Tail(q))
  BY <1>2, <1>4 DEF IsInjective
<1>7. \A t : t \in Range(Tail(q)) => t \in Range(q)
  BY <1>4 DEF Range
<1>8. IsInjective(q) => Head(q) \notin Range(Tail(q))
  BY <1>1, <1>4, <1>5 DEF IsInjective, Range
<1>9. Head(q) \in Range(q)
  BY <1>1, <1>5 DEF Range
<1> QED
  BY <1>2, <1>3, <1>6, <1>7, <1>8, <1>9

LEMMA TailPut ==
    ASSUME NEW S, NEW q \in Seq(S), NEW t \in S
    PROVE  /\ Append(q, t) \in Seq(S)
           /\ Append(q, t) # <<>>
           /\ q # <<>> => Head(Append(q, t)) = Head(q)
           /\ IsInjective(q) /\ t \notin Range(q) => IsInjective(Append(q, t))
           /\ \A u : u \in Range(Append(q, t)) <=> u \in Range(q) \/ u = t
<1>1. /\ Len(q) \in Nat
      /\ DOMAIN q = 1 .. Len(q)
      /\ q # <<>> => Len(q) # 0 /\ Head(q) = q[1]
  BY LenProperties, EmptySeq, HeadTailProperties
<1>2. /\ Append(q, t) \in Seq(S)
      /\ Append(q, t) # <<>>
      /\ DOMAIN Append(q, t) = 1 .. Len(q) + 1
      /\ \A i \in 1 .. Len(q) : Append(q, t)[i] = q[i]
      /\ Append(q, t)[Len(q) + 1] = t
      /\ Head(Append(q, t)) = Append(q, t)[1]
  <2>1. /\ Append(q, t) \in Seq(S)
        /\ Append(q, t) # <<>>
        /\ Len(Append(q, t)) = Len(q) + 1
        /\ \A i \in 1 .. Len(q) : Append(q, t)[i] = q[i]
        /\ Append(q, t)[Len(q) + 1] = t
    BY AppendProperties
  <2> QED
    BY <2>1, LenProperties, HeadTailProperties
<1>3. \A i \in DOMAIN Append(q, t) : i \in DOMAIN q \/ i = Len(q) + 1
  BY <1>1, <1>2
<1>4. q # <<>> => Head(Append(q, t)) = Head(q)
  BY <1>1, <1>2
<1>5. \A u : u \in Range(Append(q, t)) <=> u \in Range(q) \/ u = t
  <2>1. ASSUME NEW i \in DOMAIN q PROVE i \in DOMAIN Append(q, t) /\ Append(q, t)[i] = q[i]
    BY <1>1, <1>2
  <2>2. Len(q) + 1 \in DOMAIN Append(q, t)
    BY <1>1, <1>2
  <2> QED
    BY <1>1, <1>2, <1>3, <2>1, <2>2 DEF Range
<1>6. IsInjective(q) /\ t \notin Range(q) => IsInjective(Append(q, t))
  BY <1>1, <1>2, <1>3 DEF IsInjective, Range
<1> QED
  BY <1>2, <1>4, <1>5, <1>6

-----------------------------------------------------------------------------
LEMMA TaskNames ==
    /\ {"server", "discovery", "signals"} \subseteq Task
    /\ Conn \subseteq Task
    /\ \A c \in Conn : c # "server" /\ c # "discovery" /\ c # "signals"
  BY ConnAssumption DEF Task

LEMMA TaskStates ==
    ASSUME Inv, NEW t \in Task, NEW new, at' = [at EXCEPT ![t] = new]
    PROVE  /\ at'[t] = new
           /\ \A u \in Task : u # t => at'[u] = at[u]
           /\ \A c \in Conn : c # t => at'[c] = at[c]
  BY TaskNames DEF Inv, TypeOK

(* The task that is given the thread leaves the queue. *)
LEMMA TurnTaken ==
    ASSUME Inv, NEW t \in Task, NEW state, Resumes(t, state)
    PROVE  /\ Tail(ready) \in Seq(Task)
           /\ IsInjective(Tail(ready))
           /\ \A u : u \in Range(Tail(ready)) => u \in Range(ready)
           /\ t \in Range(ready)
           /\ t \notin Range(Tail(ready))
           /\ t # "server" => at["server"] # "start"
<1>1. ready \in Seq(Task) /\ ready # <<>> /\ Head(ready) = t /\ IsInjective(ready)
  BY DEF Inv, TypeOK, QueuesOK, Resumes
<1>2. t # "server" => at["server"] # "start"
  BY <1>1 DEF Inv, ServerFirst
<1> QED
  BY <1>1, <1>2, HeadTaken

(* A task that is not queued can be put at the tail. *)
LEMMA ReadyPut ==
    ASSUME NEW q \in Seq(Task), NEW t \in Task, IsInjective(q), t \notin Range(q)
    PROVE  /\ Append(q, t) \in Seq(Task)
           /\ IsInjective(Append(q, t))
           /\ \A u : u \in Range(Append(q, t)) <=> u \in Range(q) \/ u = t
           /\ q # <<>> => Head(Append(q, t)) = Head(q)
           /\ Append(q, t) # <<>>
  BY TailPut

(* What was said remains true while nothing that it is about changes. *)
LEMMA NothingSaid ==
    ASSUME Inv, UNCHANGED <<config, acceptor, arriving, inbox, response, answers>>,
           at'["server"] = "accept" => at["server"] = "accept"
    PROVE  ConfigOK' /\ AllTrue'
  BY DEF Inv, ConfigOK, AllTrue, AddressTrue, ServerUrl, TrueAnswer

(***************************************************************************)
(* A connection has its turn, and waits, goes to the tail or ends.         *)
(***************************************************************************)
LEMMA ConnectionTurn ==
    ASSUME Inv, NEW c \in Conn, NEW old, Resumes(c, old),
           NEW new \in {"read", "write", "spin", "closed"},
           at' = [at EXCEPT ![c] = new],
           \/ ready' = Tail(ready)
           \/ ready' = Append(Tail(ready), c) /\ new # "closed",
           UNCHANGED <<process, config, netVars, discoveryVars>>
    PROVE  Inv'
<1>1. c \in Task /\ c # "server" /\ c # "discovery"
  BY TaskNames
<1>2. /\ Tail(ready) \in Seq(Task) /\ IsInjective(Tail(ready))
      /\ \A u : u \in Range(Tail(ready)) => u \in Range(ready)
      /\ c \in Range(ready) /\ c \notin Range(Tail(ready))
      /\ at["server"] # "start"
  BY <1>1, TurnTaken
<1>3. /\ ready' \in Seq(Task) /\ IsInjective(ready')
      /\ \A u : u \in Range(ready') => u \in Range(ready)
      /\ new = "closed" => c \notin Range(ready')
  <2>1. CASE ready' = Tail(ready)
    BY <1>2, <2>1
  <2>2. CASE ready' = Append(Tail(ready), c) /\ new # "closed"
    <3>1. /\ Append(Tail(ready), c) \in Seq(Task)
          /\ IsInjective(Append(Tail(ready), c))
          /\ \A u : u \in Range(Append(Tail(ready), c)) <=> u \in Range(Tail(ready)) \/ u = c
      BY <1>1, <1>2, ReadyPut
    <3> QED
      BY <1>2, <2>2, <3>1
  <2> QED
    BY <2>1, <2>2
<1>4. at \in [Task -> {"start", "accept", "receive", "send", "ended", "none", "backlog",
                       "read", "write", "spin", "failed", "closed", "reset"}]
  BY DEF Inv, TypeOK
<1>5. c \notin Range(backlog)
  <2>1. at[c] # "backlog"
    BY <1>2 DEF Inv, QueuesOK
  <2> QED
    BY <2>1 DEF Inv, QueuesOK
<1>6. UNCHANGED <<config, acceptor, backlog, expired, arriving, inbox, response, answers>>
  BY DEF netVars, discoveryVars
<1>7. TypeOK'
  BY <1>1, <1>3, <1>4, <1>6 DEF Inv, TypeOK
<1>8. QueuesOK'
  <2>1. /\ IsInjective(ready') /\ IsInjective(backlog')
    BY <1>3, <1>6 DEF Inv, QueuesOK
  <2>2. \A d \in Conn : d \in Range(backlog') => at'[d] = "backlog"
    BY <1>1, <1>4, <1>5, <1>6, TaskNames DEF Inv, QueuesOK
  <2>3. \A d \in Conn : at'[d] \in {"none", "backlog", "closed", "reset"} => d \notin Range(ready')
    BY <1>1, <1>3, <1>4, TaskNames DEF Inv, QueuesOK
  <2>4. at'["server"] = at["server"] /\ at'["discovery"] = at["discovery"]
    BY <1>1, <1>4, TaskNames
  <2> QED
    BY <1>3, <1>6, <2>1, <2>2, <2>3, <2>4 DEF Inv, QueuesOK
<1>9. ServerFirst'
  BY <1>1, <1>2, <1>4, TaskNames DEF ServerFirst
<1>10. at'["server"] = at["server"]
  BY <1>1, <1>4, TaskNames
<1> QED
  BY <1>6, <1>7, <1>8, <1>9, <1>10, NothingSaid DEF Inv

(***************************************************************************)
(* An operation completes: its task is queued, and finds what it waits for.*)
(***************************************************************************)
LEMMA Completion ==
    ASSUME Inv, NEW t \in Task, NEW old, Completes(t, old),
           old \notin {"none", "backlog", "closed", "reset"},
           at' = at \/ (t \in Conn /\ at' = [at EXCEPT ![t] = "failed"]),
           t = "server" => old = "accept" /\ backlog # <<>>,
           t = "discovery" /\ old = "receive" => inbox # <<>>,
           UNCHANGED <<process, config, netVars, discoveryVars>>
    PROVE  Inv'
<1>1. t \notin Range(ready) /\ at[t] = old /\ ready' = Append(ready, t)
  BY DEF Completes, Queued, Range
<1>2. ready \in Seq(Task) /\ IsInjective(ready)
  BY DEF Inv, TypeOK, QueuesOK
<1>3. /\ ready' \in Seq(Task) /\ IsInjective(ready')
      /\ \A u : u \in Range(ready') <=> u \in Range(ready) \/ u = t
      /\ ready # <<>> => Head(ready') = Head(ready)
      /\ ready' # <<>>
  BY <1>1, <1>2, ReadyPut
<1>4. at \in [Task -> {"start", "accept", "receive", "send", "ended", "none", "backlog",
                       "read", "write", "spin", "failed", "closed", "reset"}]
  BY DEF Inv, TypeOK
<1>5. ASSUME NEW u \in Task
      PROVE  at'[u] = at[u] \/ (u = t /\ t \in Conn /\ at'[u] = "failed")
  <2>1. CASE at' = at
    BY <2>1
  <2>2. CASE t \in Conn /\ at' = [at EXCEPT ![t] = "failed"]
    BY <1>4, <2>2
  <2> QED
    BY <2>1, <2>2
<1>11. at' \in [Task -> {"start", "accept", "receive", "send", "ended", "none", "backlog",
                         "read", "write", "spin", "failed", "closed", "reset"}]
  BY <1>4
<1>6. UNCHANGED <<process, config, acceptor, backlog, expired, arriving, inbox, response, answers>>
  BY DEF netVars, discoveryVars
<1>7. at'["server"] = at["server"] /\ at'["discovery"] = at["discovery"]
  BY <1>5, TaskNames
<1>8. TypeOK'
  BY <1>3, <1>6, <1>11 DEF Inv, TypeOK
<1>9. QueuesOK'
  <2>1. IsInjective(ready') /\ IsInjective(backlog')
    BY <1>3, <1>6 DEF Inv, QueuesOK
  <2>2. \A d \in Conn : d \in Range(backlog') => at'[d] = "backlog"
    BY <1>1, <1>5, <1>6, TaskNames DEF Inv, QueuesOK
  <2>3. \A d \in Conn : at'[d] \in {"none", "backlog", "closed", "reset"} => d \notin Range(ready')
    BY <1>1, <1>3, <1>5, TaskNames DEF Inv, QueuesOK
  <2>4. at'["server"] = "accept" /\ "server" \in Range(ready') => backlog' # <<>>
    BY <1>3, <1>6, <1>7 DEF Inv, QueuesOK
  <2>5. at'["discovery"] = "receive" /\ "discovery" \in Range(ready') => inbox' # <<>>
    BY <1>1, <1>3, <1>6, <1>7 DEF Inv, QueuesOK
  <2> QED
    BY <2>1, <2>2, <2>3, <2>4, <2>5 DEF QueuesOK
<1>10. ServerFirst'
  BY <1>3, <1>6, <1>7 DEF Inv, ServerFirst
<1> QED
  BY <1>6, <1>7, <1>8, <1>9, <1>10, NothingSaid DEF Inv

(***************************************************************************)
(* A task other than a connection has its turn and gives up the thread.    *)
(***************************************************************************)
LEMMA TaskTurn ==
    ASSUME Inv, NEW t \in {"server", "discovery", "signals"}, NEW old, Resumes(t, old),
           NEW new \in {"accept", "receive", "send", "ended"}, Suspend(t, new),
           UNCHANGED <<backlog, expired, arriving>>, t # "discovery" => inbox' = inbox,
           process' \in {"running", "exited"}, inbox' \in Seq(Datagrams),
           config'.listen_port \in 0 .. PortModulus - 1, acceptor' \subseteq 0 .. PortModulus - 1
    PROVE  TypeOK' /\ QueuesOK' /\ ServerFirst'
<1>1. /\ ready' = Tail(ready)
      /\ Tail(ready) \in Seq(Task) /\ IsInjective(Tail(ready))
      /\ \A u : u \in Range(Tail(ready)) => u \in Range(ready)
      /\ t \notin Range(Tail(ready))
      /\ t # "server" => at["server"] # "start"
  BY TaskNames, TurnTaken DEF Suspend
<1>2. at \in [Task -> {"start", "accept", "receive", "send", "ended", "none", "backlog",
                       "read", "write", "spin", "failed", "closed", "reset"}]
  BY DEF Inv, TypeOK
<1>3. t \in Task /\ at' = [at EXCEPT ![t] = new]
  BY TaskNames DEF Suspend
<1>4. /\ at' \in [Task -> {"start", "accept", "receive", "send", "ended", "none", "backlog",
                           "read", "write", "spin", "failed", "closed", "reset"}]
      /\ at'[t] = new
      /\ \A u \in Task : u # t => at'[u] = at[u]
  BY <1>2, <1>3
<1>5. at'["server"] # "start"
  BY <1>1, <1>4, TaskNames
<1>6. TypeOK'
  BY <1>1, <1>4 DEF Inv, TypeOK
<1>7. QueuesOK'
  <2>1. \A c \in Conn : c \in Task /\ c # t /\ at'[c] = at[c]
    BY <1>4, TaskNames
  <2>2. \A c \in Conn : c \in Range(backlog') => at'[c] = "backlog"
    BY <2>1 DEF Inv, QueuesOK
  <2>3. \A c \in Conn : at'[c] \in {"none", "backlog", "closed", "reset"} => c \notin Range(ready')
    BY <1>1, <2>1 DEF Inv, QueuesOK
  <2>4. at'["server"] = "accept" /\ "server" \in Range(ready') => backlog' # <<>>
    BY <1>1, <1>4, TaskNames DEF Inv, QueuesOK
  <2>5. at'["discovery"] = "receive" /\ "discovery" \in Range(ready') => inbox' # <<>>
    BY <1>1, <1>4, TaskNames DEF Inv, QueuesOK
  <2>6. IsInjective(ready') /\ IsInjective(backlog')
    BY <1>1 DEF Inv, QueuesOK
  <2> QED
    BY <2>2, <2>3, <2>4, <2>5, <2>6 DEF QueuesOK
<1> QED
  BY <1>5, <1>6, <1>7 DEF ServerFirst

-----------------------------------------------------------------------------
LEMMA InitInv == Init => Inv
<1> SUFFICES ASSUME Init PROVE Inv
  OBVIOUS
<1>1. /\ ready = <<"server", "discovery">>
      /\ at = [t \in Task |-> IF t \in Conn THEN "none" ELSE "start"]
      /\ backlog = <<>> /\ inbox = <<>>
      /\ acceptor = {} /\ response = {} /\ answers = {} /\ expired = {}
      /\ arriving = Datagrams /\ process = "running"
  BY DEF Init
<1>2. PICK table \in Tables : config = LoadServerConfig(table, Host)
  BY DEF Init
<1>3. table.port % PortModulus \in 0 .. PortModulus - 1
  BY PortsAssumption, PortModulusAssumption
<1>4. ConfigOK /\ config.listen_port \in 0 .. PortModulus - 1
  BY <1>2, <1>3 DEF ConfigOK, LoadServerConfig, ListenPort
<1>5. /\ ready \in Seq(Task) /\ ready # <<>> /\ Head(ready) = "server"
      /\ DOMAIN ready = 1 .. 2 /\ IsInjective(ready)
      /\ Range(ready) = {"server", "discovery"}
  BY <1>1, TaskNames DEF IsInjective, Range
<1>6. IsInjective(<<>>) /\ Range(<<>>) = {} /\ DOMAIN <<>> = {}
  BY DEF IsInjective, Range
<1>7. /\ at \in [Task -> {"start", "accept", "receive", "send", "ended", "none", "backlog",
                           "read", "write", "spin", "failed", "closed", "reset"}]
      /\ \A c \in Conn : at[c] = "none"
      /\ at["server"] = "start" /\ at["discovery"] = "start"
  BY <1>1, TaskNames
<1>8. TypeOK
  BY <1>1, <1>4, <1>5, <1>7, EmptySeq DEF TypeOK
<1>9. QueuesOK
  BY <1>1, <1>5, <1>6, <1>7, TaskNames DEF QueuesOK
<1>10. ServerFirst
  BY <1>1, <1>5, <1>7 DEF ServerFirst
<1>11. AddressTrue
  BY <1>2, <1>7 DEF AddressTrue, LoadServerConfig
<1>12. AllTrue
  BY <1>1, <1>6, <1>11 DEF AllTrue
<1> QED
  BY <1>4, <1>8, <1>9, <1>10, <1>12 DEF Inv

(* The one step that changes the configuration: nobody has been told of it.*)
LEMMA ServerListensInv == Inv /\ ServerListens => Inv'
<1> SUFFICES ASSUME Inv, ServerListens PROVE Inv'
  OBVIOUS
<1>1. PICK port \in BoundPorts : acceptor' = {port} /\ config' = Listening(port)
  BY DEF ServerListens
<1>2. port \in 0 .. PortModulus - 1
  BY PortsAssumption DEF BoundPorts, Inv, TypeOK
<1>3. /\ config'.listen_port = port
      /\ config'.host_name = config.host_name
      /\ config'.base_url = Url(config.host_name, port)
      /\ ConfigOK'
  BY <1>1 DEF Inv, ConfigOK, Listening
<1>4. UNCHANGED <<process, backlog, expired, arriving, inbox, response, answers>>
  BY DEF ServerListens, discoveryVars
<1>5. response = {} /\ answers = {}
  BY DEF Inv, ServerFirst, ServerListens, Resumes
<1>6. TypeOK' /\ QueuesOK' /\ ServerFirst'
  <2>1. Resumes("server", "start") /\ Suspend("server", "accept")
    BY DEF ServerListens
  <2>2. process' \in {"running", "exited"} /\ inbox' \in Seq(Datagrams)
    BY <1>4 DEF Inv, TypeOK
  <2>3. config'.listen_port \in 0 .. PortModulus - 1 /\ acceptor' \subseteq 0 .. PortModulus - 1
    BY <1>1, <1>2, <1>3
  <2> QED
    BY <1>4, <2>1, <2>2, <2>3, TaskTurn
<1>7. AllTrue'
  BY <1>1, <1>3, <1>4, <1>5 DEF Inv, AllTrue, AddressTrue, ServerUrl
<1> QED
  BY <1>3, <1>6, <1>7 DEF Inv

(***************************************************************************)
(* Turns after which nothing has been said.                                *)
(***************************************************************************)
LEMMA SilentTurn ==
    ASSUME Inv, NEW t \in {"server", "discovery", "signals"}, NEW old, Resumes(t, old),
           NEW new \in {"receive", "ended"}, Suspend(t, new),
           process' \in {"running", "exited"},
           UNCHANGED <<config, netVars, discoveryVars>>
    PROVE  Inv'
<1>1. UNCHANGED <<config, acceptor, backlog, expired, arriving, inbox, response, answers>>
  BY DEF netVars, discoveryVars
<1>2. /\ inbox' \in Seq(Datagrams)
      /\ config'.listen_port \in 0 .. PortModulus - 1
      /\ acceptor' \subseteq 0 .. PortModulus - 1
  BY <1>1 DEF Inv, TypeOK
<1>3. TypeOK' /\ QueuesOK' /\ ServerFirst'
  BY <1>1, <1>2, TaskTurn
<1>4. at'["server"] = "accept" => at["server"] = "accept"
  BY TaskNames, TaskStates DEF Suspend
<1> QED
  BY <1>1, <1>3, <1>4, NothingSaid DEF Inv

(* There is a connection to accept, and it is not queued yet. *)
LEMMA ServerAcceptsInv == Inv /\ ServerAccepts => Inv'
<1> SUFFICES ASSUME Inv, ServerAccepts PROVE Inv'
  OBVIOUS
<1> DEFINE c == Head(backlog)
<1>1. /\ Tail(ready) \in Seq(Task) /\ IsInjective(Tail(ready))
      /\ \A u : u \in Range(Tail(ready)) => u \in Range(ready)
      /\ "server" \in Range(ready) /\ "server" \notin Range(Tail(ready))
  BY TaskNames, TurnTaken DEF ServerAccepts
<1>2. at["server"] = "accept" /\ backlog \in Seq(Conn) /\ backlog # <<>> /\ IsInjective(backlog)
  BY <1>1 DEF Inv, TypeOK, QueuesOK, ServerAccepts, Resumes
<1>3. /\ c \in Conn /\ c \in Range(backlog)
      /\ Tail(backlog) \in Seq(Conn) /\ IsInjective(Tail(backlog))
      /\ c \notin Range(Tail(backlog))
      /\ \A u : u \in Range(Tail(backlog)) => u \in Range(backlog)
  BY <1>2, HeadTaken
<1>4. at[c] = "backlog" /\ c \notin Range(ready)
  BY <1>3 DEF Inv, QueuesOK
<1>5. c \in Task /\ c # "server" /\ c # "discovery"
  BY <1>3, TaskNames
<1>6. backlog' = Tail(backlog)
      /\ UNCHANGED <<process, config, acceptor, expired, arriving, inbox, response, answers>>
  BY DEF ServerAccepts, discoveryVars
<1>7. PICK new \in {"read", "start"} : at' = [at EXCEPT ![c] = new]
  BY DEF ServerAccepts
<1>8. ready' = Tail(ready) \/ ready' = Append(Tail(ready), c)
  BY DEF ServerAccepts
<1>9. /\ ready' \in Seq(Task) /\ IsInjective(ready')
      /\ \A u : u \in Range(ready') => u \in Range(Tail(ready)) \/ u = c
  <2>1. /\ Append(Tail(ready), c) \in Seq(Task)
        /\ IsInjective(Append(Tail(ready), c))
        /\ \A u : u \in Range(Append(Tail(ready), c)) <=> u \in Range(Tail(ready)) \/ u = c
    BY <1>1, <1>4, <1>5, ReadyPut
  <2> QED
    BY <1>1, <1>8, <2>1
<1>10. at \in [Task -> {"start", "accept", "receive", "send", "ended", "none", "backlog",
                           "read", "write", "spin", "failed", "closed", "reset"}]
  BY DEF Inv, TypeOK
<1>11. /\ at' \in [Task -> {"start", "accept", "receive", "send", "ended", "none", "backlog",
                           "read", "write", "spin", "failed", "closed", "reset"}]
       /\ at'[c] = new
       /\ \A u \in Task : u # c => at'[u] = at[u]
  BY <1>5, <1>7, <1>10
<1>12. at'["server"] = "accept" /\ at'["discovery"] = at["discovery"]
  BY <1>2, <1>5, <1>11, TaskNames
<1>13. TypeOK'
  BY <1>3, <1>6, <1>9, <1>11 DEF Inv, TypeOK
<1>14. QueuesOK'
  <2>1. IsInjective(ready') /\ IsInjective(backlog')
    BY <1>3, <1>6, <1>9
  <2>2. ASSUME NEW d \in Conn, d \in Range(backlog') PROVE at'[d] = "backlog"
    BY <1>3, <1>6, <1>11, <2>2, TaskNames DEF Inv, QueuesOK
  <2>3. ASSUME NEW d \in Conn, at'[d] \in {"none", "backlog", "closed", "reset"}
        PROVE  d \notin Range(ready')
    <3>1. d # c /\ at'[d] = at[d]
      BY <1>7, <1>11, <2>3, TaskNames
    <3> QED
      BY <1>1, <1>9, <2>3, <3>1 DEF Inv, QueuesOK
  <2>4. "server" \notin Range(ready')
    BY <1>1, <1>5, <1>9
  <2>5. at'["discovery"] = "receive" /\ "discovery" \in Range(ready') => inbox' # <<>>
    BY <1>1, <1>5, <1>6, <1>9, <1>12 DEF Inv, QueuesOK
  <2> QED
    BY <2>1, <2>2, <2>3, <2>4, <2>5 DEF QueuesOK
<1> QED
  BY <1>2, <1>6, <1>12, <1>13, <1>14, NothingSaid DEF Inv, ServerFirst

(* The acceptor closes, and the connections it has not handed over. *)
LEMMA AcceptFailsInv == Inv /\ AcceptFails => Inv'
<1> SUFFICES ASSUME Inv, AcceptFails PROVE Inv'
  OBVIOUS
<1>1. /\ Tail(ready) \in Seq(Task) /\ IsInjective(Tail(ready))
      /\ \A u : u \in Range(Tail(ready)) => u \in Range(ready)
      /\ "server" \notin Range(Tail(ready))
  BY TaskNames, TurnTaken DEF AcceptFails
<1>2. /\ ready' = Tail(ready)
      /\ at' = [t \in Task |-> IF t = "server" THEN "ended"
                               ELSE IF at[t] = "backlog" THEN "reset" ELSE at[t]]
      /\ acceptor' = {} /\ backlog' = <<>>
      /\ UNCHANGED <<process, config, expired, arriving, inbox, response, answers>>
  BY DEF AcceptFails, discoveryVars
<1>3. at \in [Task -> {"start", "accept", "receive", "send", "ended", "none", "backlog",
                           "read", "write", "spin", "failed", "closed", "reset"}]
  BY DEF Inv, TypeOK
<1>4. at' \in [Task -> {"start", "accept", "receive", "send", "ended", "none", "backlog",
                           "read", "write", "spin", "failed", "closed", "reset"}]
  BY <1>2, <1>3
<1>5. /\ at'["server"] = "ended"
      /\ at'["discovery"] = "receive" => at["discovery"] = "receive"
      /\ \A c \in Conn : at'[c] = IF at[c] = "backlog" THEN "reset" ELSE at[c]
  BY <1>2, TaskNames
<1>6. <<>> \in Seq(Conn) /\ IsInjective(<<>>) /\ Range(<<>>) = {}
  BY EmptySeq DEF IsInjective, Range
<1>7. TypeOK'
  BY <1>1, <1>2, <1>4, <1>6 DEF Inv, TypeOK
<1>8. QueuesOK'
  <2>1. \A c \in Conn : at'[c] \in {"none", "backlog", "closed", "reset"} => c \notin Range(ready')
    BY <1>1, <1>2, <1>5 DEF Inv, QueuesOK
  <2>2. at'["discovery"] = "receive" /\ "discovery" \in Range(ready') => inbox' # <<>>
    BY <1>1, <1>2, <1>5 DEF Inv, QueuesOK
  <2> QED
    BY <1>1, <1>2, <1>5, <1>6, <2>1, <2>2 DEF QueuesOK
<1>9. ConfigOK' /\ AllTrue'
  BY <1>2, <1>5 DEF Inv, ConfigOK, AllTrue, AddressTrue, ServerUrl, TrueAnswer
<1> QED
  BY <1>5, <1>7, <1>8, <1>9 DEF Inv, ServerFirst

(* The datagram is there, has arrived, and is what is answered. *)
LEMMA DiscoveryReceivesInv == Inv /\ DiscoveryReceives => Inv'
<1> SUFFICES ASSUME Inv, DiscoveryReceives PROVE Inv'
  OBVIOUS
<1> DEFINE d == Head(inbox)
<1>1. Resumes("discovery", "receive") /\ inbox' = Tail(inbox)
  BY DEF DiscoveryReceives
<1>2. PICK new \in {"receive", "send", "ended"} :
        /\ Suspend("discovery", new)
        /\ response' = response \/ (IsSearch(d.request) /\ response' = {ResponseTo(d)})
  BY DEF DiscoveryReceives
<1>3. UNCHANGED <<process, config, acceptor, backlog, expired, arriving, answers>>
  BY DEF DiscoveryReceives, netVars
<1>4. "discovery" \in Range(ready)
  BY <1>1, TaskNames, TurnTaken
<1>5. inbox \in Seq(Datagrams) /\ inbox # <<>>
  BY <1>1, <1>4 DEF Inv, TypeOK, QueuesOK, Resumes
<1>6. /\ Tail(inbox) \in Seq(Datagrams) /\ d \in Datagrams /\ d \in Range(inbox)
      /\ \A u : u \in Range(Tail(inbox)) => u \in Range(inbox)
  BY <1>5, HeadTaken
<1>7. d \in Datagrams \ arriving
  BY <1>6 DEF Inv, AllTrue
<1>8. TypeOK' /\ QueuesOK' /\ ServerFirst'
  <2>1. /\ process' \in {"running", "exited"} /\ inbox' \in Seq(Datagrams)
        /\ config'.listen_port \in 0 .. PortModulus - 1
        /\ acceptor' \subseteq 0 .. PortModulus - 1
    BY <1>1, <1>3, <1>6 DEF Inv, TypeOK
  <2> QED
    BY <1>1, <1>2, <1>3, <2>1, TaskTurn
<1>9. IsSearch(d.request) => TrueAnswer(ResponseTo(d))
  BY <1>7 DEF TrueAnswer, ResponseTo
<1>10. \A a : TrueAnswer(a) => TrueAnswer(a)'
  BY <1>3 DEF TrueAnswer
<1>11. ConfigOK' /\ AllTrue'
  <2>1. \A a \in answers' \union response' : TrueAnswer(a)
    BY <1>2, <1>3, <1>9 DEF Inv, AllTrue
  <2>2. Range(inbox') \intersect arriving' = {}
    BY <1>1, <1>3, <1>6 DEF Inv, AllTrue
  <2>3. at'["server"] = at["server"]
    BY <1>2, TaskNames, TaskStates DEF Suspend
  <2>4. ConfigOK' /\ AddressTrue'
    BY <1>3, <2>3 DEF Inv, AllTrue, AddressTrue, ServerUrl, ConfigOK
  <2> QED
    BY <1>10, <2>1, <2>2, <2>4 DEF AllTrue, TrueAnswer
<1> QED
  BY <1>8, <1>11 DEF Inv

(* What is sent is what was going to be sent. *)
LEMMA DiscoverySendsInv == Inv /\ DiscoverySends => Inv'
<1> SUFFICES ASSUME Inv, DiscoverySends PROVE Inv'
  OBVIOUS
<1>1. PICK new \in {"receive", "ended"} :
        /\ Resumes("discovery", "send")
        /\ Suspend("discovery", new)
  BY DEF DiscoverySends
<1>2. /\ response' = {} /\ answers' \subseteq answers \union response
      /\ UNCHANGED <<process, config, acceptor, backlog, expired, arriving, inbox>>
  BY DEF DiscoverySends, netVars
<1>3. TypeOK' /\ QueuesOK' /\ ServerFirst'
  <2>1. /\ process' \in {"running", "exited"} /\ inbox' \in Seq(Datagrams)
        /\ config'.listen_port \in 0 .. PortModulus - 1
        /\ acceptor' \subseteq 0 .. PortModulus - 1
    BY <1>2 DEF Inv, TypeOK
  <2> QED
    BY <1>1, <1>2, <2>1, TaskTurn
<1>4. at'["server"] = at["server"]
  BY <1>1, TaskNames, TaskStates DEF Suspend
<1>5. ConfigOK' /\ AllTrue'
  BY <1>2, <1>4 DEF Inv, ConfigOK, AllTrue, AddressTrue, ServerUrl, TrueAnswer
<1> QED
  BY <1>3, <1>5 DEF Inv

(* A connection comes into the backlog. *)
LEMMA PeerConnectsInv ==
    ASSUME Inv, NEW c \in Conn, PeerConnects(c)
    PROVE  Inv'
<1>1. /\ acceptor # {} /\ at[c] = "none"
      /\ at' = [at EXCEPT ![c] = "backlog"]
      /\ backlog' = Append(backlog, c)
      /\ UNCHANGED <<process, ready, config, acceptor, expired, arriving, inbox, response, answers>>
  BY DEF PeerConnects, discoveryVars
<1>2. c \in Task /\ c # "server" /\ c # "discovery"
  BY TaskNames
<1>3. at \in [Task -> {"start", "accept", "receive", "send", "ended", "none", "backlog",
                           "read", "write", "spin", "failed", "closed", "reset"}]
  BY DEF Inv, TypeOK
<1>4. /\ at' \in [Task -> {"start", "accept", "receive", "send", "ended", "none", "backlog",
                           "read", "write", "spin", "failed", "closed", "reset"}]
      /\ at'[c] = "backlog"
      /\ \A u \in Task : u # c => at'[u] = at[u]
  BY <1>1, <1>2, <1>3
<1>5. backlog \in Seq(Conn) /\ IsInjective(backlog) /\ c \notin Range(backlog)
  BY <1>1 DEF Inv, TypeOK, QueuesOK
<1>6. /\ backlog' \in Seq(Conn) /\ IsInjective(backlog') /\ backlog' # <<>>
      /\ \A u : u \in Range(backlog') <=> u \in Range(backlog) \/ u = c
  BY <1>1, <1>5, TailPut
<1>7. at'["server"] = at["server"] /\ at'["discovery"] = at["discovery"]
  BY <1>2, <1>4, TaskNames
<1>8. TypeOK'
  BY <1>1, <1>4, <1>6 DEF Inv, TypeOK
<1>9. QueuesOK'
  <2>1. \A d \in Conn : d \in Range(backlog') => at'[d] = "backlog"
    BY <1>4, <1>6, TaskNames DEF Inv, QueuesOK
  <2>2. \A d \in Conn : at'[d] \in {"none", "backlog", "closed", "reset"} => d \notin Range(ready')
    BY <1>1, <1>4, TaskNames DEF Inv, QueuesOK
  <2>3. at'["discovery"] = "receive" /\ "discovery" \in Range(ready') => inbox' # <<>>
    BY <1>1, <1>7 DEF Inv, QueuesOK
  <2> QED
    BY <1>1, <1>6, <2>1, <2>2, <2>3 DEF Inv, QueuesOK
<1>10. ServerFirst'
  BY <1>1, <1>7 DEF Inv, ServerFirst
<1> QED
  BY <1>1, <1>7, <1>8, <1>9, <1>10, NothingSaid DEF Inv

(* A datagram that has come in has not still to come. *)
LEMMA DatagramArrivesInv == Inv /\ DatagramArrives => Inv'
<1> SUFFICES ASSUME Inv, DatagramArrives PROVE Inv'
  OBVIOUS
<1>1. PICK d \in arriving : arriving' = arriving \ {d} /\ inbox' = Append(inbox, d)
  BY DEF DatagramArrives
<1>2. UNCHANGED <<process, ready, at, config, acceptor, backlog, expired, response, answers>>
  BY DEF DatagramArrives, netVars
<1>3. d \in Datagrams /\ arriving \subseteq Datagrams /\ inbox \in Seq(Datagrams)
  BY DEF Inv, TypeOK
<1>4. /\ inbox' \in Seq(Datagrams) /\ inbox' # <<>>
      /\ \A u : u \in Range(inbox') <=> u \in Range(inbox) \/ u = d
  BY <1>1, <1>3, TailPut
<1>5. TypeOK'
  BY <1>1, <1>2, <1>3, <1>4 DEF Inv, TypeOK
<1>6. QueuesOK'
  BY <1>2, <1>4 DEF Inv, QueuesOK
<1>7. ServerFirst'
  BY <1>2 DEF Inv, ServerFirst
<1>8. \A a : TrueAnswer(a) => TrueAnswer(a)'
  BY <1>1, <1>2 DEF TrueAnswer
<1>9. ConfigOK' /\ AllTrue'
  <2>1. Range(inbox') \intersect arriving' = {}
    BY <1>1, <1>4 DEF Inv, AllTrue
  <2>2. ConfigOK' /\ AddressTrue'
    BY <1>2 DEF Inv, AllTrue, AddressTrue, ServerUrl, ConfigOK
  <2>3. \A a \in answers' \union response' : TrueAnswer(a)'
    BY <1>2, <1>8 DEF Inv, AllTrue
  <2> QED
    BY <2>1, <2>2, <2>3 DEF AllTrue, TrueAnswer
<1> QED
  BY <1>5, <1>6, <1>7, <1>9 DEF Inv

LEMMA TimeRunsOutInv ==
    ASSUME Inv, NEW c \in Conn, TimeRunsOut(c)
    PROVE  Inv'
<1>1. UNCHANGED <<process, ready, at, config, acceptor, backlog, arriving, inbox, response, answers>>
  BY DEF TimeRunsOut, discoveryVars
<1>2. TypeOK'
  BY <1>1 DEF Inv, TypeOK, TimeRunsOut
<1>3. QueuesOK' /\ ServerFirst'
  BY <1>1 DEF Inv, QueuesOK, ServerFirst
<1> QED
  BY <1>1, <1>2, <1>3, NothingSaid DEF Inv

LEMMA ConnectionInv ==
    ASSUME Inv, NEW c \in Conn, Connection(c)
    PROVE  Inv'
<1>1. CASE ConnectionStarts(c)
  BY <1>1, ConnectionTurn DEF ConnectionStarts, Suspend
<1>2. CASE ConnectionAnswers(c)
  BY <1>2, ConnectionTurn DEF ConnectionAnswers, Suspend
<1>3. CASE ConnectionGoesOn(c)
  <2>1. CASE Suspend(c, "read") \/ Suspend(c, "write")
    BY <1>3, <2>1, ConnectionTurn DEF ConnectionGoesOn, Suspend
  <2>2. CASE /\ ready' = Append(Tail(ready), c)
             /\ at' = [at EXCEPT ![c] = "spin"]
    BY <1>3, <2>2, ConnectionTurn DEF ConnectionGoesOn
  <2> QED
    BY <1>3, <2>1, <2>2 DEF ConnectionGoesOn
<1>4. CASE ConnectionSpins(c)
  <2>1. CASE Suspend(c, "closed")
    BY <1>4, <2>1, ConnectionTurn DEF ConnectionSpins, Suspend
  <2>2. CASE ready' = Append(Tail(ready), c) /\ at' = at
    <3>1. c \in Task /\ at \in [Task -> {"start", "accept", "receive", "send", "ended", "none",
                "backlog", "read", "write", "spin", "failed", "closed", "reset"}] /\ at[c] = "spin"
      BY <1>4, TaskNames DEF Inv, TypeOK, ConnectionSpins, Resumes
    <3>2. at' = [at EXCEPT ![c] = "spin"]
      BY <2>2, <3>1
    <3> QED
      BY <1>4, <2>2, <3>2, ConnectionTurn DEF ConnectionSpins
  <2> QED
    BY <1>4, <2>1, <2>2 DEF ConnectionSpins, EndOfFileRound
<1>5. CASE ConnectionEnds(c)
  BY <1>5, ConnectionTurn DEF ConnectionEnds, Suspend
<1> QED
  BY <1>1, <1>2, <1>3, <1>4, <1>5 DEF Connection

LEMMA RunInv == Inv /\ Run => Inv'
<1> SUFFICES ASSUME Inv, Run PROVE Inv'
  OBVIOUS
<1>1. CASE ServerListens
  BY <1>1, ServerListensInv
<1>2. CASE ListenFails
  BY <1>2, SilentTurn DEF ListenFails, Inv, TypeOK
<1>3. CASE ServerAccepts
  BY <1>3, ServerAcceptsInv
<1>4. CASE AcceptFails
  BY <1>4, AcceptFailsInv
<1>5. CASE DiscoveryJoins
  BY <1>5, SilentTurn DEF DiscoveryJoins, Inv, TypeOK
<1>6. CASE JoinFails
  BY <1>6, SilentTurn DEF JoinFails, Inv, TypeOK
<1>7. CASE DiscoveryReceives
  BY <1>7, DiscoveryReceivesInv
<1>8. CASE DiscoverySends
  BY <1>8, DiscoverySendsInv
<1>9. CASE \E c \in Conn : Connection(c)
  BY <1>9, ConnectionInv
<1>10. CASE SignalHandled
  BY <1>10, SilentTurn DEF SignalHandled
<1>11. CASE ReceiveFails
  BY <1>11, SilentTurn DEF ReceiveFails, Inv, TypeOK
<1> QED
  BY <1>1, <1>2, <1>3, <1>4, <1>5, <1>6, <1>7, <1>8, <1>9, <1>10, <1>11 DEF Run

LEMMA PeersInv == Inv /\ Peers => Inv'
<1> SUFFICES ASSUME Inv, Peers PROVE Inv'
  OBVIOUS
<1>1. ASSUME NEW c \in Conn, PeerGoesOn(c) PROVE Inv'
  <2>1. c \in Task /\ c # "server" /\ c # "discovery"
    BY TaskNames
  <2>2. UNCHANGED <<process, at, config, netVars, discoveryVars>>
    BY <1>1 DEF PeerGoesOn
  <2>3. PICK old \in {"read", "write"} : Completes(c, old)
    BY <1>1 DEF PeerGoesOn
  <2> QED
    BY <2>1, <2>2, <2>3, Completion
<1>2. ASSUME NEW c \in Conn, PeerFails(c) PROVE Inv'
  <2>1. c \in Task /\ c # "server" /\ c # "discovery"
    BY TaskNames
  <2>2. /\ at' = [at EXCEPT ![c] = "failed"]
        /\ UNCHANGED <<process, config, netVars, discoveryVars>>
    BY <1>2 DEF PeerFails
  <2>3. PICK old \in {"read", "write"} : Completes(c, old)
    BY <1>2 DEF PeerFails
  <2> QED
    BY <2>1, <2>2, <2>3, Completion
<1>3. CASE Signal
  BY <1>3, TaskNames, Completion DEF Signal
<1> QED
  BY <1>1, <1>2, <1>3, PeerConnectsInv, TimeRunsOutInv, DatagramArrivesInv DEF Peers

LEMMA NextInv == Inv /\ [Next]_vars => Inv'
<1> SUFFICES ASSUME Inv, [Next]_vars PROVE Inv'
  OBVIOUS
<1>1. CASE Run
  BY <1>1, RunInv
<1>2. CASE AcceptCompletes
  BY <1>2, TaskNames, Completion DEF AcceptCompletes
<1>3. CASE ReceiveCompletes
  BY <1>3, TaskNames, Completion DEF ReceiveCompletes
<1>4. CASE SendCompletes
  BY <1>4, TaskNames, Completion DEF SendCompletes
<1>5. CASE Peers
  BY <1>5, PeersInv
<1>6. CASE UNCHANGED vars
  BY <1>6 DEF vars, netVars, discoveryVars, Inv, TypeOK, ConfigOK, QueuesOK, ServerFirst,
       AllTrue, AddressTrue, ServerUrl, TrueAnswer
<1> QED
  BY <1>1, <1>2, <1>3, <1>4, <1>5, <1>6 DEF Next

LEMMA InvHolds == Spec => []Inv
  BY InitInv, NextInv, PTL DEF Spec

(***************************************************************************)
(* Every variable has its type: no task is unknown, the port has 16 bits   *)
(* and what was queued had been asked for (run_server, run_service).       *)
(***************************************************************************)
THEOREM ServicesTypes == Spec => []TypeOK
<1>1. Inv => TypeOK
  BY DEF Inv
<1> QED
  BY <1>1, InvHolds, PTL

(***************************************************************************)
(* While the accept loop runs, every address discovery has told anyone is  *)
(* the one the server is bound to; after it, the address it had, or none   *)
(* if it never listened.  It comes with the UUID of the device, and        *)
(* answers a search of the one it was told to (run_server, run_service).   *)
(***************************************************************************)
THEOREM AnswersAlwaysTrue == Spec => []AnswersTrue
<1>1. Inv => AnswersTrue
  <2> SUFFICES ASSUME Inv, NEW a \in answers
               PROVE  /\ at["server"] = "accept" => /\ acceptor = {config.listen_port}
                                                   /\ a.location = ServerUrl
                      /\ a.location \in {NoUrl, ServerUrl}
                      /\ a.location = RootDevice.url_base
                      /\ a.uuid = RootDevice.udn
                      /\ \E d \in Datagrams \ arriving :
                            d.sender = a.to /\ IsSearch(d.request) /\ d.request.st = a.st
    BY DEF AnswersTrue
  <2>1. TrueAnswer(a) /\ AddressTrue
    BY DEF Inv, AllTrue
  <2>2. RootDevice.url_base = config.base_url /\ RootDevice.udn = config.uuid
    BY DEF RootDevice
  <2> QED
    BY <2>1, <2>2 DEF TrueAnswer, AddressTrue
<1> QED
  BY <1>1, InvHolds, PTL

-----------------------------------------------------------------------------
(* There is a response only while it is being sent. *)
ResponseInv == at["discovery"] # "send" => response = {}

LEMMA QueuedInRange == \A t : Queued(t) <=> t \in Range(ready)
  BY DEF Queued, Range

(* A turn takes only its own task from the queue. *)
LEMMA OthersQueued ==
    ASSUME Inv, ready # <<>>,
           ready' = Tail(ready) \/ \E u \in Task : ready' = Append(Tail(ready), u)
    PROVE  \A t : Queued(t) /\ t # Head(ready) => Queued(t)'
<1>1. ready \in Seq(Task)
  BY DEF Inv, TypeOK
<1>2. Tail(ready) \in Seq(Task) /\ \A t : t \in Range(ready) => t = Head(ready) \/ t \in Range(Tail(ready))
  BY <1>1, HeadTaken
<1>3. ASSUME NEW u \in Task, ready' = Append(Tail(ready), u)
      PROVE  \A t : t \in Range(Tail(ready)) => t \in Range(ready')
  <2>1. Tail(ready) \in Seq(Task) /\ u \in Task
    BY <1>2, <1>3
  <2>2. \A t : t \in Range(Append(Tail(ready), u)) <=> t \in Range(Tail(ready)) \/ t = u
    BY ONLY <2>1, TailPut
  <2> QED
    BY <1>3, <2>2
<1>4. \A t : t \in Range(Tail(ready)) => t \in Range(ready')
  BY <1>3
<1> QED
  BY <1>2, <1>4 DEF Queued, Range

(* What is at the tail is queued. *)
LEMMA PutIsQueued ==
    ASSUME NEW q \in Seq(Task), NEW u \in Task, ready' = Append(q, u)
    PROVE  /\ Queued(u)'
           /\ \A t : t \in Range(q) => Queued(t)'
<1>1. \A t : t \in Range(ready') <=> t \in Range(q) \/ t = u
  BY TailPut
<1> QED
  BY <1>1 DEF Queued, Range

(* A turn of a task that is no connection, and none is accepted. *)
LEMMA ConnectionsAside ==
    ASSUME Inv, ConnectionsKept,
           NEW t \in {"server", "discovery", "signals"}, NEW old, Resumes(t, old),
           NEW new, Suspend(t, new), backlog' = backlog
    PROVE  ConnectionsKept'
<1>1. ready # <<>> /\ Head(ready) = t /\ ready' = Tail(ready) /\ at' = [at EXCEPT ![t] = new]
  BY DEF Resumes, Suspend
<1>2. \A c \in Conn : c \in Task /\ c # t /\ at'[c] = at[c]
  BY <1>1, TaskNames, TaskStates
<1>3. \A c \in Conn : Queued(c) => Queued(c)'
  BY <1>1, <1>2, OthersQueued
<1> QED
  BY <1>2, <1>3 DEF ConnectionsKept

(* The one that is accepted is started, at once or as one of the queue. *)
LEMMA AcceptKeeps ==
    ASSUME Inv, ConnectionsKept, ServerAccepts
    PROVE  ConnectionsKept'
<1>1. /\ ready \in Seq(Task) /\ ready # <<>> /\ Head(ready) = "server" /\ at["server"] = "accept"
  BY DEF Inv, TypeOK, ServerAccepts, Resumes
<1>2. Tail(ready) \in Seq(Task) /\ "server" \in Range(ready)
  BY <1>1, HeadTaken
<1>3. backlog \in Seq(Conn) /\ backlog # <<>>
  BY <1>1, <1>2 DEF Inv, TypeOK, QueuesOK
<1>4. PICK c \in Conn : /\ c = Head(backlog)
                        /\ \A u : u \in Range(backlog) => u = c \/ u \in Range(Tail(backlog))
  BY <1>3, HeadTaken
<1>5. c \in Task /\ c # "server"
  BY <1>4, TaskNames
<1>6. backlog' = Tail(backlog)
  BY DEF ServerAccepts
<1>7. \/ at' = [at EXCEPT ![c] = "read"] /\ ready' = Tail(ready)
      \/ at' = [at EXCEPT ![c] = "start"] /\ ready' = Append(Tail(ready), c)
  BY <1>4 DEF ServerAccepts
<1>8. \A d \in Conn : Queued(d) => Queued(d)'
  <2>1. \A d \in Conn : d # "server"
    BY TaskNames
  <2> QED
    BY <1>1, <1>5, <1>7, <2>1, OthersQueued
<1>9. ASSUME NEW d \in Conn, d # c
      PROVE  /\ at'[d] = "backlog" => d \in Range(backlog')
             /\ at'[d] \in {"start", "spin", "failed"} => Queued(d)'
  <2>1. at'[d] = at[d]
    BY <1>5, <1>7, <1>9, TaskStates
  <2> QED
    BY <1>4, <1>6, <1>8, <1>9, <2>1 DEF ConnectionsKept
<1>10. at'[c] = "read" \/ (at'[c] = "start" /\ Queued(c)')
  <2>1. CASE at' = [at EXCEPT ![c] = "read"]
    BY <1>5, <2>1, TaskStates
  <2>2. CASE at' = [at EXCEPT ![c] = "start"] /\ ready' = Append(Tail(ready), c)
    BY <1>2, <1>5, <2>2, TaskStates, PutIsQueued
  <2> QED
    BY <1>7, <2>1, <2>2
<1> QED
  BY <1>9, <1>10 DEF ConnectionsKept

(* A connection waits, or ends, or is put at the tail to go on. *)
LEMMA TurnKeepsConnections ==
    ASSUME Inv, ConnectionsKept, NEW c \in Conn, Connection(c)
    PROVE  ConnectionsKept'
<1>1. c \in Task
  BY TaskNames
<1>2. ready # <<>> /\ Head(ready) = c /\ ready \in Seq(Task)
  BY DEF Connection, ConnectionStarts, ConnectionAnswers, ConnectionGoesOn, ConnectionSpins,
         ConnectionEnds, Resumes, Inv, TypeOK
<1>3. Tail(ready) \in Seq(Task)
  BY <1>2, HeadTaken
<1>4. backlog' = backlog
  BY DEF Connection, ConnectionStarts, ConnectionAnswers, ConnectionGoesOn, ConnectionSpins,
         ConnectionEnds, netVars
<1>5. \/ \E new \in {"read", "write", "closed"} :
             ready' = Tail(ready) /\ at' = [at EXCEPT ![c] = new]
      \/ ready' = Append(Tail(ready), c) /\ at' = [at EXCEPT ![c] = "spin"]
      \/ ready' = Append(Tail(ready), c) /\ at' = at /\ at[c] = "spin"
  BY DEF Connection, ConnectionStarts, ConnectionAnswers, ConnectionGoesOn, ConnectionSpins,
         ConnectionEnds, EndOfFileRound, Resumes, Suspend
<1>6. \A d \in Conn : Queued(d) /\ d # c => Queued(d)'
  BY <1>1, <1>2, <1>5, OthersQueued
<1>7. \A d \in Conn : d # c => at'[d] = at[d]
  BY <1>1, <1>5, TaskStates
<1>8. at'[c] \in {"read", "write", "closed"} \/ (at'[c] = "spin" /\ Queued(c)')
  BY <1>1, <1>3, <1>5, TaskStates, PutIsQueued
<1> QED
  BY <1>4, <1>6, <1>7, <1>8 DEF ConnectionsKept

(* An operation completes: nobody leaves the queue. *)
LEMMA CompletionKeeps ==
    ASSUME Inv, ConnectionsKept, NEW t \in Task, NEW old, Completes(t, old),
           at' = at \/ (t \in Conn /\ at' = [at EXCEPT ![t] = "failed"]), backlog' = backlog
    PROVE  ConnectionsKept'
<1>1. ready \in Seq(Task) /\ ready' = Append(ready, t)
  BY DEF Inv, TypeOK, Completes
<1>2. Queued(t)' /\ \A u : Queued(u) => Queued(u)'
  BY <1>1, PutIsQueued, QueuedInRange
<1>3. \A c \in Conn : at'[c] = at[c] \/ (c = t /\ at'[c] = "failed")
  BY TaskNames, TaskStates
<1> QED
  BY <1>2, <1>3 DEF ConnectionsKept

LEMMA ConnectKeeps ==
    ASSUME Inv, ConnectionsKept, NEW c \in Conn, PeerConnects(c)
    PROVE  ConnectionsKept'
<1>1. /\ at' = [at EXCEPT ![c] = "backlog"] /\ backlog' = Append(backlog, c) /\ ready' = ready
  BY DEF PeerConnects
<1>2. backlog \in Seq(Conn)
  BY DEF Inv, TypeOK
<1>3. \A d : d \in Range(backlog') <=> d \in Range(backlog) \/ d = c
  BY <1>1, <1>2, TailPut
<1>4. at'[c] = "backlog" /\ \A d \in Conn : d # c => at'[d] = at[d]
  BY <1>1, TaskNames, TaskStates DEF Task
<1> QED
  BY <1>1, <1>3, <1>4 DEF ConnectionsKept, Queued

LEMMA ConnectionsStep ==
    ASSUME Inv, ConnectionsKept, [Next]_vars
    PROVE  ConnectionsKept'
<1>1. CASE Run
  <2>1. CASE ServerListens \/ ListenFails \/ DiscoveryJoins \/ JoinFails
             \/ ReceiveFails \/ SignalHandled
    BY <2>1, ConnectionsAside DEF ServerListens, ListenFails, DiscoveryJoins, JoinFails,
                                  ReceiveFails, SignalHandled, netVars
  <2>2. CASE DiscoveryReceives \/ DiscoverySends
    BY <2>2, ConnectionsAside DEF DiscoveryReceives, DiscoverySends, netVars
  <2>3. CASE AcceptFails
    <3>1. /\ ready # <<>> /\ Head(ready) = "server" /\ ready' = Tail(ready)
          /\ at' = [t \in Task |-> IF t = "server" THEN "ended"
                                   ELSE IF at[t] = "backlog" THEN "reset" ELSE at[t]]
      BY <2>3 DEF AcceptFails, Resumes
    <3>2. \A c \in Conn : c # "server" /\ at'[c] = IF at[c] = "backlog" THEN "reset" ELSE at[c]
      BY <3>1, TaskNames
    <3>3. \A c \in Conn : Queued(c) => Queued(c)'
      BY <3>1, <3>2, OthersQueued
    <3> QED
      BY <3>2, <3>3 DEF ConnectionsKept
  <2> QED
    BY <1>1, <2>1, <2>2, <2>3, AcceptKeeps, TurnKeepsConnections DEF Run
<1>2. CASE AcceptCompletes \/ ReceiveCompletes \/ SendCompletes \/ Signal
  BY <1>2, TaskNames, CompletionKeeps
     DEF AcceptCompletes, ReceiveCompletes, SendCompletes, Signal, netVars
<1>3. ASSUME NEW c \in Conn, PeerGoesOn(c) \/ PeerFails(c)
      PROVE  ConnectionsKept'
  <2>1. PICK old \in {"read", "write"} : Completes(c, old)
    BY <1>3 DEF PeerGoesOn, PeerFails
  <2>2. (at' = at \/ at' = [at EXCEPT ![c] = "failed"]) /\ backlog' = backlog
    BY <1>3 DEF PeerGoesOn, PeerFails, netVars
  <2> QED
    BY <2>1, <2>2, TaskNames, CompletionKeeps
<1>4. ASSUME NEW c \in Conn, TimeRunsOut(c) PROVE ConnectionsKept'
  BY <1>4 DEF TimeRunsOut, ConnectionsKept, Queued
<1>5. CASE DatagramArrives \/ UNCHANGED vars
  BY <1>5 DEF DatagramArrives, vars, netVars, ConnectionsKept, Queued
<1> QED
  BY <1>1, <1>2, <1>3, <1>4, <1>5, ConnectKeeps DEF Next, Peers

-----------------------------------------------------------------------------
(* Steps that have nothing to do with discovery. *)
LEMMA DiscoveryAside ==
    ASSUME SearchesKept, ResponseInv, at'["discovery"] = at["discovery"],
           UNCHANGED discoveryVars
    PROVE  SearchesKept' /\ ResponseInv'
  BY DEF SearchesKept, ResponseInv, discoveryVars

(* What is taken out of the socket is answered, or is no search for this. *)
LEMMA ReceiveKeeps ==
    ASSUME Inv, SearchesKept, ResponseInv, DiscoveryReceives
    PROVE  SearchesKept' /\ ResponseInv'
<1>1. /\ at["discovery"] = "receive" /\ Head(ready) = "discovery" /\ ready # <<>>
      /\ inbox' = Tail(inbox) /\ UNCHANGED <<arriving, answers>>
  BY DEF DiscoveryReceives, Resumes
<1>2. ready \in Seq(Task) /\ inbox \in Seq(Datagrams)
  BY DEF Inv, TypeOK
<1>3. inbox # <<>>
  BY <1>1, <1>2, HeadTaken DEF Inv, QueuesOK
<1>4. PICK d \in Datagrams : /\ d = Head(inbox)
                            /\ \A u : u \in Range(inbox) => u = d \/ u \in Range(inbox')
  BY <1>1, <1>2, <1>3, HeadTaken
<1>5. response = {}
  BY <1>1 DEF ResponseInv
<1>6. "discovery" \in Task
  BY TaskNames
<1>7. CASE Suspend("discovery", "ended") /\ response' = response
  <2>1. at'["discovery"] = "ended"
    BY <1>6, <1>7, TaskStates DEF Suspend
  <2> QED
    BY <1>5, <1>7, <2>1 DEF SearchesKept, ResponseInv
<1>8. CASE ~IsSearch(d.request) /\ Suspend("discovery", "receive") /\ response' = response
  <2>1. at'["discovery"] = "receive"
    BY <1>6, <1>8, TaskStates DEF Suspend
  <2> QED
    BY <1>1, <1>4, <1>5, <1>8, <2>1 DEF SearchesKept, ResponseInv
<1>9. CASE Suspend("discovery", "send") /\ response' = {ResponseTo(d)}
  <2>1. at'["discovery"] = "send"
    BY <1>6, <1>9, TaskStates DEF Suspend
  <2>2. \E a \in response' : a.to = d.sender /\ a.st = d.request.st
    BY <1>9 DEF ResponseTo
  <2>3. ASSUME NEW e \in Datagrams \ arriving', IsSearch(e.request), e \notin Range(inbox')
        PROVE  \E b \in response' \union answers' : b.to = e.sender /\ b.st = e.request.st
    <3>1. CASE e = d
      BY <2>2, <3>1
    <3>2. CASE e # d
      <4>1. e \notin Range(inbox)
        BY <1>4, <2>3, <3>2
      <4> QED
        BY <1>1, <1>5, <2>3, <4>1 DEF SearchesKept
    <3> QED
      BY <3>1, <3>2
  <2> QED
    BY <2>1, <2>3 DEF SearchesKept, ResponseInv
<1> QED
  BY <1>4, <1>7, <1>8, <1>9 DEF DiscoveryReceives

LEMMA SendKeeps ==
    ASSUME Inv, SearchesKept, ResponseInv, DiscoverySends
    PROVE  SearchesKept' /\ ResponseInv'
<1>1. /\ at["discovery"] = "send" /\ response' = {} /\ UNCHANGED <<arriving, inbox>>
      /\ \/ Suspend("discovery", "receive") /\ answers' = answers \union response
         \/ Suspend("discovery", "ended")
  BY DEF DiscoverySends, Resumes
<1>2. "discovery" \in Task
  BY TaskNames
<1>3. CASE Suspend("discovery", "receive") /\ answers' = answers \union response
  <2>1. at'["discovery"] = "receive" /\ response' \union answers' = response \union answers
    BY <1>1, <1>2, <1>3, TaskStates DEF Suspend
  <2> QED
    BY <1>1, <2>1 DEF SearchesKept, ResponseInv
<1>4. CASE Suspend("discovery", "ended")
  <2>1. at'["discovery"] = "ended"
    BY <1>2, <1>4, TaskStates DEF Suspend
  <2> QED
    BY <1>1, <2>1 DEF SearchesKept, ResponseInv
<1> QED
  BY <1>1, <1>3, <1>4

LEMMA ArrivalKeeps ==
    ASSUME Inv, SearchesKept, ResponseInv, DatagramArrives
    PROVE  SearchesKept' /\ ResponseInv'
<1>1. PICK d \in arriving : arriving' = arriving \ {d} /\ inbox' = Append(inbox, d)
  BY DEF DatagramArrives
<1>2. d \in Datagrams /\ inbox \in Seq(Datagrams)
  BY DEF Inv, TypeOK
<1>3. \A u : u \in Range(inbox') <=> u \in Range(inbox) \/ u = d
  BY <1>1, <1>2, TailPut
<1>4. UNCHANGED <<at, response, answers>>
  BY DEF DatagramArrives
<1>5. \A e \in Datagrams \ arriving' : e = d \/ e \in Datagrams \ arriving
  BY <1>1
<1> QED
  BY <1>3, <1>4, <1>5 DEF SearchesKept, ResponseInv

(* The turns of discovery in which it takes nothing from its socket. *)
LEMMA JoinKeeps ==
    ASSUME Inv, SearchesKept, ResponseInv, DiscoveryJoins \/ JoinFails \/ ReceiveFails
    PROVE  SearchesKept' /\ ResponseInv'
<1>1. /\ UNCHANGED discoveryVars
      /\ \/ at["discovery"] = "start" /\ Suspend("discovery", "receive")
         \/ at["discovery"] \in {"start", "receive"} /\ Suspend("discovery", "ended")
  BY DEF DiscoveryJoins, JoinFails, ReceiveFails, Resumes
<1>2. \/ at["discovery"] = "start" /\ at'["discovery"] = "receive"
      \/ at["discovery"] \in {"start", "receive"} /\ at'["discovery"] = "ended"
  BY <1>1, TaskNames, TaskStates DEF Suspend
<1> QED
  BY <1>1, <1>2 DEF SearchesKept, ResponseInv, discoveryVars

LEMMA SearchesStep ==
    ASSUME Inv, SearchesKept, ResponseInv, [Next]_vars
    PROVE  SearchesKept' /\ ResponseInv'
<1>1. "discovery" \in Task /\ "server" \in Task /\ "signals" \in Task /\ "server" # "discovery"
      /\ "signals" # "discovery" /\ \A c \in Conn : c \in Task /\ c # "discovery"
  BY TaskNames
<1>2. CASE ServerListens \/ ListenFails \/ SignalHandled
  <2>1. /\ UNCHANGED discoveryVars
        /\ \E t \in {"server", "signals"}, new \in {"accept", "ended"} : at' = [at EXCEPT ![t] = new]
    BY <1>2 DEF ServerListens, ListenFails, SignalHandled, Suspend
  <2> QED
    BY <1>1, <2>1, TaskStates, DiscoveryAside
<1>3. CASE ServerAccepts
  <2>1. backlog # <<>> /\ backlog \in Seq(Conn)
    <3>1. at["server"] = "accept" /\ "server" \in Range(ready)
      BY <1>3, TaskNames, TurnTaken DEF ServerAccepts, Resumes
    <3> QED
      BY <3>1 DEF Inv, TypeOK, QueuesOK
  <2>2. Head(backlog) \in Conn
    BY <2>1, HeadTaken
  <2>3. /\ UNCHANGED discoveryVars
        /\ \E new \in {"read", "start"} : at' = [at EXCEPT ![Head(backlog)] = new]
    BY <1>3 DEF ServerAccepts
  <2> QED
    BY <1>1, <2>2, <2>3, TaskStates, DiscoveryAside
<1>4. CASE AcceptFails
  <2>1. /\ UNCHANGED discoveryVars
        /\ at'["discovery"] = IF at["discovery"] = "backlog" THEN "reset" ELSE at["discovery"]
    BY <1>1, <1>4 DEF AcceptFails
  <2>2. CASE at["discovery"] # "backlog"
    BY <2>1, <2>2, DiscoveryAside
  <2>3. CASE at["discovery"] = "backlog"
    BY <2>1, <2>3 DEF SearchesKept, ResponseInv, discoveryVars
  <2> QED
    BY <2>2, <2>3
<1>5. ASSUME NEW c \in Conn, Connection(c) PROVE SearchesKept' /\ ResponseInv'
  <2>1. /\ UNCHANGED discoveryVars
        /\ at' = at \/ \E new \in {"read", "write", "spin", "closed"} : at' = [at EXCEPT ![c] = new]
    BY <1>5 DEF Connection, ConnectionStarts, ConnectionAnswers, ConnectionGoesOn,
                ConnectionSpins, ConnectionEnds, EndOfFileRound, Suspend
  <2> QED
    BY <1>1, <2>1, TaskStates, DiscoveryAside
<1>6. CASE AcceptCompletes \/ ReceiveCompletes \/ SendCompletes \/ Signal
  BY <1>6, DiscoveryAside DEF AcceptCompletes, ReceiveCompletes, SendCompletes, Signal
<1>7. ASSUME NEW c \in Conn, PeerConnects(c) \/ PeerGoesOn(c) \/ PeerFails(c) \/ TimeRunsOut(c)
      PROVE  SearchesKept' /\ ResponseInv'
  <2>1. /\ UNCHANGED discoveryVars
        /\ at' = at \/ \E new \in {"backlog", "failed"} : at' = [at EXCEPT ![c] = new]
    BY <1>7 DEF PeerConnects, PeerGoesOn, PeerFails, TimeRunsOut
  <2> QED
    BY <1>1, <2>1, TaskStates, DiscoveryAside
<1>8. CASE UNCHANGED vars
  BY <1>8, DiscoveryAside DEF vars
<1> QED
  BY <1>2, <1>3, <1>4, <1>5, <1>6, <1>7, <1>8, JoinKeeps, ReceiveKeeps, SendKeeps, ArrivalKeeps
     DEF Next, Run, Peers

(***************************************************************************)
(* No search and no connection is ever forgotten: what was received or     *)
(* made is where its next turn will find it (run_service, run_server).     *)
(***************************************************************************)
THEOREM NothingEverForgotten == Spec => []NothingForgotten
<1>1. Init => ConnectionsKept /\ SearchesKept /\ ResponseInv
  <2> SUFFICES ASSUME Init PROVE ConnectionsKept /\ SearchesKept /\ ResponseInv
    OBVIOUS
  <2>1. \A c \in Conn : at[c] = "none"
    BY TaskNames DEF Init
  <2>2. arriving = Datagrams /\ response = {}
    BY DEF Init
  <2> QED
    BY <2>1, <2>2 DEF ConnectionsKept, SearchesKept, ResponseInv
<1>2. Inv /\ ConnectionsKept /\ SearchesKept /\ ResponseInv /\ [Next]_vars
          => (ConnectionsKept /\ SearchesKept /\ ResponseInv)'
  BY ConnectionsStep, SearchesStep
<1>3. ConnectionsKept /\ SearchesKept => NothingForgotten
  BY DEF NothingForgotten
<1> QED
  BY <1>1, <1>2, <1>3, InvHolds, PTL DEF Spec
=============================================================================
