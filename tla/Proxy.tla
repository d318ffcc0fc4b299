--------------------------------- MODULE Proxy ---------------------------------
(***************************************************************************)
(* Proxy::run and Proxy::handleRequest: one thread accepts connections and *)
(* starts a detached thread for each; that thread reads a request, parses  *)
(* it, connects to the server (init_client_side) and serves the request by *)
(* its method.  Serving is the subject of the modules GetHandler, Relay,   *)
(* PostHandler and Tunnel, and one location here; the end of the process   *)
(* within it is theirs.                                                    *)
(*                                                                         *)
(* All threads append to the vector sockets without a lock, no descriptor  *)
(* is ever closed, and an exception that leaves a thread ends the process. *)
(* As none is closed, descriptors are numbered in the order in which they  *)
(* are opened: 0 is the listening socket's.                                *)
(*                                                                         *)
(* A request is a record of what handleRequest can tell about it:          *)
(*   parse     "ok", or where its text fails: "parser" when HttpParser     *)
(*             throws, "request" when HttpRequest does, "spins" when the   *)
(*             header loop of HttpParser never ends,                       *)
(*   method, maxStale ("number", or "none" for max-stale without one),     *)
(*   host      "up", "unknown" to getaddrinfo, or "down",                  *)
(*   stays     where its peers keep the handler waiting for ever, as no    *)
(*             socket has a timeout: at "recv" a browser that connects and *)
(*             is silent, at "serving" a server that is, or a tunnel that  *)
(*             is left open; "nowhere" otherwise.                          *)
(***************************************************************************)
EXTENDS Integers, SequencesExt, FiniteSets

CONSTANTS
  Connections,  \* the browsers' connections, one request each
  Kinds,        \* the requests they may send
  FdLimit,      \* how many descriptors the process may open after start-up
  FdSetSize     \* how many of them an fd_set has a place for

RequestKind ==
  [parse : {"ok", "parser", "request", "spins"}, method : {"GET", "POST", "CONNECT"},
   maxStale : {"number", "none"}, host : {"up", "unknown", "down"},
   stays : {"nowhere", "recv", "serving"}]

ASSUME KindsAssumption == Kinds \subseteq RequestKind
ASSUME FdLimitAssumption == FdLimit \in Nat /\ FdSetSize \in Nat

VARIABLES
  running,   \* FALSE once the process has ended
  loop,      \* where the accept loop is
  listening, \* init_server_side has returned a socket, not -1
  backlog,   \* connections that wait for accept
  accepted,  \* connections in the order in which accept has returned them
  id,        \* the id of the latest request
  pc,        \* where each connection's handler is
  kind,      \* what each connection asks for
  ids,       \* the id each handler was given, 0 before that
  browser,   \* the handler's browser_side_fd
  server,    \* the handler's server_side_fd
  opened,    \* how many descriptors have been opened since the listening one
  sockets,   \* the vector of descriptors
  slot,      \* where in sockets the threads within a push_back are appending
  raced,     \* history: what was being appended while another thread appended
  refused    \* history: the system has failed an accept or a new thread

listener == <<loop, listening, backlog, accepted, id, ids, browser, refused>>
vector == <<sockets, slot, raced>>
vars == <<running, listener, pc, kind, server, opened, vector>>

Loop == "loop"
Threads == Connections \cup {Loop}
NoSlot == -1
ListenFd == 0
Failed == -1
NoFd == -2   \* before the first value is assigned

ASSUME LoopAssumption == Loop \notin Connections

Init ==
  /\ running = TRUE
  /\ loop = "start"
  /\ listening = FALSE
  /\ backlog = <<>>
  /\ accepted = <<>>
  /\ id = 0
  /\ pc = [c \in Connections |-> "away"]
  /\ kind \in [Connections -> Kinds]
  /\ ids = [c \in Connections |-> 0]
  /\ browser = [c \in Connections |-> NoFd]
  /\ server = [c \in Connections |-> NoFd]
  /\ opened = 0
  /\ sockets = <<>>
  /\ slot = [t \in Threads |-> NoSlot]
  /\ raced = {}
  /\ refused = FALSE

Goto(c, location) == pc' = [pc EXCEPT ![c] = location]

At(c, location) == running /\ pc[c] = location

-------------------------------------------------------------------------------
(* sockets.push_back: it finds the end of the vector, and then writes the  *)
(* element and the new end.  Two threads in it at once may overwrite each  *)
(* other's element, or use storage the other has freed.                    *)

Pushing(t) ==
  CASE t # Loop -> server[t]
    [] t = Loop /\ loop = "push" -> browser[Last(accepted)]
    [] OTHER -> Failed

Appending == {t \in Threads : slot[t] # NoSlot}

PushBegins(t, fd) ==
  /\ slot' = [slot EXCEPT ![t] = Len(sockets)]
  /\ raced' = IF Appending = {} THEN raced
              ELSE raced \cup {fd} \cup {Pushing(u) : u \in Appending}

PushEnds(t) ==
  /\ sockets' = Append(SubSeq(sockets, 1, Min({slot[t], Len(sockets)})), Pushing(t))
  /\ slot' = [slot EXCEPT ![t] = NoSlot]
  /\ UNCHANGED raced

PushCrashes(t) ==
  /\ running
  /\ slot[t] # NoSlot /\ \E u \in Threads \ {t} : slot[u] # NoSlot
  /\ running' = FALSE
  /\ UNCHANGED <<listener, pc, kind, server, opened, vector>>

-------------------------------------------------------------------------------
(* Proxy::run.                                                             *)

\* One of the calls of init_server_side may fail: the port may be in use.
InitServerSide ==
  /\ running /\ loop = "start"
  /\ listening' \in BOOLEAN
  /\ sockets' = <<IF listening' THEN ListenFd ELSE Failed>>
  /\ loop' = "accept"
  /\ UNCHANGED <<running, backlog, accepted, id, ids, browser, refused, pc, kind, server,
                 opened, slot, raced>>

Connect(c) ==
  /\ At(c, "away") /\ listening
  /\ backlog' = Append(backlog, c)
  /\ Goto(c, "waiting")
  /\ UNCHANGED <<running, loop, listening, accepted, id, ids, browser, refused, kind, server,
                 opened, vector>>

\* accept returns a new descriptor, and push_back begins.
Accept ==
  /\ running /\ loop = "accept"
  /\ backlog # <<>> /\ opened < FdLimit
  /\ accepted' = Append(accepted, Head(backlog))
  /\ backlog' = Tail(backlog)
  /\ opened' = opened + 1
  /\ browser' = [browser EXCEPT ![Head(backlog)] = opened + 1]
  /\ PushBegins(Loop, opened + 1)
  /\ loop' = "push"
  /\ UNCHANGED <<running, listening, id, ids, refused, pc, kind, server, sockets>>

\* Definitions named "Buggy..." are slips this code could have; a run that
\* replaces the definition below by one of them finds a property violated.
BuggyAcceptFails ==  \* the loop goes on
  /\ running /\ loop = "accept"
  /\ UNCHANGED vars

\* accept returns -1, for want of a descriptor or of a socket to listen on, because
\* the connection is gone, or for any other error; the -1 is pushed like a descriptor.
AcceptFails ==
  /\ running /\ loop = "accept"
  /\ refused' = TRUE
  /\ PushBegins(Loop, Failed)
  /\ loop' = "pushFailed"
  /\ UNCHANGED <<running, listening, backlog, accepted, id, ids, browser, pc, kind, server,
                 opened, sockets>>

\* SocketAcceptError leaves run and main.
AcceptThrows ==
  /\ running /\ loop = "pushFailed"
  /\ PushEnds(Loop)
  /\ loop' = "failed"
  /\ running' = FALSE
  /\ UNCHANGED <<listening, backlog, accepted, id, ids, browser, refused, pc, kind, server,
                 opened>>

Pushed ==
  /\ running /\ loop = "push"
  /\ PushEnds(Loop)
  /\ loop' = "spawn"
  /\ UNCHANGED <<running, listening, backlog, accepted, id, ids, browser, refused, pc, kind,
                 server, opened>>

BuggyInfoId == id  \* the thread is given the id before it is counted up

InfoId == id + 1

Spawn ==
  /\ running /\ loop = "spawn"
  /\ id' = id + 1
  /\ ids' = [ids EXCEPT ![Last(accepted)] = InfoId]
  /\ Goto(Last(accepted), "recv")
  /\ loop' = "accept"
  /\ UNCHANGED <<running, listening, backlog, accepted, browser, refused, kind, server,
                 opened, vector>>

\* The system has no thread to give: std::system_error leaves run and main.
SpawnThrows ==
  /\ running /\ loop = "spawn"
  /\ id' = id + 1
  /\ refused' = TRUE
  /\ loop' = "failed"
  /\ running' = FALSE
  /\ UNCHANGED <<listening, backlog, accepted, ids, browser, pc, kind, server, opened, vector>>

-------------------------------------------------------------------------------
(* Proxy::handleRequest.                                                   *)

\* The browser has sent a request, or has closed.
RecvRequest(c) ==
  /\ At(c, "recv")
  /\ kind[c].stays # "recv"
  /\ Goto(c, "parse") \/ Goto(c, "done")
  /\ UNCHANGED <<running, listener, kind, server, opened, vector>>

Parse(c) ==
  /\ At(c, "parse")
  /\ kind[c].parse # "spins"
  /\ Goto(c, IF kind[c].parse = "ok" THEN "connect" ELSE "badRequest")
  /\ UNCHANGED <<running, listener, kind, server, opened, vector>>

\* 400 Bad Request is sent; then the catch block uses parser and deletes request.
\* The one whose constructor has not returned is uninitialised: the process may
\* or may not survive.
BadRequest(c) ==
  /\ At(c, "badRequest")
  /\ Goto(c, "done")
  /\ running' \in BOOLEAN
  /\ UNCHANGED <<listener, kind, server, opened, vector>>

BuggyOpens(c) == kind[c].host = "up"  \* a socket that could not be opened is used

Opens(c) == kind[c].host = "up" /\ opened < FdLimit

\* init_client_side opens a socket, and push_back begins.
ConnectServer(c) ==
  /\ At(c, "connect")
  /\ Opens(c)
  /\ server' = [server EXCEPT ![c] = opened + 1]
  /\ opened' = opened + 1
  /\ PushBegins(c, opened + 1)
  /\ Goto(c, "push")
  /\ UNCHANGED <<running, listener, kind, sockets>>

\* The host is unknown, or socket fails: init_client_side returns -1, which is
\* pushed and used like a descriptor.
NoServer(c) ==
  /\ At(c, "connect")
  /\ kind[c].host = "unknown" \/ opened >= FdLimit
  /\ server' = [server EXCEPT ![c] = Failed]
  /\ PushBegins(c, Failed)
  /\ Goto(c, "push")
  /\ UNCHANGED <<running, listener, kind, opened, sockets>>

\* SocketConnectError leaves the thread.
ConnectThrows(c) ==
  /\ At(c, "connect")
  /\ kind[c].host = "down" /\ opened < FdLimit
  /\ opened' = opened + 1
  /\ running' = FALSE
  /\ UNCHANGED <<listener, pc, kind, server, vector>>

BuggyPushServer(c) ==  \* the descriptor of the browser is pushed again
  /\ At(c, "push")
  /\ sockets' = Append(SubSeq(sockets, 1, Min({slot[c], Len(sockets)})), browser[c])
  /\ slot' = [slot EXCEPT ![c] = NoSlot]
  /\ Goto(c, "dispatch")
  /\ UNCHANGED <<running, listener, kind, server, opened, raced>>

PushServer(c) ==
  /\ At(c, "push")
  /\ PushEnds(c)
  /\ Goto(c, "dispatch")
  /\ UNCHANGED <<running, listener, kind, server, opened>>

\* FD_SET has a place for both descriptors of a tunnel.
FitFdSet(c) == {browser[c], server[c]} \subseteq 0 .. FdSetSize

BuggyFatal(c) ==  \* getMaxStale is called before the method is looked at
  CASE kind[c].maxStale = "none" -> {TRUE}
    [] kind[c].method = "CONNECT" /\ ~FitFdSet(c) -> BOOLEAN
    [] OTHER -> {FALSE}

\* What ends the process here: getMaxStale's stoi, for a GET whose max-stale has
\* no number, and, perhaps, FD_SET of -1 or of a descriptor beyond the set.
Fatal(c) ==
  CASE kind[c].method = "GET" /\ kind[c].maxStale = "none" -> {TRUE}
    [] kind[c].method = "CONNECT" /\ ~FitFdSet(c) -> BOOLEAN
    [] OTHER -> {FALSE}

Dispatch(c) ==
  /\ At(c, "dispatch")
  /\ \E fatal \in Fatal(c) :
       /\ running' = ~fatal
       /\ Goto(c, IF fatal THEN "dispatch" ELSE "serving")
  /\ UNCHANGED <<listener, kind, server, opened, vector>>

\* doPost, checkGet or connect returns.
Serve(c) ==
  /\ At(c, "serving")
  /\ kind[c].stays # "serving"
  /\ Goto(c, "done")
  /\ UNCHANGED <<running, listener, kind, server, opened, vector>>

HandleRequest(c) ==
  \/ RecvRequest(c) \/ Parse(c) \/ BadRequest(c)
  \/ ConnectServer(c) \/ NoServer(c) \/ ConnectThrows(c) \/ PushServer(c)
  \/ Dispatch(c) \/ Serve(c)

Run ==
  \/ InitServerSide \/ Accept \/ AcceptFails \/ AcceptThrows \/ Pushed
  \/ Spawn \/ SpawnThrows

Next ==
  \/ Run
  \/ \E c \in Connections : Connect(c) \/ HandleRequest(c)
  \/ \E t \in Threads : PushCrashes(t)

Spec == Init /\ [][Next]_vars

\* accept cannot wait, nor return a descriptor.
AcceptMustFail ==
  /\ ~listening \/ (backlog # <<>> /\ opened >= FdLimit)
  /\ AcceptFails

(***************************************************************************)
(* The operating system runs every thread that can run, and accept returns *)
(* when a connection waits.  Nothing makes accept fail, or a browser       *)
(* connect; and which browsers and servers stay silent is in kind.         *)
(***************************************************************************)
FairSpec ==
  /\ Spec
  /\ WF_vars(InitServerSide \/ Accept \/ AcceptMustFail)
  /\ WF_vars(AcceptThrows \/ Pushed \/ Spawn \/ SpawnThrows)
  /\ \A c \in Connections : WF_vars(HandleRequest(c))

-------------------------------------------------------------------------------
Locations ==
  {"away", "waiting", "recv", "parse", "badRequest", "connect", "push",
   "dispatch", "serving", "done"}

\* What a call that opens a descriptor may return.
Descriptors == {Failed} \cup 0 .. FdLimit

TypeOK ==
  /\ running \in BOOLEAN
  /\ loop \in {"start", "accept", "push", "pushFailed", "spawn", "failed"}
  /\ listening \in BOOLEAN /\ refused \in BOOLEAN
  /\ backlog \in Seq(Connections) /\ accepted \in Seq(Connections)
  /\ id \in Nat /\ ids \in [Connections -> Nat]
  /\ pc \in [Connections -> Locations]
  /\ kind \in [Connections -> Kinds]
  /\ browser \in [Connections -> {NoFd} \cup 1 .. FdLimit]
  /\ server \in [Connections -> {NoFd, Failed} \cup 1 .. FdLimit]
  /\ opened \in 0 .. FdLimit
  /\ sockets \in Seq(Descriptors) /\ raced \subseteq Descriptors
  /\ slot \in [Threads -> Int]

(***************************************************************************)
(* The ids in the log follow the order of acceptance: a handler has its    *)
(* number before it runs, no two have the same, and the n-th connection    *)
(* accepted is request n whatever the handlers do meanwhile.               *)
(***************************************************************************)
IdsFollowAcceptance ==
  \A i \in 1 .. Len(accepted) :
    pc[accepted[i]] # "waiting" => ids[accepted[i]] = i

\* A connection's handler has got past the accept loop.
Started(c) == pc[c] \notin {"away", "waiting"}

\* What open descriptors a finished push_back has added to sockets.
Registered ==
  {n \in 0 .. FdLimit :
     \/ n = ListenFd /\ listening
     \/ \E c \in Connections :
          \/ n = browser[c] /\ Started(c)
          \/ n = server[c] /\ slot[c] = NoSlot}

(***************************************************************************)
(* The race on sockets loses no more than the descriptors that were in it: *)
(* one whose push_back met no other thread's stays in the vector, whatever *)
(* races come after it, and none is in it twice, to be closed twice.       *)
(***************************************************************************)
OnlyRacedAreLost ==
  /\ Registered \ raced \subseteq ToSet(sockets)
  /\ \A i, j \in DOMAIN sockets :
       sockets[i] = sockets[j] /\ sockets[i] # Failed => i = j

(***************************************************************************)
(* What a handler has met where the process ended: a malformed request, a  *)
(* host that refuses the connection, a GET whose max-stale has no number,  *)
(* or a tunnel one of whose descriptors is none, or too great for FD_SET.  *)
(***************************************************************************)
EndedBy(c) ==
  \/ pc[c] = "done" /\ kind[c].parse \in {"parser", "request"}
  \/ pc[c] = "connect" /\ kind[c].host = "down"
  \/ /\ pc[c] = "dispatch"
     /\ \/ kind[c].method = "GET" /\ kind[c].maxStale = "none"
        \/ kind[c].method = "CONNECT" /\ ~FitFdSet(c)

(***************************************************************************)
(* Outside the functions that serve, the process ends only where one of    *)
(* those requests has come, in the race on sockets, or because the system  *)
(* has failed an accept or a new thread: no other request ends it.         *)
(***************************************************************************)
EndOfProcessHasCause ==
  ~running => refused \/ raced # {} \/ \E c \in Connections : EndedBy(c)

(***************************************************************************)
(* A connection that waits is accepted, and its handler comes to its end,  *)
(* unless one of its peers is silent for ever, or the header loop never    *)
(* ends on its request; or the process ends.                               *)
(***************************************************************************)
ConnectionsAreHandled ==
  \A c \in Connections :
    pc[c] = "waiting" ~>
      \/ ~running
      \/ pc[c] = "done"
      \/ pc[c] = kind[c].stays
      \/ pc[c] = "parse" /\ kind[c].parse = "spins"
===============================================================================
