---------------------------- MODULE DebugServer ----------------------------
(***************************************************************************)
(* DebugServer (src/src/debug_server/debug_server.cc) on the io loop of    *)
(* src/src/io/io.cc: an acceptor that main() and every new configuration   *)
(* replace, the asynchronous accept that keeps it served, and one HTTP     *)
(* session per client.  Handlers run one after the other on the io thread; *)
(* start runs on the thread that calls it.                                 *)
(*                                                                         *)
(* Of the acceptors only the current one can be listening: replacing it    *)
(* destroys the old one, which aborts its accepts and resets the clients   *)
(* in its backlog.                                                         *)
(***************************************************************************)
EXTENDS Integers, Sequences, FiniteSets

CONSTANTS
  Callers,       \* threads that may call start
  NoAddress,     \* nothing listens; address_ is empty
  BadAddresses,  \* addresses make_address throws at
  BusyAddresses, \* addresses bind may fail for
  Clients,       \* HTTP clients, one connection each
  DebugSubs      \* objects that may be in subscriber_list_

VARIABLES
  running,      \* running_
  address,      \* address_ and port_
  listening,    \* the address the acceptor listens on
  accepts,      \* async_accept operations pending on it
  handlers,     \* completed accepts whose handler has not run, in order
  conn,         \* [Clients -> where the connection is]
  debugSubs,    \* *subscriber_list_
  starting,     \* [Callers -> where start is]
  acceptFailed  \* an accept has failed since the acceptor listens

debugVars ==
  <<running, address, listening, accepts, handlers, conn, debugSubs, starting, acceptFailed>>

NotStarting == [pc |-> "no"]
StartAt(t, place) == starting[t].pc = place
StartGo(t, place) == starting' = [starting EXCEPT ![t].pc = place]
Error == "error"

-----------------------------------------------------------------------------
(* stop() does nothing unless running_ was set.                            *)
StopEffect(stops) ==
  /\ running' = (running /\ ~stops)
  /\ IF stops /\ running
     THEN /\ address' = NoAddress /\ listening' = NoAddress /\ accepts' = 0
          /\ handlers' = handlers \o [k \in 1..accepts |-> Error]
          /\ conn' = [c \in Clients |-> IF conn[c] = "backlog" THEN "closed" ELSE conn[c]]
     ELSE UNCHANGED <<address, listening, accepts, handlers, conn>>

DebugStop == StopEffect(TRUE) /\ UNCHANGED <<debugSubs, starting, acceptFailed>>

Listen(cfg) == <<cfg.dbgAddr, cfg.dbgPort>>

(* update: which of stop and start it calls.                               *)
NeedsStop(cfg) == running /\ (~cfg.dbgEnabled \/ Listen(cfg) # address)
NeedsStartOnce(cfg) == cfg.dbgEnabled /\ listening = NoAddress  \* mutant: one start is enough
NeedsStart(cfg) == cfg.dbgEnabled /\ (running => Listen(cfg) # address)

DebugUpdate(t, cfg) ==
  /\ StopEffect(NeedsStop(cfg))
  /\ starting' = [starting EXCEPT ![t] =
       IF NeedsStart(cfg) THEN [pc |-> "replace", addr |-> Listen(cfg)] ELSE NotStarting]
  /\ UNCHANGED <<debugSubs, acceptFailed>>

-----------------------------------------------------------------------------
(* start, in three steps: the address is stored and the acceptor           *)
(* replaced ...                                                            *)
DebugStart(t) ==
  /\ StartAt(t, "replace")
  /\ address' = starting[t].addr
  /\ listening' = NoAddress /\ accepts' = 0
  /\ handlers' = handlers \o [k \in 1..accepts |-> Error]
  /\ conn' = [c \in Clients |-> IF conn[c] = "backlog" THEN "closed" ELSE conn[c]]
  /\ acceptFailed' = FALSE
  /\ StartGo(t, "listen")
  /\ UNCHANGED <<running, debugSubs>>

(* ... make_address may throw, and open, bind or listen may fail, which    *)
(* leaves an acceptor that does not listen ...                             *)
DebugListenThrows(t) ==
  /\ StartAt(t, "listen") /\ address \in BadAddresses
  /\ starting' = [starting EXCEPT ![t] = NotStarting]
  /\ UNCHANGED <<running, address, listening, accepts, handlers, conn, debugSubs, acceptFailed>>

DebugListenFails(t) ==
  /\ StartAt(t, "listen") /\ address \in BusyAddresses
  /\ starting' = [starting EXCEPT ![t] = NotStarting]
  /\ UNCHANGED <<running, address, listening, accepts, handlers, conn, debugSubs, acceptFailed>>

DebugListen(t) ==
  /\ StartAt(t, "listen") /\ address \notin BadAddresses
  /\ listening' = address
  /\ StartGo(t, "accept")
  /\ UNCHANGED <<running, address, accepts, handlers, conn, debugSubs, acceptFailed>>

(* ... and doAccept.                                                       *)
DebugAccept(t) ==
  /\ StartAt(t, "accept")
  /\ accepts' = accepts + 1
  /\ starting' = [starting EXCEPT ![t] = NotStarting]
  /\ UNCHANGED <<running, address, listening, handlers, conn, debugSubs, acceptFailed>>

-----------------------------------------------------------------------------
(* The clients and the kernel                                              *)
Connect(c) ==
  /\ conn[c] = "none" /\ listening # NoAddress
  /\ conn' = [conn EXCEPT ![c] = "backlog"]
  /\ UNCHANGED <<running, address, listening, accepts, handlers, debugSubs, starting, acceptFailed>>

AcceptCompletes(c) ==
  /\ accepts > 0 /\ conn[c] = "backlog"
  /\ accepts' = accepts - 1
  /\ handlers' = Append(handlers, c)
  /\ conn' = [conn EXCEPT ![c] = "accepted"]
  /\ UNCHANGED <<running, address, listening, debugSubs, starting, acceptFailed>>

(* The process is out of descriptors, or the acceptor is not listening.    *)
AcceptFails ==
  /\ accepts > 0
  /\ accepts' = accepts - 1
  /\ handlers' = Append(handlers, Error)
  /\ acceptFailed' = (acceptFailed \/ listening # NoAddress)
  /\ UNCHANGED <<running, address, listening, conn, debugSubs, starting>>

(* A client that is being read sends its request, for /api/debug or for    *)
(* something else, or goes away.                                           *)
Request(c) ==
  /\ conn[c] = "reading"
  /\ \E what \in {"debug", "other", "gone"} : conn' = [conn EXCEPT ![c] = what]
  /\ UNCHANGED <<running, address, listening, accepts, handlers, debugSubs, starting, acceptFailed>>

-----------------------------------------------------------------------------
(* The handlers.  on_accept: an error ends the accepting unless running_   *)
(* is set; a client is read, and the acceptor of now accepts again.        *)
OnAcceptError ==
  /\ handlers # <<>> /\ Head(handlers) = Error
  /\ handlers' = Tail(handlers)
  /\ accepts' = IF running THEN accepts + 1 ELSE accepts
  /\ UNCHANGED <<running, address, listening, conn, debugSubs, starting, acceptFailed>>

OnAcceptOnce ==    \* mutant: the next accept is forgotten
  /\ handlers # <<>> /\ Head(handlers) # Error
  /\ handlers' = Tail(handlers)
  /\ conn' = [conn EXCEPT ![Head(handlers)] = "reading"]
  /\ UNCHANGED <<running, address, listening, accepts, debugSubs, starting, acceptFailed>>

OnAccept ==
  /\ handlers # <<>> /\ Head(handlers) # Error
  /\ handlers' = Tail(handlers)
  /\ conn' = [conn EXCEPT ![Head(handlers)] = "reading"]
  /\ accepts' = accepts + 1
  /\ UNCHANGED <<running, address, listening, debugSubs, starting, acceptFailed>>

(* on_read and sendResponse: notify asks every subscriber of the list it   *)
(* has loaded.  on_write ends the session.                                 *)
OnReadDebugForgetting(c) ==    \* mutant: the answer is never sent
  /\ conn[c] = "debug"
  /\ UNCHANGED <<running, address, listening, accepts, handlers, conn, debugSubs, starting, acceptFailed>>

OnReadDebug(c) ==
  /\ conn[c] = "debug"
  /\ conn' = [conn EXCEPT ![c] = "answered"]
  /\ UNCHANGED <<running, address, listening, accepts, handlers, debugSubs, starting, acceptFailed>>

OnReadOther(c) ==
  /\ conn[c] = "other"
  /\ conn' = [conn EXCEPT ![c] = "answered"]
  /\ UNCHANGED <<running, address, listening, accepts, handlers, debugSubs, starting, acceptFailed>>

OnReadError(c) ==
  /\ conn[c] = "gone"
  /\ conn' = [conn EXCEPT ![c] = "closed"]
  /\ UNCHANGED <<running, address, listening, accepts, handlers, debugSubs, starting, acceptFailed>>

DebugHandler ==
  OnAcceptError \/ OnAccept \/ \E c \in Clients : OnReadDebug(c) \/ OnReadOther(c) \/ OnReadError(c)

-----------------------------------------------------------------------------
(* attach and detach replace the list by a changed copy.                   *)
DebugAttach(s) ==
  /\ debugSubs' = debugSubs \cup {s}
  /\ UNCHANGED <<running, address, listening, accepts, handlers, conn, starting, acceptFailed>>

DebugDetach(s) ==
  /\ debugSubs' = debugSubs \ {s}
  /\ UNCHANGED <<running, address, listening, accepts, handlers, conn, starting, acceptFailed>>

DebugInit(start) ==
  /\ running = FALSE
  /\ address = NoAddress /\ listening = NoAddress
  /\ accepts = 0 /\ handlers = <<>>
  /\ conn = [c \in Clients |-> "none"]
  /\ debugSubs = {}
  /\ starting = start
  /\ acceptFailed = FALSE

StartStep(t) == DebugStart(t) \/ DebugListenFails(t) \/ DebugListen(t) \/ DebugAccept(t)
=============================================================================
