------------------------------ MODULE PyDaemon ------------------------------
(***************************************************************************)
(* freecoind, the daemon in Python: the main thread starts the thread of a *)
(* socket server and registers the server's shut-down to run at exit.  The *)
(* interpreter is external: at the end of the main thread it waits for the *)
(* other threads, then runs what is registered; an interrupt ends the wait.*)
(* The server starts a thread per connection that reads until the client   *)
(* closes.                                                                 *)
(***************************************************************************)
EXTENDS Naturals

CONSTANT Clients

VARIABLES
    main,       \* where the main thread is
    server,     \* "off", "listening", "serving" (the thread of serve_forever) or "stopped"
    registered, \* the shut-down is registered
    request,    \* a shut-down is requested
    signals,    \* history: 0, 1, or 2 and more interrupts have come
    client      \* client[c]: "off", "queued", "open", "closing" or "done"

pyVars == <<main, server, registered, request, signals, client>>

PyInit ==
    /\ main = "start" /\ server = "off" /\ registered = FALSE /\ request = FALSE /\ signals = 0
    /\ client = [c \in Clients |-> "off"]

Main(from, to) == main = from /\ main' = to

\* Server(...), which listens; thread.start(); atexit.register(...)
Bind ==
    /\ Main("start", "bound") /\ server' = "listening"
    /\ UNCHANGED <<registered, request, signals, client>>
StartThread ==
    /\ Main("bound", "started") /\ server' = "serving"
    /\ UNCHANGED <<registered, request, signals, client>>

\* The address is in use (OSError), or no thread can be started.
Raises ==
    /\ main \in {"start", "bound"} /\ main' = "waiting"
    /\ UNCHANGED <<server, registered, request, signals, client>>

\* (mutation) the shut-down runs at the end of the main thread
Register_direct ==
    /\ Main("started", "exit") /\ registered' = TRUE
    /\ UNCHANGED <<server, request, signals, client>>

\* With it the main thread is at its end.
Register ==
    /\ Main("started", "waiting") /\ registered' = TRUE
    /\ UNCHANGED <<server, request, signals, client>>

\* An interrupt ends the main thread where it is, or the wait for the others, or
\* the shut-down that runs at exit and with it the process.
Interrupt ==
    /\ \/ main \in {"start", "bound", "started"} /\ main' = "waiting"
       \/ Main("waiting", "exit")
       \/ main \in {"exit", "shutdown"} /\ main' = "ended"
    /\ signals' = IF signals = 0 THEN 1 ELSE 2
    /\ UNCHANGED <<server, registered, request, client>>

\* The wait ends by itself only if the server's thread does not run.
WaitOver ==
    /\ Main("waiting", "exit") /\ server # "serving"
    /\ UNCHANGED <<server, registered, request, signals, client>>

\* (mutation) the request is not made
Shutdown_lost ==
    /\ registered /\ Main("exit", "shutdown")
    /\ UNCHANGED <<server, registered, request, signals, client>>

\* server.shutdown(): a request, and a wait for the loop's end.
Shutdown ==
    /\ registered /\ Main("exit", "shutdown") /\ request' = TRUE
    /\ UNCHANGED <<server, registered, signals, client>>
End ==
    /\ \/ Main("shutdown", "ended") /\ server = "stopped"
       \/ Main("exit", "ended") /\ ~registered
    /\ UNCHANGED <<server, registered, request, signals, client>>

\* serve_forever looks for a request after each connection and twice a second.
Stop ==
    /\ server = "serving" /\ request /\ server' = "stopped"
    /\ UNCHANGED <<main, registered, request, signals, client>>

Move(c, from, to) ==
    /\ client[c] = from /\ client' = [client EXCEPT ![c] = to]
    /\ UNCHANGED <<main, server, registered, request, signals>>

Connect(c) == server # "off" /\ main # "ended" /\ Move(c, "off", "queued")
Serve(c) == server = "serving" /\ main # "ended" /\ Move(c, "queued", "open")
Close(c) == Move(c, "open", "closing")   \* the client's side

\* The loop receives nothing, and closes.
handle_connection(c) == main # "ended" /\ Move(c, "closing", "done")

PyNext ==
    \/ Bind \/ StartThread \/ Raises \/ Register \/ Interrupt \/ WaitOver \/ Shutdown \/ End \/ Stop
    \/ \E c \in Clients : Connect(c) \/ Serve(c) \/ Close(c) \/ handle_connection(c)

PySpec == PyInit /\ [][PyNext]_pyVars

\* Threads run; nobody has to connect, close or interrupt.
PyProgress == Bind \/ StartThread \/ Register \/ WaitOver \/ Shutdown \/ End \/ Stop

-----------------------------------------------------------------------------
(* A server that has been started serves until an interrupt comes, although *)
(* its shut-down is registered at once; and when that is registered, the    *)
(* process does not end before the server has stopped, unless a second      *)
(* interrupt ends the wait for it.                                          *)
ServesUntilInterrupt ==
    /\ server = "stopped" \/ (server = "serving" /\ main = "ended") => signals > 0
    /\ registered /\ main = "ended" => server = "stopped" \/ signals > 1

(* An interrupt after the registration ends the wait, the server and then   *)
(* the process; before it, with the server running, it only ends the main   *)
(* thread, and the process waits for another one.                           *)
InterruptEnds == signals > 0 /\ (registered \/ server \in {"off", "listening"}) ~> main = "ended"

(* The thread of a connection ends when its client has closed, unless the   *)
(* process ends first.                                                      *)
ConnectionsEnd == \A c \in Clients : client[c] = "closing" ~> client[c] = "done" \/ main = "ended"

(* Under the fairness of the threads everything that was asked to end does. *)
ThreadsEnd == InterruptEnds /\ ConnectionsEnd
=============================================================================
