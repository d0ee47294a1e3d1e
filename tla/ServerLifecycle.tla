-------------------------- MODULE ServerLifecycle --------------------------
(***************************************************************************)
(* The C++ process from start to exit: main, the detached expiry thread,   *)
(* TcpServer::run and stop, and signals, whose handler runs between any    *)
(* two steps of either thread.  What the event loop and the sweep do with  *)
(* data is the business of TcpServer and KVStore.                          *)
(***************************************************************************)
EXTENDS Naturals

CONSTANT MaxSignals  \* bound on the signals delivered

ASSUME SignalsAssumption == MaxSignals \in Nat

VARIABLES
  main,      \* the next statement of main, or of run() and event_loop() in it
  expiry,    \* the expiry thread
  store,     \* the KVStore: "none", "alive" or "gone"
  server,    \* main's local TcpServer, likewise
  g_server,  \* whether the global pointer is set
  running_,
  signals,   \* signals delivered
  asked,     \* history: the handler has called stop() on a live server
  failed     \* history: run() threw, or epoll_wait failed

lifeVars == <<main, expiry, store, server, g_server, running_, signals, asked, failed>>

Init ==
  /\ main = "install"
  /\ expiry = "none"
  /\ store = "none" /\ server = "none" /\ g_server = FALSE
  /\ running_ = FALSE
  /\ signals = 0
  /\ asked = FALSE /\ failed = FALSE

Ended == main \in {"exited", "killed", "aborted"}

Goto(from, to) == main = from /\ main' = to

-----------------------------------------------------------------------------
\* main.

InstallHandlers ==
  /\ Goto("install", "threads")
  /\ UNCHANGED <<expiry, store, server, g_server, running_, signals, asked, failed>>

StartThreads ==
  /\ Goto("threads", "construct")
  /\ store' = "alive"
  /\ expiry' = "sleep"
  /\ UNCHANGED <<server, g_server, running_, signals, asked, failed>>

\* std::stoi is outside the try block: a bad QUARKCACHE_PORT ends in terminate().
BadPort ==
  /\ Goto("construct", "aborted")
  /\ UNCHANGED <<expiry, store, server, g_server, running_, signals, asked, failed>>

Construct ==
  /\ Goto("construct", "publish")
  /\ server' = "alive"
  /\ UNCHANGED <<expiry, store, g_server, running_, signals, asked, failed>>

Publish ==
  /\ Goto("publish", "setup")
  /\ g_server' = TRUE
  /\ UNCHANGED <<expiry, store, server, running_, signals, asked, failed>>

\* run(): the listening socket and the epoll set ...
Setup ==
  /\ Goto("setup", "starting")
  /\ UNCHANGED <<expiry, store, server, g_server, running_, signals, asked, failed>>

\* ... or an exception: the port is taken, the host is invalid.  In the loop,
\* set_nonblocking throws.  main catches it and returns 1.
RunThrows ==
  /\ main \in {"setup", "wait"}
  /\ main' = "return"
  /\ failed' = TRUE
  /\ UNCHANGED <<expiry, store, server, g_server, running_, signals, asked>>

Starting ==
  /\ Goto("starting", "check")
  /\ running_' = TRUE
  /\ UNCHANGED <<expiry, store, server, g_server, signals, asked, failed>>

\* while (running_)
Check ==
  /\ main = "check"
  /\ main' = IF running_ THEN "wait" ELSE "return"
  /\ UNCHANGED <<expiry, store, server, g_server, running_, signals, asked, failed>>

\* Fault: after a batch or a time out the loop waits again without a look at running_.
WaitForever == main = "wait" /\ UNCHANGED lifeVars

\* Fault: EINTR (a handler, a process stopped and continued) ends the loop.
WaitEnds ==
  /\ Goto("wait", "return")
  /\ UNCHANGED <<expiry, store, server, g_server, running_, signals, asked, failed>>

\* Events, nothing in 100 ms, or EINTR: "continue".
Wait ==
  /\ Goto("wait", "check")
  /\ UNCHANGED <<expiry, store, server, g_server, running_, signals, asked, failed>>

\* Any other error of epoll_wait: "break".
WaitFails ==
  /\ Goto("wait", "return")
  /\ failed' = TRUE
  /\ UNCHANGED <<expiry, store, server, g_server, running_, signals, asked>>

\* The locals of main are destroyed in the reverse of their order: the server
\* (its destructor calls stop()), later the last reference to the store.
DestroyServer ==
  /\ Goto("return", "release")
  /\ server' = "gone"
  /\ running_' = FALSE
  /\ UNCHANGED <<expiry, store, g_server, signals, asked, failed>>

ReleaseStore ==
  /\ Goto("release", "exit")
  /\ store' = "gone"
  /\ UNCHANGED <<expiry, server, g_server, running_, signals, asked, failed>>

\* exit() runs the static destructors, then the process ends, and with it the
\* detached thread.
Exit ==
  /\ Goto("exit", "exited")
  /\ UNCHANGED <<expiry, store, server, g_server, running_, signals, asked, failed>>

Main ==
  \/ InstallHandlers \/ StartThreads \/ Construct \/ Publish
  \/ Setup \/ Starting \/ Check \/ Wait
  \/ DestroyServer \/ ReleaseStore \/ Exit

Failure == BadPort \/ RunThrows \/ WaitFails

-----------------------------------------------------------------------------
\* The expiry thread reaches the store through a reference to main's local.

Wake ==
  /\ ~Ended /\ expiry = "sleep"
  /\ expiry' = "sweep"
  /\ UNCHANGED <<main, store, server, g_server, running_, signals, asked, failed>>

Swept ==
  /\ ~Ended /\ expiry = "sweep"
  /\ expiry' = "sleep"
  /\ UNCHANGED <<main, store, server, g_server, running_, signals, asked, failed>>

-----------------------------------------------------------------------------
\* SIGINT or SIGTERM.  Without a handler it kills the process; with one and no
\* server yet it does nothing.
Signal ==
  /\ ~Ended /\ signals < MaxSignals
  /\ signals' = signals + 1
  /\ IF main = "install"
       THEN /\ main' = "killed"
            /\ UNCHANGED <<running_, asked>>
       ELSE /\ running_' = IF g_server THEN FALSE ELSE running_
            /\ asked' = (asked \/ (g_server /\ server = "alive"))
            /\ UNCHANGED main
  /\ UNCHANGED <<expiry, store, server, g_server, failed>>

\* An ended process stays ended.
Rest == Ended /\ UNCHANGED lifeVars

Next == Main \/ Failure \/ Wake \/ Swept \/ Signal \/ Rest

Spec == Init /\ [][Next]_lifeVars

\* main's thread is scheduled; failures, signals and sweeps are not owed.
FairSpec == Spec /\ WF_lifeVars(Main)

-----------------------------------------------------------------------------
LifeTypeOK ==
  /\ main \in {"install", "threads", "construct", "publish", "setup", "starting",
               "check", "wait", "return", "release", "exit",
               "exited", "killed", "aborted"}
  /\ expiry \in {"none", "sleep", "sweep"}
  /\ store \in {"none", "alive", "gone"}
  /\ server \in {"none", "alive", "gone"}
  /\ g_server \in BOOLEAN /\ running_ \in BOOLEAN
  /\ signals \in 0..MaxSignals
  /\ asked \in BOOLEAN /\ failed \in BOOLEAN

Serving == main \in {"check", "wait"}

\* run() returns only if stop() was called on the server or something failed:
\* neither an interrupted epoll_wait nor a signal that came too early ends it.
ReturnsOnlyIfStopped ==
  main \in {"return", "release", "exit", "exited"} => asked \/ failed

\* A signal that arrives while the loop runs ends the process, wherever the loop
\* is: the time out of epoll_wait covers a stop() just before the wait.
StopsOnceServing == (Serving /\ ~running_) ~> Ended

\* server.hpp: run "Blocks until stop() is called from another thread or process
\* receives SIGINT".  So a stop() ends it, however early.
StopHonoured == asked ~> Ended

\* README: the store's shared_ptr is "Shared ownership between server + expiry
\* thread".  So the thread never works on a store that is gone.
SweepsLiveStore == (expiry = "sweep" /\ ~Ended) => store = "alive"

\* main.cpp: "Global so the signal handler can stop the server cleanly."  So the
\* handler never calls stop() on a server that is gone.
HandlerFindsServer == [][signals' # signals /\ g_server => server = "alive"]_lifeVars
=============================================================================
