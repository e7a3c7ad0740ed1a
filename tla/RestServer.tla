----------------------------- MODULE RestServer -----------------------------
(***************************************************************************)
(* The life of a RestAPIServer (extensions/aille_rest_api.cpp): callers    *)
(* start it, in their own thread or in a worker, stop it and destroy it,   *)
(* while the listener starts, serves, fails, throws or winds down.         *)
(***************************************************************************)
EXTENDS Naturals, FiniteSets

CONSTANTS Callers,    \* threads of the host
          Owner,      \* the one that destroys the server
          Worker,     \* the thread behind server_thread_
          NoThread

ASSUME RestAssumption == /\ Owner \in Callers
                         /\ Worker \notin Callers
                         /\ NoThread \notin Callers

RestThreads == Callers \cup {Worker}

VARIABLES
    restPc,      \* where each thread is
    call,        \* what each caller called last
    up,          \* running_
    pending,     \* startup_pending_
    active,      \* listener_active_
    lifecycle,   \* the holder of lifecycle_mutex_
    worker,      \* server_thread_: "none" (not joinable), "live", "done"
    http         \* *server_: "none", "made", "listening", "failed", "stopping", "over",
                 \* "thrown": neither running nor decommissioned

restVars == <<restPc, call, up, pending, active, lifecycle, worker, http>>

\* The part of runServer that works on the object server_.
Serving == {"bind", "publish", "announce", "listen"}
\* All of runServer, which touches the members of the server.
Inside == Serving \cup {"create", "abort", "retire"}

RestInit ==
    /\ restPc = [t \in RestThreads |-> "idle"]
    /\ call = [c \in Callers |-> "none"]
    /\ up = FALSE /\ pending = FALSE /\ active = FALSE
    /\ lifecycle = NoThread
    /\ worker = "none"
    /\ http = "none"

Goto(t, place) == restPc' = [restPc EXCEPT ![t] = place]

\* A caller leaves the mutex and returns; a destructor goes on to its join.
Release(c) ==
    /\ lifecycle' = NoThread
    /\ Goto(c, IF call[c] = "destroy" THEN "join" ELSE "idle")

\* A caller enters one of the public operations. Only the owner starts the
\* worker and destroys the server, and it destroys it while no other thread is
\* in a call, but for a blocking start that has got as far as runServer.
Call(c, what) ==
    /\ restPc[c] = "idle"
    /\ \A o \in Callers : restPc[o] # "gone"
    /\ what \in {"async", "destroy"} => c = Owner
    /\ what = "destroy" => \A o \in Callers : restPc[o] \in Inside \cup {"idle"}
    /\ \A o \in Callers : call[o] = "destroy" => restPc[o] = "idle"
    /\ call' = [call EXCEPT ![c] = what]
    /\ Goto(c, "lock")
    /\ UNCHANGED <<up, pending, active, lifecycle, worker, http>>

Acquire(c) ==
    /\ restPc[c] = "lock" /\ lifecycle = NoThread
    /\ lifecycle' = c
    /\ Goto(c, IF call[c] \in {"start", "async"} THEN "prepare" ELSE "settle")
    /\ UNCHANGED <<call, up, pending, active, worker, http>>

\* prepareStart, up to the join of the worker of an earlier start.
Prepare(c) ==
    /\ restPc[c] = "prepare"
    /\ \/ /\ up \/ pending
          /\ Release(c)
          /\ UNCHANGED worker
       \/ /\ ~up /\ ~pending /\ worker # "live"
          /\ worker' = "none"
          /\ Goto(c, "claim")
          /\ UNCHANGED lifecycle
    /\ UNCHANGED <<call, up, pending, active, http>>

\* Mutant: a blocking start that is still shutting down is not waited for.
ClaimUnchecked(c) ==
    /\ restPc[c] = "claim"
    /\ pending' = TRUE /\ active' = TRUE
    /\ IF call[c] = "start"
         THEN lifecycle' = NoThread /\ Goto(c, "create")
         ELSE UNCHANGED lifecycle /\ Goto(c, "spawn")
    /\ UNCHANGED <<call, up, worker, http>>

\* prepareStart's last check and its two flags. A blocking start leaves the
\* mutex here and runs the server itself.
Claim(c) ==
    /\ restPc[c] = "claim"
    /\ IF active
         THEN Release(c) /\ UNCHANGED <<pending, active>>
         ELSE /\ pending' = TRUE /\ active' = TRUE
              /\ IF call[c] = "start"
                   THEN lifecycle' = NoThread /\ Goto(c, "create")
                   ELSE UNCHANGED lifecycle /\ Goto(c, "spawn")
    /\ UNCHANGED <<call, up, worker, http>>

\* startAsync creates its thread, or fails to and takes the flags back.
Spawn(c) ==
    /\ restPc[c] = "spawn"
    /\ \/ /\ worker' = "live"
          /\ restPc' = [restPc EXCEPT ![c] = "spin", ![Worker] = "create"]
          /\ UNCHANGED <<pending, active, lifecycle>>
       \/ /\ pending' = FALSE /\ active' = FALSE
          /\ Release(c)
          /\ UNCHANGED worker
    /\ UNCHANGED <<call, up, http>>

\* startAsync and stop spin until the startup is decided; then they wait for a
\* listener, if there is one.
Decided(c) ==
    /\ restPc[c] \in {"spin", "settle"} /\ ~pending
    /\ IF up /\ http # "none"
         THEN Goto(c, "ready") /\ UNCHANGED lifecycle
         ELSE Release(c)
    /\ UNCHANGED <<call, up, pending, active, worker, http>>

\* wait_until_ready returns once the listener runs or is decommissioned, and
\* spins on one that has thrown.
Ready(c) ==
    /\ restPc[c] = "ready" /\ http \in {"listening", "stopping", "failed"}
    /\ IF call[c] = "async"
         THEN Release(c)
         ELSE Goto(c, "halt") /\ UNCHANGED lifecycle
    /\ UNCHANGED <<call, up, pending, active, worker, http>>

\* stop: the listener is told to end and running_ is cleared.
Halt(c) ==
    /\ restPc[c] = "halt"
    /\ http' = IF http = "listening" THEN "stopping" ELSE http
    /\ up' = FALSE
    /\ Release(c)
    /\ UNCHANGED <<call, pending, active, worker>>

\* The destructor joins the worker, waits for a blocking start and deletes.
Destroy(c) ==
    /\ \/ /\ restPc[c] = "join" /\ worker # "live"
          /\ worker' = "none"
          /\ Goto(c, "drain")
          /\ UNCHANGED http
       \/ /\ restPc[c] = "drain" /\ ~active
          /\ http' = "none"
          /\ Goto(c, "gone")
          /\ UNCHANGED worker
    /\ UNCHANGED <<call, up, pending, active, lifecycle>>

-----------------------------------------------------------------------------
\* runServer, in the worker or in the thread of a blocking start: the object of
\* the last run is replaced and its routes are set up, which may throw.
Create(t) ==
    /\ restPc[t] = "create"
    /\ \E outcome \in {"bind", "abort"} : Goto(t, outcome)
    /\ http' = "made"
    /\ UNCHANGED <<call, up, pending, active, lifecycle, worker>>

Bind(t) ==
    /\ restPc[t] = "bind"
    /\ \/ Goto(t, "publish") /\ UNCHANGED pending
       \/ Goto(t, "retire") /\ pending' = FALSE
    /\ UNCHANGED <<call, up, active, lifecycle, worker, http>>

\* Mutant: the end of the startup is announced before the server is running.
PublishLate(t) ==
    /\ \/ restPc[t] = "publish" /\ pending' = FALSE /\ Goto(t, "announce") /\ UNCHANGED up
       \/ restPc[t] = "announce" /\ up' = TRUE /\ Goto(t, "listen") /\ UNCHANGED pending
    /\ UNCHANGED <<call, active, lifecycle, worker, http>>

\* running_ first, then startup_pending_.
Publish(t) ==
    /\ \/ restPc[t] = "publish" /\ up' = TRUE /\ Goto(t, "announce") /\ UNCHANGED pending
       \/ restPc[t] = "announce" /\ pending' = FALSE /\ Goto(t, "listen") /\ UNCHANGED up
    /\ UNCHANGED <<call, active, lifecycle, worker, http>>

\* The listener of the HTTP library begins, or finds no socket and is
\* decommissioned.
Listen(t) ==
    /\ restPc[t] = "listen" /\ http = "made"
    /\ http' \in {"listening", "failed"}
    /\ UNCHANGED <<restPc, call, up, pending, active, lifecycle, worker>>

\* listen_after_bind returns: stopped, or after an error of its own.
ListenEnds(t) ==
    /\ restPc[t] = "listen" /\ http \in {"stopping", "failed"}
    /\ http' = IF http = "stopping" THEN "over" ELSE http
    /\ up' = FALSE
    /\ Goto(t, "retire")
    /\ UNCHANGED <<call, pending, active, lifecycle, worker>>

\* An accept that fails for good decommissions the listener.
ListenFails(t) ==
    /\ restPc[t] = "listen" /\ http = "listening"
    /\ http' = "failed"
    /\ UNCHANGED <<restPc, call, up, pending, active, lifecycle, worker>>

\* An exception out of listen_after_bind, of its thread pool for one, clears
\* is_running_ on its way and decommissions nothing.
ListenThrows(t) ==
    /\ restPc[t] = "listen" /\ http \in {"listening", "stopping"}
    /\ http' = "thrown"
    /\ Goto(t, "abort")
    /\ UNCHANGED <<call, up, pending, active, lifecycle, worker>>

\* The catch block of runServer.
Abort(t) ==
    /\ restPc[t] = "abort"
    /\ up' = FALSE /\ pending' = FALSE
    /\ Goto(t, "retire")
    /\ UNCHANGED <<call, active, lifecycle, worker, http>>

\* listener_active_ = false is the last thing runServer does to the server.
Retire(t) ==
    /\ restPc[t] = "retire"
    /\ active' = FALSE
    /\ worker' = IF t = Worker THEN "done" ELSE worker
    /\ Goto(t, "idle")
    /\ UNCHANGED <<call, up, pending, lifecycle, http>>

RunServer(t) == Create(t) \/ Bind(t) \/ Publish(t) \/ Listen(t) \/ ListenEnds(t)
                \/ Abort(t) \/ Retire(t)

Operation(c) == Acquire(c) \/ Prepare(c) \/ Claim(c) \/ Spawn(c) \/ Decided(c)
                \/ Ready(c) \/ Halt(c) \/ Destroy(c)

RestNext ==
    \/ \E c \in Callers, what \in {"start", "async", "stop", "destroy"} : Call(c, what)
    \/ \E c \in Callers : Operation(c)
    \/ \E t \in RestThreads : RunServer(t) \/ ListenFails(t) \/ ListenThrows(t)

\* Threads run; the system's mutex is granted to a waiter in the end. Nobody is
\* obliged to call, and a listener need neither fail nor throw.
RestFairness ==
    /\ \A c \in Callers : WF_restVars(Operation(c)) /\ SF_restVars(Acquire(c))
    /\ \A t \in RestThreads : WF_restVars(RunServer(t))

RestSpec == RestInit /\ [][RestNext]_restVars

-----------------------------------------------------------------------------
\* The object behind server_ is replaced or deleted only while no thread works
\* with it, and no thread touches a destroyed server: at most one thread is in
\* runServer, and none once the destructor has returned
\* (aille_rest_api.cpp:18, :272, :300).
ServerObjectSafe ==
    /\ \A s, t \in RestThreads : restPc[s] \in Inside /\ restPc[t] \in Inside => s = t
    /\ \A c \in Callers : restPc[c] = "gone" => \A t \in RestThreads : restPc[t] \notin Inside

\* A caller waits, with the mutex in its hand, for a listener that has thrown.
Abandoned == http = "thrown" /\ \E c \in Callers : restPc[c] = "ready"

\* stop ends, and so does the destructor, whatever the other callers, the startup
\* and the listener do in the meantime (aille_rest_api.cpp:344 spins on the
\* startup and waits for the listener with the mutex in its hand), with one
\* exception that the code has: an exception of the listener that comes before a
\* caller in wait_until_ready has seen it run leaves that caller, and all who
\* want the mutex, waiting for good (:297, :352).
StopEnds ==
    \A c \in Callers :
        /\ call[c] = "stop" /\ restPc[c] # "idle" ~> restPc[c] = "idle" \/ Abandoned
        /\ call[c] = "destroy" ~> restPc[c] = "gone" \/ Abandoned
=============================================================================
