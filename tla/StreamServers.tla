--------------------------- MODULE StreamServers ---------------------------
(***************************************************************************)
(* The three servers that stream JSON over WebSockets: the spire's          *)
(* (extensions/aille_websocket.cpp), the FS gateway                         *)
(* (ailee_runtime/fs_gateway/fs_gateway.cpp) and the dashboard's observer   *)
(* (plugins/dashboard/LiveAdvisoryObserver.cpp).  Each has a thread in the  *)
(* event loop of the library, a set of connections under a mutex, and       *)
(* somebody who broadcasts.  They differ in the order of their steps, which *)
(* is written down as data: the operations are sequences of steps.          *)
(***************************************************************************)
EXTENDS Naturals, Sequences, SequencesExt

CONSTANTS Kinds,        \* which of the three servers a behaviour may have
          Clients,
          Nobody,       \* no client
          Parts,        \* frames of a cycle of the gateway: six in the code
          MaxStarts,    \* bound: starts of one server
          MaxCycles     \* bound: cycles the gateway counts

ASSUME StreamServerAssumption ==
    /\ Kinds \subseteq {"spire", "gateway", "dashboard"}
    /\ Nobody \notin Clients
    /\ Parts \in Nat \ {0}
    /\ MaxStarts \in Nat /\ MaxCycles \in Nat

VARIABLES
    kind,        \* the server of this behaviour
    op,          \* what the host is doing: "idle", "start", "stop", "thrown"
    todo,        \* the steps of it that are left
    starts,      \* how often it was started
    running,     \* running_
    listening,   \* the library's acceptor
    halted,      \* the event loop was stopped, and nothing resets it
    server,      \* the thread of the event loop: where it is
    handling,    \* the client whose handler it is in
    greeting,    \* the cycle the gateway greets it with
    told,        \* the frames of that cycle it was sent
    sender,      \* the broadcasting thread: where it is
    batch,       \* the cycle it has built and not sent
    sent,        \* the frames it has sent of what it built
    guard,       \* the holder of the mutex of the connections
    conns,       \* connections
    clients,     \* what each client's connection is in
    counter,     \* sequence_counter_
    view         \* the gateway's frames each client was sent since it connected

streamVars == <<kind, op, todo, starts, running, listening, halted, server,
                handling, greeting, told, sender, batch, sent, guard, conns, clients,
                counter, view>>
hostVars == <<op, todo, starts>>
greetVars == <<greeting, told>>
loopVars == <<server, handling, greetVars>>
sendVars == <<sender, batch, sent>>
clientVars == <<clients, view>>

\* startAsync of the spire: its thread does the listening.
SpireStart == <<"raise", "run", "broadcast">>
\* startAsync of the gateway: a port that is taken is reported to the caller.
GatewayStart == <<"listen", "raise", "run", "broadcast">>
\* startServer of the dashboard: decisions are broadcast by their maker.
DashboardStart == <<"listen", "raise", "run">>

\* Mutant: the spire's loop is joined although nothing has halted it.
SpireStopUnhalted == <<"lower", "unlisten", "lock", "close", "unlock",
                       "join loop", "join sender">>

\* stop and join, in the order of the code. The dashboard joins with the mutex
\* in its hand.
SpireStop == <<"lower", "unlisten", "lock", "close", "unlock", "halt",
               "join loop", "join sender">>
GatewayStop == <<"lower", "unlisten", "lock", "close", "unlock", "halt",
                 "join loop", "join sender">>
DashboardStop == <<"unlisten", "lock", "close", "lower", "join loop", "unlock">>

Startup == CASE kind = "spire" -> SpireStart
             [] kind = "gateway" -> GatewayStart
             [] kind = "dashboard" -> DashboardStart
Shutdown == CASE kind = "spire" -> SpireStop
              [] kind = "gateway" -> GatewayStop
              [] kind = "dashboard" -> DashboardStop

StreamInit ==
    /\ kind \in Kinds
    /\ op = "idle" /\ todo = <<>> /\ starts = 0
    /\ running = FALSE /\ listening = FALSE /\ halted = FALSE
    /\ server = "none" /\ handling = Nobody
    /\ greeting = 0 /\ told = 0
    /\ sender = IF kind = "dashboard" THEN "caller" ELSE "none"
    /\ batch = 0 /\ sent = 0
    /\ guard = "free"
    /\ conns = {}
    /\ clients = [c \in Clients |-> "away"]
    /\ counter = 1
    /\ view = [c \in Clients |-> <<>>]

-----------------------------------------------------------------------------
\* The host: its main, or whoever owns the server. It starts a server it has
\* joined, and stops a server it has started, also one that has failed.
StartServer ==
    /\ op = "idle" /\ ~running /\ starts < MaxStarts
    /\ server = "none" /\ sender \in {"none", "caller"}
    /\ op' = "start" /\ todo' = Startup /\ starts' = starts + 1
    /\ UNCHANGED <<kind, running, listening, halted, loopVars, sendVars, guard, conns,
                   clientVars, counter>>

\* The spire's and the dashboard's stop returns at once if the server is not
\* running; what follows in the spire's case is the join alone.
StopServer ==
    /\ op = "idle" /\ starts > 0 /\ (running \/ server # "none")
    /\ op' = "stop"
    /\ todo' = CASE running \/ kind = "gateway" -> Shutdown
                 [] kind = "spire" -> <<"join loop", "join sender">>
                 [] OTHER -> <<>>
    /\ UNCHANGED <<kind, starts, running, listening, halted, loopVars, sendVars, guard,
                   conns, clientVars, counter>>

Return ==
    /\ op \in {"start", "stop"} /\ todo = <<>>
    /\ op' = "idle"
    /\ UNCHANGED <<kind, todo, starts, running, listening, halted, loopVars, sendVars,
                   guard, conns, clientVars, counter>>

\* The step that is next is done; the rest of the operation stays to do.
Doing(step) == /\ todo # <<>> /\ Head(todo) = step
               /\ todo' = Tail(todo)
               /\ UNCHANGED <<kind, starts, counter>>

\* The flag, and the threads. A thread begins where its function begins.
Flag ==
    /\ \/ Doing("raise") /\ running' = TRUE
       \/ Doing("lower") /\ running' = FALSE
    /\ UNCHANGED <<op, listening, halted, loopVars, sendVars, guard, conns, clientVars>>

Launch ==
    /\ \/ Doing("run") /\ server' = (IF kind = "spire" THEN "listen" ELSE "loop") /\ UNCHANGED sender
       \/ Doing("broadcast") /\ sender' = "sleep" /\ UNCHANGED server
    /\ UNCHANGED <<op, running, listening, halted, handling, greetVars, batch, sent, guard,
                   conns, clientVars>>

\* listen of the gateway and the dashboard; a failure ends the start.
HostListens ==
    /\ Doing("listen")
    /\ listening' = TRUE
    /\ UNCHANGED <<op, running, halted, loopVars, sendVars, guard, conns, clientVars>>

HostListenFails ==
    /\ op = "start" /\ todo # <<>> /\ Head(todo) = "listen"
    /\ todo' = <<>>
    /\ UNCHANGED <<kind, op, starts, running, listening, halted, loopVars, sendVars,
                   guard, conns, clientVars, counter>>

\* stop_listening. The gateway ignores its error; the other two use the form
\* that throws unless the acceptor is listening.
Unlisten ==
    /\ todo # <<>> /\ Head(todo) = "unlisten"
    /\ listening' = FALSE
    /\ IF listening \/ kind = "gateway"
         THEN todo' = Tail(todo) /\ UNCHANGED op
         ELSE todo' = <<>> /\ op' = "thrown"
    /\ UNCHANGED <<kind, starts, running, halted, loopVars, sendVars, guard, conns,
                   clientVars, counter>>

HostLocks ==
    /\ \/ Doing("lock") /\ guard = "free" /\ guard' = "host"
       \/ Doing("unlock") /\ guard' = "free"
    /\ UNCHANGED <<op, running, listening, halted, loopVars, sendVars, conns, clientVars>>

\* Every connection in the set is told to close, and the set is cleared.
CloseAll ==
    /\ Doing("close")
    /\ clients' = [c \in Clients |-> IF c \in conns /\ clients[c] = "open"
                                     THEN "closing" ELSE clients[c]]
    /\ conns' = {}
    /\ UNCHANGED <<op, running, listening, halted, loopVars, sendVars, guard, view>>

HaltLoop ==
    /\ Doing("halt")
    /\ halted' = TRUE
    /\ UNCHANGED <<op, running, listening, loopVars, sendVars, guard, conns, clientVars>>

Join ==
    /\ \/ Doing("join loop") /\ server \in {"none", "ended"} /\ server' = "none" /\ UNCHANGED sender
       \/ Doing("join sender") /\ sender \in {"none", "ended"} /\ sender' = "none" /\ UNCHANGED server
    /\ UNCHANGED <<op, running, listening, halted, handling, greetVars, batch, sent, guard,
                   conns, clientVars>>

HostStep == Return \/ Flag \/ Launch \/ HostListens \/ Unlisten \/ HostLocks \/ CloseAll
            \/ HaltLoop \/ Join

-----------------------------------------------------------------------------
\* run of the spire: the port may be taken. The flag is lowered by the thread.
LoopListens ==
    /\ server = "listen"
    /\ \/ listening' = TRUE /\ server' = "loop" /\ UNCHANGED running
       \/ running' = FALSE /\ server' = "ended" /\ UNCHANGED listening
    /\ UNCHANGED <<kind, hostVars, halted, handling, greetVars, sendVars, guard, conns,
                   clientVars, counter>>

\* The library completes a handshake, or sees a connection close, and calls the
\* handler, which waits for the mutex.
LoopEvent(c) ==
    /\ server = "loop" /\ ~halted
    /\ clients[c] \in {"accepted", "closing"}
    /\ server' = IF clients[c] = "accepted" THEN "opening" ELSE "closing"
    /\ handling' = c
    /\ UNCHANGED <<kind, hostVars, running, listening, halted, greetVars, sendVars, guard, conns,
                   clientVars, counter>>

\* The open and close handlers change the set. The spire and the gateway greet
\* a new client, outside of the mutex.
Handle ==
    /\ server \in {"opening", "closing"} /\ guard = "free"
    /\ IF server = "opening"
         THEN /\ conns' = conns \cup {handling}
              /\ clients' = [clients EXCEPT ![handling] = "open"]
              /\ IF kind = "dashboard"
                   THEN server' = "loop" /\ handling' = Nobody
                   ELSE server' = "greeting" /\ UNCHANGED handling
         ELSE /\ conns' = conns \ {handling}
              /\ clients' = [clients EXCEPT ![handling] = "away"]
              /\ server' = "loop" /\ handling' = Nobody
    /\ view' = [view EXCEPT ![handling] = <<>>]
    /\ UNCHANGED <<kind, hostVars, running, listening, halted, greetVars, sendVars, guard,
                   counter>>

\* Mutant: the greeting shows the number of the cycle that comes next.
GreetingUncounted ==
    /\ server = "greeting"
    /\ IF kind = "gateway" /\ counter <= MaxCycles
         THEN greeting' = counter /\ server' = "telling" /\ UNCHANGED handling
         ELSE server' = "loop" /\ handling' = Nobody /\ UNCHANGED greeting
    /\ UNCHANGED <<kind, hostVars, running, listening, halted, told, sendVars, guard, conns,
                   clientVars, counter>>

\* The greeting of the gateway is a cycle of its own, which is left out past the
\* bound; the spire sends its state, which has no number.
CountGreeting ==
    /\ server = "greeting"
    /\ IF kind = "gateway" /\ counter <= MaxCycles
         THEN /\ greeting' = counter /\ counter' = counter + 1
              /\ server' = "telling" /\ UNCHANGED handling
         ELSE server' = "loop" /\ handling' = Nobody /\ UNCHANGED <<greeting, counter>>
    /\ UNCHANGED <<kind, hostVars, running, listening, halted, told, sendVars, guard, conns,
                   clientVars>>

\* The frames of the greeting are sent one by one, with no mutex held: what is
\* broadcast meanwhile comes before them, between them or after them.
Greet ==
    /\ server = "telling"
    /\ view' = [view EXCEPT ![handling] =
                   Append(@, [cycle |-> greeting, part |-> told + 1, from |-> "greeting"])]
    /\ IF told + 1 < Parts
         THEN told' = told + 1 /\ UNCHANGED <<server, handling, greeting>>
         ELSE server' = "loop" /\ handling' = Nobody /\ told' = 0 /\ greeting' = 0
    /\ UNCHANGED <<kind, hostVars, running, listening, halted, sendVars, guard, conns,
                   clients, counter>>

\* The event loop returns when it was stopped, or has nothing left to wait for.
LoopReturns ==
    /\ server = "loop"
    /\ halted \/ (~listening /\ \A c \in Clients : clients[c] = "away")
    /\ server' = "ended"
    /\ UNCHANGED <<kind, hostVars, running, listening, halted, handling, greetVars, sendVars,
                   guard, conns, clientVars, counter>>

\* The event loop throws: the spire and the gateway lower their flag.
LoopFails ==
    /\ server = "loop"
    /\ server' = "ended"
    /\ running' = (running /\ kind = "dashboard")
    /\ UNCHANGED <<kind, hostVars, listening, halted, handling, greetVars, sendVars, guard,
                   conns, clientVars, counter>>

LoopStep == LoopListens \/ Handle \/ CountGreeting \/ Greet \/ LoopReturns \/ \E c \in Clients : LoopEvent(c)

-----------------------------------------------------------------------------
\* broadcastLoop: sleep, look at the flag, build a cycle, send it. The gateway
\* counts the cycle before it takes the mutex. A decision that is routed makes
\* the dashboard send in the thread of its caller.
Build ==
    /\ \/ sender = "sleep" /\ running /\ sender' = "send"
       \/ sender = "caller" /\ sender' = "callback"
    /\ IF kind = "gateway"
         THEN counter <= MaxCycles /\ batch' = counter /\ counter' = counter + 1
         ELSE UNCHANGED <<batch, counter>>
    /\ UNCHANGED <<kind, hostVars, running, listening, halted, loopVars, sent, guard, conns,
                   clientVars>>

\* The broadcasting thread has built something and not finished sending it.
Sending == sender \in {"send", "callback"}

\* What was built is sent under the mutex, frame by frame to every connection;
\* the spire and the dashboard send one frame, whose content is left out.
LockConnections ==
    /\ Sending /\ guard = "free"
    /\ guard' = "sender"
    /\ UNCHANGED <<kind, hostVars, running, listening, halted, loopVars, sendVars, conns,
                   clientVars, counter>>

Frames == IF kind = "gateway" THEN Parts ELSE 1

SendFrame ==
    /\ Sending /\ guard = "sender"
    /\ conns # {} /\ sent < Frames
    /\ sent' = sent + 1
    /\ view' = [c \in Clients |->
                   IF kind = "gateway" /\ c \in conns
                   THEN Append(view[c], [cycle |-> batch, part |-> sent + 1, from |-> "broadcast"])
                   ELSE view[c]]
    /\ UNCHANGED <<kind, hostVars, running, listening, halted, loopVars, sender, batch, guard,
                   conns, clients, counter>>

FinishSend ==
    /\ Sending /\ guard = "sender"
    /\ conns = {} \/ sent = Frames
    /\ guard' = "free"
    /\ sender' = IF sender = "send" THEN "sleep" ELSE "caller"
    /\ batch' = 0 /\ sent' = 0
    /\ UNCHANGED <<kind, hostVars, running, listening, halted, loopVars, conns, clientVars,
                   counter>>

SenderEnds ==
    /\ sender = "sleep" /\ ~running
    /\ sender' = "ended"
    /\ UNCHANGED <<kind, hostVars, running, listening, halted, loopVars, batch, sent, guard,
                   conns, clientVars, counter>>

Connect(c) ==
    /\ listening /\ ~halted /\ clients[c] = "away"
    /\ clients' = [clients EXCEPT ![c] = "accepted"]
    /\ UNCHANGED <<kind, hostVars, running, listening, halted, loopVars, sendVars, guard,
                   conns, view, counter>>

Leave(c) ==
    /\ clients[c] = "open"
    /\ clients' = [clients EXCEPT ![c] = "closing"]
    /\ UNCHANGED <<kind, hostVars, running, listening, halted, loopVars, sendVars, guard,
                   conns, view, counter>>

StreamNext ==
    \/ StartServer \/ StopServer \/ HostStep \/ HostListenFails
    \/ LoopStep \/ LoopFails
    \/ Build \/ LockConnections \/ SendFrame \/ FinishSend \/ SenderEnds
    \/ \E c \in Clients : Connect(c) \/ Leave(c)

\* Every thread runs; a thread that waits for the mutex gets it in the end, and
\* the event loop turns to everything that is ready. Nothing makes a host act, a
\* client come or go, or a decision be routed.
StreamFairness ==
    /\ WF_streamVars(HostStep) /\ SF_streamVars(HostLocks)
    /\ WF_streamVars(LoopStep) /\ SF_streamVars(Handle) /\ SF_streamVars(LoopReturns)
    /\ SF_streamVars(LockConnections) /\ WF_streamVars(SendFrame \/ FinishSend)
    /\ WF_streamVars(SenderEnds)

StreamSpec == StreamInit /\ [][StreamNext]_streamVars

-----------------------------------------------------------------------------
\* A stop that was begun returns, with both threads joined, whatever clients,
\* handlers and the broadcaster are doing (aille_websocket.cpp:111,
\* fs_gateway.cpp:143); the spire's may throw instead, if its thread has not
\* reached listen.
ShutdownEnds == op = "stop" /\ kind # "dashboard" ~> op \in {"idle", "thrown"}

\* A client of the gateway sees the frames of its greeting in their order, and
\* the frames that are broadcast in theirs; a greeting shares its number with no
\* broadcast. Between the two kinds there is no order: a greeting may be
\* overtaken, frame by frame, by any number of later cycles (fs_gateway.cpp:55,
\* :68-75). An older cycle comes after a frame of the greeting only if it was
\* being broadcast when the greeting was counted, so there is at most one.
Before(f, g) == f.cycle < g.cycle \/ (f.cycle = g.cycle /\ f.part < g.part)

\* The frames of the sequence v that are older than a frame of the greeting
\* that the client has already.
Late(v) == {j \in DOMAIN v : \E i \in DOMAIN v :
               i < j /\ v[i].from = "greeting" /\ v[j].cycle < v[i].cycle}

CyclesAdvance ==
    \A c \in Clients :
        LET v == view[c]
        IN  /\ \A i, j \in DOMAIN v : i < j =>
                  IF v[i].from = v[j].from THEN Before(v[i], v[j])
                  ELSE v[i].cycle # v[j].cycle
            /\ \A i, j \in Late(v) : v[i].cycle = v[j].cycle

\* An observer's callback is fire-and-forget and must not block
\* (docs/api/plugin_guide.md:385).
CallbackReturns == sender = "callback" ~> sender = "caller"
=============================================================================
