-------------------------- MODULE HostThreadsProofs --------------------------
(***************************************************************************)
(* Proofs about what runs in threads of a host, for any callers, clients    *)
(* and writers: what the REST server's flags and its mutex protect, what    *)
(* order of cycles a client of the gateway sees, and that the snapshots of  *)
(* the export plane add up and never go back.                               *)
(***************************************************************************)
EXTENDS RestServer, StreamServers, ExportPlane, FiniteSetTheorems, SequenceTheorems,
        FoldTheorems, TLAPS

-----------------------------------------------------------------------------
(* The REST server.                                                         *)

\* Where a caller has the mutex.
Locked == {"prepare", "claim", "spawn", "spin", "settle", "ready", "halt"}
\* Where a caller is after stop of its destructor.
Ending == {"join", "drain", "gone"}

\* A thread that has set listener_active_ and not yet cleared it.
Claimed(t) == restPc[t] \in Inside \cup {"spawn"}

RestTypeOK ==
  /\ restPc \in [RestThreads -> Inside \cup Locked \cup Ending \cup {"idle", "lock"}]
  /\ restPc[Worker] \in Inside \cup {"idle"}
  /\ call \in [Callers -> {"none", "start", "async", "stop", "destroy"}]
  /\ up \in BOOLEAN /\ pending \in BOOLEAN /\ active \in BOOLEAN
  /\ lifecycle \in Callers \cup {NoThread}
  /\ worker \in {"none", "live", "done"}
  /\ http \in {"none", "made", "listening", "failed", "stopping", "over", "thrown"}

\* The mutex: who is at a step that needs it is its holder.
LifecycleHeld == \A c \in Callers : restPc[c] \in Locked <=> lifecycle = c

\* listener_active_ belongs to one thread, and is set as long as it has it.
OneClaims ==
  /\ \A t \in RestThreads : Claimed(t) => active
  /\ \A s, t \in RestThreads : Claimed(s) /\ Claimed(t) => s = t

\* server_thread_ is joinable and not ended exactly while the worker runs; it is
\* not joinable where a start is about to assign it.
WorkerJoined ==
  /\ worker = "live" <=> restPc[Worker] \in Inside
  /\ \A c \in Callers : restPc[c] \in {"claim", "spawn"} => worker = "none"
  /\ \A c \in Callers : restPc[c] \in {"drain", "gone"} => worker = "none"

\* A destructor that has begun is alone, but for a start that is in runServer,
\* and has it behind itself when it has drained.
DestroyAlone ==
  /\ \A c \in Callers : restPc[c] \in Ending => call[c] = "destroy"
  /\ \A c \in Callers : call[c] = "destroy" =>
       /\ restPc[c] \in {"lock", "settle", "ready", "halt"} \cup Ending
       /\ \A o \in Callers \ {c} : restPc[o] \in Inside \cup {"idle"}
       /\ restPc[c] = "gone" => ~active

\* startup_pending_ is set until the startup of runServer is decided.
StartupPending ==
  \A t \in RestThreads :
    restPc[t] \in {"spawn", "create", "bind", "publish", "announce"} => pending

\* stop and startAsync wait for a listener, and stop it, through a pointer: no
\* thread replaces or deletes the object meanwhile.
ObjectStays ==
  \A c \in Callers : restPc[c] \in {"ready", "halt"} =>
    /\ http # "none"
    /\ \A t \in RestThreads : restPc[t] \notin {"create", "gone"}

RestInv ==
  /\ RestTypeOK /\ LifecycleHeld /\ OneClaims /\ WorkerJoined /\ DestroyAlone
  /\ StartupPending /\ ObjectStays

USE RestAssumption DEF RestThreads, Serving, Inside, Locked, Ending, Claimed, Goto, Release

\* A call begins: the destructor's only where the others are idle or in runServer.
LEMMA RestCall ==
  ASSUME RestInv, NEW c \in Callers, NEW what \in {"start", "async", "stop", "destroy"}, Call(c, what)
  PROVE  RestInv'
<1>1. RestTypeOK'
  BY DEF RestInv, RestTypeOK, Call
<1>2. LifecycleHeld'
  BY DEF RestInv, RestTypeOK, LifecycleHeld, Call
<1>3. OneClaims'
  BY DEF RestInv, RestTypeOK, OneClaims, Call
<1>4. WorkerJoined'
  BY DEF RestInv, RestTypeOK, LifecycleHeld, OneClaims, WorkerJoined, DestroyAlone, Call
<1>5. DestroyAlone'
  BY DEF RestInv, RestTypeOK, OneClaims, DestroyAlone, Call
<1>6. StartupPending'
  BY DEF RestInv, RestTypeOK, OneClaims, StartupPending, Call
<1>7. ObjectStays'
  BY DEF RestInv, RestTypeOK, LifecycleHeld, DestroyAlone, StartupPending, ObjectStays, Call
<1>8. QED BY <1>1, <1>2, <1>3, <1>4, <1>5, <1>6, <1>7 DEF RestInv

\* The mutex goes from nobody to one caller.
LEMMA RestAcquire ==
  ASSUME RestInv, NEW c \in Callers, Acquire(c)
  PROVE  RestInv'
<1>1. RestTypeOK'
  BY DEF RestInv, RestTypeOK, Acquire
<1>2. LifecycleHeld'
  BY DEF RestInv, RestTypeOK, LifecycleHeld, Acquire
<1>3. OneClaims'
  BY DEF RestInv, RestTypeOK, OneClaims, Acquire
<1>4. WorkerJoined'
  BY DEF RestInv, RestTypeOK, LifecycleHeld, OneClaims, WorkerJoined, DestroyAlone, Acquire
<1>5. DestroyAlone'
  BY DEF RestInv, RestTypeOK, OneClaims, DestroyAlone, Acquire
<1>6. StartupPending'
  BY DEF RestInv, RestTypeOK, OneClaims, StartupPending, Acquire
<1>7. ObjectStays'
  BY DEF RestInv, RestTypeOK, LifecycleHeld, DestroyAlone, StartupPending, ObjectStays, Acquire
<1>8. QED BY <1>1, <1>2, <1>3, <1>4, <1>5, <1>6, <1>7 DEF RestInv

\* A start that goes on has joined the worker of an earlier one.
LEMMA RestPrepare ==
  ASSUME RestInv, NEW c \in Callers, Prepare(c)
  PROVE  RestInv'
<1>1. RestTypeOK'
  BY DEF RestInv, RestTypeOK, Prepare
<1>2. LifecycleHeld'
  BY DEF RestInv, RestTypeOK, LifecycleHeld, Prepare
<1>3. OneClaims'
  BY DEF RestInv, RestTypeOK, OneClaims, Prepare
<1>4. WorkerJoined'
  BY DEF RestInv, RestTypeOK, LifecycleHeld, OneClaims, WorkerJoined, DestroyAlone, Prepare
<1>5. DestroyAlone'
  BY DEF RestInv, RestTypeOK, OneClaims, DestroyAlone, Prepare
<1>6. StartupPending'
  BY DEF RestInv, RestTypeOK, OneClaims, StartupPending, Prepare
<1>7. ObjectStays'
  BY DEF RestInv, RestTypeOK, LifecycleHeld, DestroyAlone, StartupPending, ObjectStays, Prepare
<1>8. QED BY <1>1, <1>2, <1>3, <1>4, <1>5, <1>6, <1>7 DEF RestInv

\* listener_active_ is taken only where it is not set: no thread had it.
LEMMA RestClaim ==
  ASSUME RestInv, NEW c \in Callers, Claim(c)
  PROVE  RestInv'
<1>1. RestTypeOK'
  <2>1. restPc' \in [RestThreads -> Inside \cup Locked \cup Ending \cup {"idle", "lock"}]
    BY DEF RestInv, RestTypeOK, Claim
  <2>2. /\ restPc'[Worker] \in Inside \cup {"idle"}
        /\ call' = call /\ worker' = worker /\ http' = http
    BY DEF RestInv, RestTypeOK, Claim
  <2>3. /\ up' \in BOOLEAN /\ pending' \in BOOLEAN /\ active' \in BOOLEAN
        /\ lifecycle' \in Callers \cup {NoThread}
    BY DEF RestInv, RestTypeOK, Claim
  <2>4. QED BY <2>1, <2>2, <2>3 DEF RestInv, RestTypeOK
<1>2. LifecycleHeld'
  BY DEF RestInv, RestTypeOK, LifecycleHeld, Claim
<1>3. OneClaims'
  BY DEF RestInv, RestTypeOK, OneClaims, Claim
<1>4. WorkerJoined'
  BY DEF RestInv, RestTypeOK, LifecycleHeld, OneClaims, WorkerJoined, DestroyAlone, Claim
<1>5. DestroyAlone'
  BY DEF RestInv, RestTypeOK, OneClaims, DestroyAlone, Claim
<1>6. StartupPending'
  BY DEF RestInv, RestTypeOK, OneClaims, StartupPending, Claim
<1>7. ObjectStays'
  BY DEF RestInv, RestTypeOK, LifecycleHeld, DestroyAlone, StartupPending, ObjectStays, Claim
<1>8. QED BY <1>1, <1>2, <1>3, <1>4, <1>5, <1>6, <1>7 DEF RestInv

\* The claim passes from the caller to its worker, or is taken back.
LEMMA RestSpawn ==
  ASSUME RestInv, NEW c \in Callers, Spawn(c)
  PROVE  RestInv'
<1>1. RestTypeOK'
  BY DEF RestInv, RestTypeOK, Spawn
<1>2. LifecycleHeld'
  BY DEF RestInv, RestTypeOK, LifecycleHeld, Spawn
<1>3. OneClaims'
  BY DEF RestInv, RestTypeOK, OneClaims, Spawn
<1>4. WorkerJoined'
  BY DEF RestInv, RestTypeOK, LifecycleHeld, OneClaims, WorkerJoined, DestroyAlone, Spawn
<1>5. DestroyAlone'
  BY DEF RestInv, RestTypeOK, OneClaims, DestroyAlone, Spawn
<1>6. StartupPending'
  BY DEF RestInv, RestTypeOK, OneClaims, StartupPending, Spawn
<1>7. ObjectStays'
  <2>1. \A d \in Callers : restPc[d] \notin {"ready", "halt"}
    BY DEF RestInv, LifecycleHeld, Spawn
  <2>2. \A d \in Callers : restPc'[d] \notin {"ready", "halt"}
    BY <2>1 DEF RestInv, RestTypeOK, Spawn
  <2>3. QED BY <2>2 DEF ObjectStays
<1>8. QED BY <1>1, <1>2, <1>3, <1>4, <1>5, <1>6, <1>7 DEF RestInv

\* The spin on the startup changes no flag.
LEMMA RestDecided ==
  ASSUME RestInv, NEW c \in Callers, Decided(c)
  PROVE  RestInv'
<1>1. RestTypeOK'
  BY DEF RestInv, RestTypeOK, Decided
<1>2. LifecycleHeld'
  BY DEF RestInv, RestTypeOK, LifecycleHeld, Decided
<1>3. OneClaims'
  BY DEF RestInv, RestTypeOK, OneClaims, Decided
<1>4. WorkerJoined'
  BY DEF RestInv, RestTypeOK, LifecycleHeld, OneClaims, WorkerJoined, DestroyAlone, Decided
<1>5. DestroyAlone'
  BY DEF RestInv, RestTypeOK, OneClaims, DestroyAlone, Decided
<1>6. StartupPending'
  BY DEF RestInv, RestTypeOK, OneClaims, StartupPending, Decided
<1>7. ObjectStays'
  BY DEF RestInv, RestTypeOK, LifecycleHeld, DestroyAlone, StartupPending, ObjectStays, Decided
<1>8. QED BY <1>1, <1>2, <1>3, <1>4, <1>5, <1>6, <1>7 DEF RestInv

\* Neither does the wait for the listener.
LEMMA RestReady ==
  ASSUME RestInv, NEW c \in Callers, Ready(c)
  PROVE  RestInv'
<1>1. RestTypeOK'
  BY DEF RestInv, RestTypeOK, Ready
<1>2. LifecycleHeld'
  BY DEF RestInv, RestTypeOK, LifecycleHeld, Ready
<1>3. OneClaims'
  BY DEF RestInv, RestTypeOK, OneClaims, Ready
<1>4. WorkerJoined'
  BY DEF RestInv, RestTypeOK, LifecycleHeld, OneClaims, WorkerJoined, DestroyAlone, Ready
<1>5. DestroyAlone'
  BY DEF RestInv, RestTypeOK, OneClaims, DestroyAlone, Ready
<1>6. StartupPending'
  BY DEF RestInv, RestTypeOK, OneClaims, StartupPending, Ready
<1>7. ObjectStays'
  BY DEF RestInv, RestTypeOK, LifecycleHeld, DestroyAlone, StartupPending, ObjectStays, Ready
<1>8. QED BY <1>1, <1>2, <1>3, <1>4, <1>5, <1>6, <1>7 DEF RestInv

\* stop leaves the claim to runServer.
LEMMA RestHalt ==
  ASSUME RestInv, NEW c \in Callers, Halt(c)
  PROVE  RestInv'
<1>1. RestTypeOK'
  BY DEF RestInv, RestTypeOK, Halt
<1>2. LifecycleHeld'
  BY DEF RestInv, RestTypeOK, LifecycleHeld, Halt
<1>3. OneClaims'
  BY DEF RestInv, RestTypeOK, OneClaims, Halt
<1>4. WorkerJoined'
  BY DEF RestInv, RestTypeOK, LifecycleHeld, OneClaims, WorkerJoined, DestroyAlone, Halt
<1>5. DestroyAlone'
  BY DEF RestInv, RestTypeOK, OneClaims, DestroyAlone, Halt
<1>6. StartupPending'
  BY DEF RestInv, RestTypeOK, OneClaims, StartupPending, Halt
<1>7. ObjectStays'
  BY DEF RestInv, RestTypeOK, LifecycleHeld, DestroyAlone, StartupPending, ObjectStays, Halt
<1>8. QED BY <1>1, <1>2, <1>3, <1>4, <1>5, <1>6, <1>7 DEF RestInv

\* The destructor goes on when the worker is over, and ends when nothing is claimed.
LEMMA RestDestroy ==
  ASSUME RestInv, NEW c \in Callers, Destroy(c)
  PROVE  RestInv'
<1>1. RestTypeOK'
  BY DEF RestInv, RestTypeOK, Destroy
<1>2. LifecycleHeld'
  BY DEF RestInv, RestTypeOK, LifecycleHeld, Destroy
<1>3. OneClaims'
  BY DEF RestInv, RestTypeOK, OneClaims, Destroy
<1>4. WorkerJoined'
  BY DEF RestInv, RestTypeOK, LifecycleHeld, OneClaims, WorkerJoined, DestroyAlone, Destroy
<1>5. DestroyAlone'
  BY DEF RestInv, RestTypeOK, OneClaims, DestroyAlone, Destroy
<1>6. StartupPending'
  BY DEF RestInv, RestTypeOK, OneClaims, StartupPending, Destroy
<1>7. ObjectStays'
  BY DEF RestInv, RestTypeOK, LifecycleHeld, DestroyAlone, StartupPending, ObjectStays, Destroy
<1>8. QED BY <1>1, <1>2, <1>3, <1>4, <1>5, <1>6, <1>7 DEF RestInv

\* runServer keeps its claim from the first step ...
LEMMA RestCreate ==
  ASSUME RestInv, NEW t \in RestThreads, Create(t)
  PROVE  RestInv'
<1>1. RestTypeOK'
  BY DEF RestInv, RestTypeOK, Create
<1>2. LifecycleHeld'
  BY DEF RestInv, RestTypeOK, LifecycleHeld, Create
<1>3. OneClaims'
  BY DEF RestInv, RestTypeOK, OneClaims, Create
<1>4. WorkerJoined'
  BY DEF RestInv, RestTypeOK, LifecycleHeld, OneClaims, WorkerJoined, DestroyAlone, Create
<1>5. DestroyAlone'
  BY DEF RestInv, RestTypeOK, OneClaims, DestroyAlone, Create
<1>6. StartupPending'
  BY DEF RestInv, RestTypeOK, OneClaims, StartupPending, Create
<1>7. ObjectStays'
  BY DEF RestInv, RestTypeOK, LifecycleHeld, DestroyAlone, StartupPending, ObjectStays, Create
<1>8. QED BY <1>1, <1>2, <1>3, <1>4, <1>5, <1>6, <1>7 DEF RestInv

\* ... through its bind,
LEMMA RestBind ==
  ASSUME RestInv, NEW t \in RestThreads, Bind(t)
  PROVE  RestInv'
<1>1. RestTypeOK'
  <2>1. restPc' \in [RestThreads -> Inside \cup Locked \cup Ending \cup {"idle", "lock"}]
    BY DEF RestInv, RestTypeOK, Bind
  <2>2. /\ restPc'[Worker] \in Inside \cup {"idle"}
        /\ call' = call /\ worker' = worker /\ http' = http
    BY DEF RestInv, RestTypeOK, Bind
  <2>3. /\ up' \in BOOLEAN /\ pending' \in BOOLEAN /\ active' \in BOOLEAN
        /\ lifecycle' \in Callers \cup {NoThread}
    BY DEF RestInv, RestTypeOK, Bind
  <2>4. QED BY <2>1, <2>2, <2>3 DEF RestInv, RestTypeOK
<1>2. LifecycleHeld'
  BY DEF RestInv, RestTypeOK, LifecycleHeld, Bind
<1>3. OneClaims'
  BY DEF RestInv, RestTypeOK, OneClaims, Bind
<1>4. WorkerJoined'
  BY DEF RestInv, RestTypeOK, LifecycleHeld, OneClaims, WorkerJoined, DestroyAlone, Bind
<1>5. DestroyAlone'
  BY DEF RestInv, RestTypeOK, OneClaims, DestroyAlone, Bind
<1>6. StartupPending'
  BY DEF RestInv, RestTypeOK, OneClaims, StartupPending, Bind
<1>7. ObjectStays'
  BY DEF RestInv, RestTypeOK, LifecycleHeld, DestroyAlone, StartupPending, ObjectStays, Bind
<1>8. QED BY <1>1, <1>2, <1>3, <1>4, <1>5, <1>6, <1>7 DEF RestInv

\* its two announcements,
LEMMA RestPublish ==
  ASSUME RestInv, NEW t \in RestThreads, Publish(t)
  PROVE  RestInv'
<1>1. RestTypeOK'
  <2>1. restPc' \in [RestThreads -> Inside \cup Locked \cup Ending \cup {"idle", "lock"}]
    BY DEF RestInv, RestTypeOK, Publish
  <2>2. /\ restPc'[Worker] \in Inside \cup {"idle"}
        /\ call' = call /\ worker' = worker /\ http' = http
    BY DEF RestInv, RestTypeOK, Publish
  <2>3. /\ up' \in BOOLEAN /\ pending' \in BOOLEAN /\ active' \in BOOLEAN
        /\ lifecycle' \in Callers \cup {NoThread}
    BY DEF RestInv, RestTypeOK, Publish
  <2>4. QED BY <2>1, <2>2, <2>3 DEF RestInv, RestTypeOK
<1>2. LifecycleHeld'
  BY DEF RestInv, RestTypeOK, LifecycleHeld, Publish
<1>3. OneClaims'
  BY DEF RestInv, RestTypeOK, OneClaims, Publish
<1>4. WorkerJoined'
  BY DEF RestInv, RestTypeOK, LifecycleHeld, OneClaims, WorkerJoined, DestroyAlone, Publish
<1>5. DestroyAlone'
  BY DEF RestInv, RestTypeOK, OneClaims, DestroyAlone, Publish
<1>6. StartupPending'
  BY DEF RestInv, RestTypeOK, OneClaims, StartupPending, Publish
<1>7. ObjectStays'
  BY DEF RestInv, RestTypeOK, LifecycleHeld, DestroyAlone, StartupPending, ObjectStays, Publish
<1>8. QED BY <1>1, <1>2, <1>3, <1>4, <1>5, <1>6, <1>7 DEF RestInv

\* the begin of the listener,
LEMMA RestListen ==
  ASSUME RestInv, NEW t \in RestThreads, Listen(t)
  PROVE  RestInv'
<1>1. RestTypeOK'
  BY DEF RestInv, RestTypeOK, Listen
<1>2. LifecycleHeld'
  BY DEF RestInv, RestTypeOK, LifecycleHeld, Listen
<1>3. OneClaims'
  BY DEF RestInv, RestTypeOK, OneClaims, Listen
<1>4. WorkerJoined'
  BY DEF RestInv, RestTypeOK, LifecycleHeld, OneClaims, WorkerJoined, DestroyAlone, Listen
<1>5. DestroyAlone'
  BY DEF RestInv, RestTypeOK, OneClaims, DestroyAlone, Listen
<1>6. StartupPending'
  BY DEF RestInv, RestTypeOK, OneClaims, StartupPending, Listen
<1>7. ObjectStays'
  BY DEF RestInv, RestTypeOK, LifecycleHeld, DestroyAlone, StartupPending, ObjectStays, Listen
<1>8. QED BY <1>1, <1>2, <1>3, <1>4, <1>5, <1>6, <1>7 DEF RestInv

\* its end
LEMMA RestListenEnds ==
  ASSUME RestInv, NEW t \in RestThreads, ListenEnds(t)
  PROVE  RestInv'
<1>1. RestTypeOK'
  BY DEF RestInv, RestTypeOK, ListenEnds
<1>2. LifecycleHeld'
  BY DEF RestInv, RestTypeOK, LifecycleHeld, ListenEnds
<1>3. OneClaims'
  BY DEF RestInv, RestTypeOK, OneClaims, ListenEnds
<1>4. WorkerJoined'
  BY DEF RestInv, RestTypeOK, LifecycleHeld, OneClaims, WorkerJoined, DestroyAlone, ListenEnds
<1>5. DestroyAlone'
  BY DEF RestInv, RestTypeOK, OneClaims, DestroyAlone, ListenEnds
<1>6. StartupPending'
  BY DEF RestInv, RestTypeOK, OneClaims, StartupPending, ListenEnds
<1>7. ObjectStays'
  BY DEF RestInv, RestTypeOK, LifecycleHeld, DestroyAlone, StartupPending, ObjectStays, ListenEnds
<1>8. QED BY <1>1, <1>2, <1>3, <1>4, <1>5, <1>6, <1>7 DEF RestInv

\* and its failure,
LEMMA RestListenFails ==
  ASSUME RestInv, NEW t \in RestThreads, ListenFails(t)
  PROVE  RestInv'
<1>1. RestTypeOK'
  BY DEF RestInv, RestTypeOK, ListenFails
<1>2. LifecycleHeld'
  BY DEF RestInv, RestTypeOK, LifecycleHeld, ListenFails
<1>3. OneClaims'
  BY DEF RestInv, RestTypeOK, OneClaims, ListenFails
<1>4. WorkerJoined'
  BY DEF RestInv, RestTypeOK, LifecycleHeld, OneClaims, WorkerJoined, DestroyAlone, ListenFails
<1>5. DestroyAlone'
  BY DEF RestInv, RestTypeOK, OneClaims, DestroyAlone, ListenFails
<1>6. StartupPending'
  BY DEF RestInv, RestTypeOK, OneClaims, StartupPending, ListenFails
<1>7. ObjectStays'
  BY DEF RestInv, RestTypeOK, LifecycleHeld, DestroyAlone, StartupPending, ObjectStays, ListenFails
<1>8. QED BY <1>1, <1>2, <1>3, <1>4, <1>5, <1>6, <1>7 DEF RestInv

\* its exception,
LEMMA RestListenThrows ==
  ASSUME RestInv, NEW t \in RestThreads, ListenThrows(t)
  PROVE  RestInv'
<1>1. RestTypeOK'
  BY DEF RestInv, RestTypeOK, ListenThrows
<1>2. LifecycleHeld'
  BY DEF RestInv, RestTypeOK, LifecycleHeld, ListenThrows
<1>3. OneClaims'
  BY DEF RestInv, RestTypeOK, OneClaims, ListenThrows
<1>4. WorkerJoined'
  BY DEF RestInv, RestTypeOK, LifecycleHeld, OneClaims, WorkerJoined, DestroyAlone, ListenThrows
<1>5. DestroyAlone'
  BY DEF RestInv, RestTypeOK, OneClaims, DestroyAlone, ListenThrows
<1>6. StartupPending'
  BY DEF RestInv, RestTypeOK, OneClaims, StartupPending, ListenThrows
<1>7. ObjectStays'
  BY DEF RestInv, RestTypeOK, LifecycleHeld, DestroyAlone, StartupPending, ObjectStays, ListenThrows
<1>8. QED BY <1>1, <1>2, <1>3, <1>4, <1>5, <1>6, <1>7 DEF RestInv

\* and its catch block, ...
LEMMA RestAbort ==
  ASSUME RestInv, NEW t \in RestThreads, Abort(t)
  PROVE  RestInv'
<1>1. RestTypeOK'
  BY DEF RestInv, RestTypeOK, Abort
<1>2. LifecycleHeld'
  BY DEF RestInv, RestTypeOK, LifecycleHeld, Abort
<1>3. OneClaims'
  BY DEF RestInv, RestTypeOK, OneClaims, Abort
<1>4. WorkerJoined'
  BY DEF RestInv, RestTypeOK, LifecycleHeld, OneClaims, WorkerJoined, DestroyAlone, Abort
<1>5. DestroyAlone'
  BY DEF RestInv, RestTypeOK, OneClaims, DestroyAlone, Abort
<1>6. StartupPending'
  BY DEF RestInv, RestTypeOK, OneClaims, StartupPending, Abort
<1>7. ObjectStays'
  BY DEF RestInv, RestTypeOK, LifecycleHeld, DestroyAlone, StartupPending, ObjectStays, Abort
<1>8. QED BY <1>1, <1>2, <1>3, <1>4, <1>5, <1>6, <1>7 DEF RestInv

\* ... to its last, which is also the end of the worker.
LEMMA RestRetire ==
  ASSUME RestInv, NEW t \in RestThreads, Retire(t)
  PROVE  RestInv'
<1>1. RestTypeOK'
  BY DEF RestInv, RestTypeOK, Retire
<1>2. LifecycleHeld'
  BY DEF RestInv, RestTypeOK, LifecycleHeld, Retire
<1>3. OneClaims'
  BY DEF RestInv, RestTypeOK, OneClaims, Retire
<1>4. WorkerJoined'
  BY DEF RestInv, RestTypeOK, LifecycleHeld, OneClaims, WorkerJoined, DestroyAlone, Retire
<1>5. DestroyAlone'
  BY DEF RestInv, RestTypeOK, OneClaims, DestroyAlone, Retire
<1>6. StartupPending'
  BY DEF RestInv, RestTypeOK, OneClaims, StartupPending, Retire
<1>7. ObjectStays'
  BY DEF RestInv, RestTypeOK, LifecycleHeld, DestroyAlone, StartupPending, ObjectStays, Retire
<1>8. QED BY <1>1, <1>2, <1>3, <1>4, <1>5, <1>6, <1>7 DEF RestInv

\* A server that nobody has called satisfies the invariant.
LEMMA RestInvInit == ASSUME RestInit PROVE RestInv
BY DEF RestInit, RestInv, RestTypeOK, LifecycleHeld, OneClaims, WorkerJoined, DestroyAlone,
       StartupPending, ObjectStays

\* Every step of a caller, of a worker and of the listener keeps it.
LEMMA RestInvStep == RestInv /\ [RestNext]_restVars => RestInv'
<1> SUFFICES ASSUME RestInv, [RestNext]_restVars PROVE RestInv'
  OBVIOUS
<1>1. CASE \E c \in Callers, what \in {"start", "async", "stop", "destroy"} : Call(c, what)
  BY <1>1, RestCall
<1>2. CASE \E c \in Callers : Operation(c)
  BY <1>2, RestAcquire, RestPrepare, RestClaim, RestSpawn, RestDecided, RestReady, RestHalt,
     RestDestroy DEF Operation
<1>3. CASE \E t \in RestThreads : RunServer(t) \/ ListenFails(t) \/ ListenThrows(t)
  BY <1>3, RestCreate, RestBind, RestPublish, RestListen, RestListenEnds, RestAbort, RestRetire,
     RestListenFails, RestListenThrows DEF RunServer
<1>4. CASE UNCHANGED restVars
  BY <1>4 DEF restVars, RestInv, RestTypeOK, LifecycleHeld, OneClaims, WorkerJoined, DestroyAlone,
              StartupPending, ObjectStays
<1>5. QED BY <1>1, <1>2, <1>3, <1>4 DEF RestNext

\* RestInv holds in every state of the server.
THEOREM RestInvariant == RestSpec => []RestInv
<1>1. RestInit => RestInv
  BY RestInvInit
<1>2. QED BY <1>1, RestInvStep, PTL DEF RestSpec

\* The object behind server_ is worked with by one thread at a time and by none
\* after the destructor, for any number of callers: startAsync, start and stop
\* do not join one another, and what keeps them apart is listener_active_ alone
\* (aille_rest_api.cpp:18, :272, :300).
THEOREM RestServerSafe == RestSpec => []ServerObjectSafe
<1>1. RestInv => ServerObjectSafe
  BY DEF RestInv, RestTypeOK, OneClaims, DestroyAlone, ServerObjectSafe
<1>2. QED BY <1>1, RestInvariant, PTL

\* What stop and startAsync do to the server's object and thread, for which the
\* mutex and startup_pending_ are there: the mutex is one caller's; server_thread_
\* is assigned only when it is not joinable, which would be std::terminate, nor is
\* it joinable when the server is gone; and while a caller waits for the listener
\* of *server_ or stops it, no runServer replaces the object and no destructor
\* deletes it (aille_rest_api.cpp:18, :272, :300, :344).
StopUsesLiveObject ==
  /\ \A c, d \in Callers : restPc[c] \in Locked /\ restPc[d] \in Locked => c = d
  /\ \A c \in Callers : restPc[c] \in {"spawn", "gone"} => worker = "none"
  /\ ObjectStays

\* stop and startAsync wait on a live, joined object, for any number of callers.
THEOREM RestStopSafe == RestSpec => []StopUsesLiveObject
<1>1. RestInv => StopUsesLiveObject
  BY DEF RestInv, RestTypeOK, LifecycleHeld, WorkerJoined, StopUsesLiveObject
<1>2. QED BY <1>1, RestInvariant, PTL

HIDE RestAssumption DEF RestThreads, Serving, Inside, Locked, Ending, Claimed, Goto, Release

-----------------------------------------------------------------------------
(* The order of the frames that a client of the gateway is sent.            *)

Frame == [cycle : Nat, part : Nat, from : {"greeting", "broadcast"}]

\* The order CyclesAdvance states of one view.
InOrder(v) ==
  \A i, j \in DOMAIN v : i < j =>
    IF v[i].from = v[j].from THEN Before(v[i], v[j]) ELSE v[i].cycle # v[j].cycle

Under(v, n) == \A i \in DOMAIN v : v[i].cycle < n

\* Part p + 1 of cycle b can still be sent after v, from where x says.
Follows(v, x, b, p) ==
  \A i \in DOMAIN v :
    IF v[i].from = x THEN v[i].cycle < b \/ (v[i].cycle = b /\ v[i].part <= p)
    ELSE v[i].cycle # b

\* Cycle b comes after a frame of a greeting that is newer.
Overtaken(v, b) == \E i \in DOMAIN v : v[i].from = "greeting" /\ b < v[i].cycle

\* What comes late in v is all of cycle o.
LateIs(v, o) ==
  \A i, j \in DOMAIN v :
    i < j /\ v[i].from = "greeting" /\ v[j].cycle < v[i].cycle => v[j].cycle = o

Telling(c) == server = "telling" /\ handling = c

ViewTypeOK ==
  /\ view \in [Clients -> Seq(Frame)]
  /\ counter \in Nat /\ batch \in Nat /\ sent \in Nat /\ greeting \in Nat /\ told \in Nat

\* What has been counted: both senders have numbers of their own.
CountInv ==
  /\ Sending => batch < counter
  /\ server = "telling" => greeting < counter /\ (Sending => batch # greeting)

ViewInv(c) ==
  /\ InOrder(view[c]) /\ Under(view[c], counter)
  /\ Sending => Follows(view[c], "broadcast", batch, sent)
  /\ Telling(c) => Follows(view[c], "greeting", greeting, told)
  /\ server = "greeting" /\ handling = c => \A i \in DOMAIN view[c] : view[c][i].from = "broadcast"
  /\ \E o \in Nat :
       /\ LateIs(view[c], o)
       /\ Sending => /\ Overtaken(view[c], batch) => batch = o
                     /\ Telling(c) /\ batch < greeting => batch = o

CycleInv ==
  /\ ViewTypeOK
  /\ kind = "gateway" => CountInv /\ \A c \in Clients : ViewInv(c)
  /\ kind # "gateway" => server # "telling" /\ \A c \in Clients : view[c] = <<>>

\* The numbers of a frame in a view are numbers.
LEMMA FrameNumbers ==
  ASSUME NEW v \in Seq(Frame)
  PROVE  \A i \in DOMAIN v : v[i].cycle \in Nat /\ v[i].part \in Nat
<1>1. \A i \in DOMAIN v : v[i] \in Frame
  OBVIOUS
<1>2. \A f \in Frame : f.cycle \in Nat /\ f.part \in Nat
  BY DEF Frame
<1>3. QED BY <1>1, <1>2

\* w is v with one more item.
Longer(w, v, f) ==
  \E n \in Nat :
    /\ DOMAIN w = DOMAIN v \cup {n} /\ w[n] = f
    /\ \A i \in DOMAIN v : i \in Nat /\ i < n /\ w[i] = v[i] /\ v[i] \in Frame

\* What Append returns has that shape.
LEMMA AppendIsLonger ==
  ASSUME NEW v \in Seq(Frame), NEW f \in Frame
  PROVE  Append(v, f) \in Seq(Frame) /\ Longer(Append(v, f), v, f)
<1>1. Append(v, f) \in Seq(Frame) /\ Len(v) \in Nat
  OBVIOUS
<1>2. DOMAIN Append(v, f) = DOMAIN v \cup {Len(v) + 1} /\ Append(v, f)[Len(v) + 1] = f
  OBVIOUS
<1>3. \A i \in DOMAIN v : i \in Nat /\ i < Len(v) + 1 /\ Append(v, f)[i] = v[i] /\ v[i] \in Frame
  OBVIOUS
<1>4. QED BY <1>1, <1>2, <1>3 DEF Longer

\* A frame that follows what was sent from the same place, and whose cycle is not
\* that of the other place, keeps the order and the cycle that may be late.
LEMMA AppendFrame ==
  ASSUME NEW v, NEW w, NEW f \in Frame, NEW p \in Nat, Longer(w, v, f),
         InOrder(v), f.part = p + 1, Follows(v, f.from, f.cycle, p)
  PROVE  /\ InOrder(w)
         /\ Follows(w, f.from, f.cycle, p + 1)
         /\ \A n \in Nat : Under(v, n) /\ f.cycle < n => Under(w, n)
         /\ \A x, b, q : x # f.from /\ b # f.cycle /\ Follows(v, x, b, q) => Follows(w, x, b, q)
         /\ \A o \in Nat : LateIs(v, o) /\ (Overtaken(v, f.cycle) => f.cycle = o) => LateIs(w, o)
<1>1. PICK n \in Nat : /\ DOMAIN w = DOMAIN v \cup {n} /\ w[n] = f
                       /\ \A i \in DOMAIN v : i \in Nat /\ i < n /\ w[i] = v[i] /\ v[i] \in Frame
  BY DEF Longer
<1>2. f.cycle \in Nat /\ f.part \in Nat /\ \A i \in DOMAIN v : v[i].cycle \in Nat /\ v[i].part \in Nat
  BY <1>1 DEF Frame
<1>3. InOrder(w)
  <2> SUFFICES ASSUME NEW i \in DOMAIN w, NEW j \in DOMAIN w, i < j
               PROVE  IF w[i].from = w[j].from THEN Before(w[i], w[j]) ELSE w[i].cycle # w[j].cycle
    BY DEF InOrder
  <2>1. i \in DOMAIN v /\ w[i] = v[i]
    BY <1>1
  <2>2. CASE j \in DOMAIN v
    BY <1>1, <2>1, <2>2 DEF InOrder
  <2>3. CASE j = n
    BY <1>1, <1>2, <2>1, <2>3 DEF Follows, Before
  <2>4. QED BY <1>1, <2>2, <2>3
<1>4. Follows(w, f.from, f.cycle, p + 1)
  BY <1>1, <1>2 DEF Follows
<1>5. ASSUME NEW m \in Nat, Under(v, m), f.cycle < m PROVE Under(w, m)
  BY <1>1, <1>5 DEF Under
<1>6. ASSUME NEW x, NEW b, NEW q, x # f.from, b # f.cycle, Follows(v, x, b, q)
      PROVE  Follows(w, x, b, q)
  BY <1>1, <1>6 DEF Follows
<1>7. ASSUME NEW o \in Nat, LateIs(v, o), Overtaken(v, f.cycle) => f.cycle = o
      PROVE  LateIs(w, o)
  <2> SUFFICES ASSUME NEW i \in DOMAIN w, NEW j \in DOMAIN w, i < j, w[i].from = "greeting",
                      w[j].cycle < w[i].cycle
               PROVE  w[j].cycle = o
    BY DEF LateIs
  <2>1. i \in DOMAIN v /\ w[i] = v[i]
    BY <1>1
  <2>2. CASE j \in DOMAIN v
    BY <1>1, <1>7, <2>1, <2>2 DEF LateIs
  <2>3. CASE j = n
    BY <1>1, <1>7, <2>1, <2>3 DEF Overtaken
  <2>4. QED BY <1>1, <2>2, <2>3
<1>8. QED BY <1>3, <1>4, <1>5, <1>6, <1>7

\* The steps that neither send, nor build, nor greet leave the views as they are.
LEMMA ViewsKept ==
  ASSUME CycleInv, UNCHANGED <<kind, view, counter, batch, sent, greeting, told>>,
         Sending' => Sending,
         server' \in {"greeting", "telling"} => server' = server /\ handling' = handling
  PROVE  CycleInv'
<1>1. ViewTypeOK'
  BY DEF CycleInv, ViewTypeOK
<1>2. ASSUME kind = "gateway" PROVE CountInv' /\ \A c \in Clients : ViewInv(c)'
  <2>1. CountInv'
    BY <1>2 DEF CycleInv, CountInv
  <2>2. ASSUME NEW c \in Clients PROVE ViewInv(c)'
    BY <1>2 DEF CycleInv, ViewInv, Telling
  <2>3. QED BY <2>1, <2>2
<1>3. ASSUME kind # "gateway" PROVE (server # "telling" /\ \A c \in Clients : view[c] = <<>>)'
  BY <1>3 DEF CycleInv
<1>4. QED BY <1>1, <1>2, <1>3 DEF CycleInv

\* A host's step sends nothing.
LEMMA HostKeeps ==
  ASSUME CycleInv, StartServer \/ StopServer \/ HostStep \/ HostListenFails
  PROVE  CycleInv'
<1> USE DEF StartServer, StopServer, HostStep, HostListenFails, Return, Flag, Launch, HostListens,
            Unlisten, HostLocks, CloseAll, HaltLoop, Join, Doing, loopVars, greetVars, sendVars,
            clientVars
<1>1. UNCHANGED <<kind, view, counter, batch, sent, greeting, told>>
  OBVIOUS
<1>2. Sending' => Sending
  BY DEF Sending
<1>3. server' \in {"greeting", "telling"} => server' = server /\ handling' = handling
  OBVIOUS
<1> HIDE DEF StartServer, StopServer, HostStep, HostListenFails, Return, Flag, Launch, HostListens,
            Unlisten, HostLocks, CloseAll, HaltLoop, Join, Doing, loopVars, greetVars, sendVars,
            clientVars
<1>4. QED BY <1>1, <1>2, <1>3, ViewsKept

\* A view with nothing in it has every property of order.
LEMMA EmptyView ==
  /\ <<>> \in Seq(Frame) /\ InOrder(<<>>)
  /\ \A n : Under(<<>>, n)
  /\ \A x, b, p : Follows(<<>>, x, b, p)
  /\ \A b : ~Overtaken(<<>>, b)
  /\ \A o : LateIs(<<>>, o)
BY DEF InOrder, Under, Follows, Overtaken, LateIs

\* A connection's view begins when it opens and ends when it closes.
LEMMA HandleKeeps ==
  ASSUME CycleInv, Handle PROVE CycleInv'
<1>1. /\ UNCHANGED <<kind, counter, batch, sent, greeting, told, sender>>
      /\ view' = [view EXCEPT ![handling] = <<>>]
      /\ server' # "telling" /\ server # "telling"
      /\ server' = "greeting" => handling' = handling
  BY DEF Handle, sendVars, greetVars
<1>2. ViewTypeOK'
  BY <1>1, EmptyView DEF CycleInv, ViewTypeOK
<1>3. /\ view'[handling] = <<>> \/ handling \notin Clients
      /\ \A c \in Clients : c # handling => view'[c] = view[c]
  BY <1>1 DEF CycleInv, ViewTypeOK
<1>4. ASSUME kind = "gateway" PROVE CountInv' /\ \A c \in Clients : ViewInv(c)'
  <2>1. CountInv'
    BY <1>1, <1>4 DEF CycleInv, CountInv, Sending
  <2>2. ASSUME NEW c \in Clients PROVE ViewInv(c)'
    <3>0. batch \in Nat
      BY DEF CycleInv, ViewTypeOK
    <3>1. CASE c = handling
      <4>1. view'[c] = <<>>
        BY <1>3, <3>1
      <4>2. ~Telling(c)'
        BY <1>1 DEF Telling
      <4>3. \A i \in DOMAIN view'[c] : view'[c][i].from = "broadcast"
        BY <4>1
      <4>4. QED BY <1>1, <3>0, <4>1, <4>2, <4>3, EmptyView DEF ViewInv
    <3>2. CASE c # handling
      <4>1. view'[c] = view[c] /\ ViewInv(c)
        BY <1>3, <1>4, <3>2 DEF CycleInv
      <4>2. ~Telling(c)' /\ ~(server' = "greeting" /\ handling' = c)
        BY <1>1, <3>2 DEF Telling
      <4>3. Sending' <=> Sending
        BY <1>1 DEF Sending
      <4>4. QED BY <1>1, <4>1, <4>2, <4>3 DEF ViewInv
    <3>3. QED BY <3>1, <3>2
  <2>3. QED BY <2>1, <2>2
<1>5. ASSUME kind # "gateway" PROVE (server # "telling" /\ \A c \in Clients : view[c] = <<>>)'
  BY <1>1, <1>3, <1>5 DEF CycleInv
<1>6. QED BY <1>1, <1>2, <1>4, <1>5 DEF CycleInv

\* The greeting is counted above all that the client has been sent. What is built
\* by then is the one cycle that can come late.
LEMMA CountKeeps ==
  ASSUME CycleInv, CountGreeting PROVE CycleInv'
<1>1. /\ UNCHANGED <<kind, view, batch, sent, told, sender>>
      /\ server = "greeting"
  BY DEF CountGreeting, sendVars, clientVars
<1>2. CASE ~(kind = "gateway" /\ counter <= MaxCycles)
  <2>1. server' = "loop" /\ UNCHANGED <<greeting, counter>>
    BY <1>2 DEF CountGreeting
  <2>2. QED BY <1>1, <2>1, ViewsKept DEF Sending
<1>3. CASE kind = "gateway" /\ counter <= MaxCycles
  <2>1. greeting' = counter /\ counter' = counter + 1 /\ server' = "telling" /\ handling' = handling
    BY <1>3 DEF CountGreeting
  <2>2. counter \in Nat /\ batch \in Nat /\ (Sending' <=> Sending) /\ (Sending => batch < counter)
    BY <1>1, <1>3 DEF CycleInv, ViewTypeOK, CountInv, Sending
  <2>3. ViewTypeOK'
    BY <1>1, <2>1 DEF CycleInv, ViewTypeOK
  <2>4. CountInv'
    BY <1>1, <2>1, <2>2 DEF CountInv
  <2>5. ASSUME NEW c \in Clients PROVE ViewInv(c)'
    <3>1. ViewInv(c) /\ view'[c] = view[c] /\ view[c] \in Seq(Frame)
      BY <1>1, <1>3 DEF CycleInv, ViewTypeOK
    <3>2. \A i \in DOMAIN view[c] : view[c][i].cycle \in Nat
      BY <3>1, FrameNumbers
    <3>3. Under(view[c], counter + 1)
      BY <2>2, <3>1, <3>2 DEF ViewInv, Under
    <3>4. CASE c = handling
      <4>1. \A i \in DOMAIN view[c] : view[c][i].from = "broadcast"
        BY <1>1, <3>1, <3>4 DEF ViewInv
      <4>2. Follows(view[c], "greeting", counter, told)
        BY <2>2, <3>1, <3>2, <4>1 DEF ViewInv, Under, Follows
      <4>3. LateIs(view[c], batch) /\ ~Overtaken(view[c], batch)
        BY <4>1 DEF LateIs, Overtaken
      <4>4. QED BY <1>1, <2>1, <2>2, <3>1, <3>3, <4>2, <4>3 DEF ViewInv
    <3>5. CASE c # handling
      <4>1. ~Telling(c)' /\ ~(server' = "greeting" /\ handling' = c)
        BY <2>1, <3>5 DEF Telling
      <4>2. QED BY <1>1, <2>1, <2>2, <3>1, <3>3, <4>1 DEF ViewInv
    <3>6. QED BY <3>4, <3>5
  <2>6. QED BY <1>1, <1>3, <2>3, <2>4, <2>5 DEF CycleInv
<1>4. QED BY <1>2, <1>3

\* A frame of the greeting follows its earlier ones, whatever was broadcast.
LEMMA GreetKeeps ==
  ASSUME CycleInv, Greet PROVE CycleInv'
<1> DEFINE f == [cycle |-> greeting, part |-> told + 1, from |-> "greeting"]
<1>1. /\ UNCHANGED <<kind, counter, batch, sent, sender>>
      /\ server = "telling"
      /\ view' = [view EXCEPT ![handling] = Append(@, f)]
      /\ \/ told' = told + 1 /\ UNCHANGED <<server, handling, greeting>>
         \/ server' = "loop" /\ told' = 0 /\ greeting' = 0
  BY DEF Greet, sendVars
<1>2. /\ kind = "gateway" /\ CountInv
      /\ counter \in Nat /\ batch \in Nat /\ greeting \in Nat /\ told \in Nat
      /\ (Sending' <=> Sending)
  BY <1>1 DEF CycleInv, ViewTypeOK, Sending
<1>3. f \in Frame /\ f.cycle = greeting /\ f.part = told + 1 /\ f.from = "greeting"
  BY <1>2 DEF Frame
<1> HIDE DEF f
<1>4. \A c \in Clients : view[c] \in Seq(Frame) /\ Append(view[c], f) \in Seq(Frame)
  BY <1>3, AppendIsLonger DEF CycleInv, ViewTypeOK
<1>5. /\ handling \in Clients => view'[handling] = Append(view[handling], f)
      /\ \A c \in Clients : c # handling => view'[c] = view[c]
  BY <1>1 DEF CycleInv, ViewTypeOK
<1>6. ViewTypeOK'
  <2>1. view' \in [Clients -> Seq(Frame)]
    BY <1>1, <1>4, <1>5 DEF CycleInv, ViewTypeOK
  <2>2. QED BY <1>1, <1>2, <2>1 DEF CycleInv, ViewTypeOK
<1>7. CountInv'
  BY <1>1, <1>2 DEF CountInv
<1>8. ASSUME NEW c \in Clients PROVE ViewInv(c)'
  <2>1. ViewInv(c)
    BY <1>2 DEF CycleInv
  <2>2. server' # "greeting"
    BY <1>1
  <2>3. CASE c = handling
    <3> DEFINE v == view[c]
               w == Append(v, f)
    <3>1. view'[c] = w /\ Longer(w, v, f) /\ Telling(c)
      BY <1>1, <1>3, <1>4, <1>5, <2>3, AppendIsLonger DEF Telling
    <3>2. PICK o \in Nat :
            /\ LateIs(v, o)
            /\ Sending => /\ Overtaken(v, batch) => batch = o
                          /\ Telling(c) /\ batch < greeting => batch = o
      BY <2>1 DEF ViewInv
    <3>3. /\ InOrder(v) /\ Under(v, counter) /\ Follows(v, "greeting", greeting, told)
          /\ Sending => Follows(v, "broadcast", batch, sent)
      BY <2>1, <3>1 DEF ViewInv
    <3>4. greeting < counter /\ (Sending => batch # greeting)
      BY <1>1, <1>2 DEF CountInv
    <3> HIDE DEF v, w
    <3>5. ~Overtaken(v, greeting)
      <4>1. \A i \in DOMAIN v : v[i].cycle \in Nat
        BY <1>4, FrameNumbers DEF v
      <4>2. QED BY <1>2, <3>3, <4>1 DEF Overtaken, Follows
    <3>6. /\ InOrder(w) /\ Follows(w, "greeting", greeting, told + 1)
          /\ Under(w, counter) /\ LateIs(w, o)
          /\ Sending => Follows(w, "broadcast", batch, sent)
      BY <1>2, <1>3, <3>1, <3>2, <3>3, <3>4, <3>5, AppendFrame
    <3>7. ASSUME Sending, Overtaken(w, batch) PROVE batch = o
      <4>1. Overtaken(v, batch) \/ batch < greeting
        BY <1>3, <3>1, <3>7 DEF Overtaken, Longer
      <4>2. QED BY <3>1, <3>2, <3>7, <4>1
    <3>8. Telling(c)' => Follows(w, "greeting", greeting', told') /\ greeting' = greeting
      BY <1>1, <3>6 DEF Telling
    <3>9. QED BY <1>1, <1>2, <2>2, <3>1, <3>2, <3>6, <3>7, <3>8 DEF ViewInv
  <2>4. CASE c # handling
    <3>1. view'[c] = view[c]
      BY <1>5, <2>4
    <3>2. ~Telling(c)'
      BY <1>1, <2>4 DEF Telling
    <3>3. QED BY <1>1, <1>2, <2>1, <2>2, <3>1, <3>2 DEF ViewInv
  <2>5. QED BY <2>3, <2>4
<1>9. QED BY <1>1, <1>2, <1>6, <1>7, <1>8 DEF CycleInv

\* A cycle that is built is newer than everything that was counted.
LEMMA BuildKeeps ==
  ASSUME CycleInv, Build PROVE CycleInv'
<1>1. /\ UNCHANGED <<kind, view, server, handling, greeting, told, sent>>
      /\ kind = "gateway" => batch' = counter /\ counter' = counter + 1
      /\ kind # "gateway" => batch' = batch /\ counter' = counter
  BY DEF Build, loopVars, greetVars, clientVars
<1>2. ViewTypeOK'
  BY <1>1 DEF CycleInv, ViewTypeOK
<1>3. ASSUME kind = "gateway" PROVE CountInv' /\ \A c \in Clients : ViewInv(c)'
  <2>0. /\ batch' = counter /\ counter' = counter + 1 /\ CountInv
        /\ counter \in Nat /\ batch \in Nat /\ greeting \in Nat
    BY <1>1, <1>3 DEF CycleInv, ViewTypeOK
  <2>1. CountInv'
    BY <1>1, <2>0 DEF CountInv
  <2>2. ASSUME NEW c \in Clients PROVE ViewInv(c)'
    <3>1. ViewInv(c) /\ view'[c] = view[c] /\ (Telling(c)' <=> Telling(c))
      BY <1>1, <1>3 DEF CycleInv, Telling
    <3>2. \A i \in DOMAIN view[c] : view[c][i].cycle \in Nat
      BY FrameNumbers DEF CycleInv, ViewTypeOK
    <3>3. /\ Under(view[c], counter + 1) /\ ~Overtaken(view[c], counter)
          /\ Follows(view[c], "broadcast", counter, sent)
      BY <2>0, <3>1, <3>2 DEF ViewInv, Under, Overtaken, Follows
    <3>4. Telling(c) => ~(counter < greeting)
      BY <2>0 DEF CountInv, Telling
    <3>5. QED BY <1>1, <2>0, <3>1, <3>3, <3>4 DEF ViewInv
  <2>3. QED BY <2>1, <2>2
<1>4. ASSUME kind # "gateway" PROVE (server # "telling" /\ \A c \in Clients : view[c] = <<>>)'
  BY <1>1, <1>4 DEF CycleInv
<1>5. QED BY <1>1, <1>2, <1>3, <1>4 DEF CycleInv

\* A frame that is broadcast comes late for a client whose greeting was counted
\* after it, and then its cycle is the one that may.
LEMMA SendKeeps ==
  ASSUME CycleInv, SendFrame PROVE CycleInv'
<1> DEFINE f == [cycle |-> batch, part |-> sent + 1, from |-> "broadcast"]
<1>1. /\ UNCHANGED <<kind, counter, server, handling, greeting, told, sender, batch>>
      /\ Sending /\ Sending' /\ sent' = sent + 1
      /\ view' = [c \in Clients |-> IF kind = "gateway" /\ c \in conns
                                    THEN Append(view[c], f) ELSE view[c]]
  BY DEF SendFrame, Sending, loopVars, greetVars
<1>2. /\ counter \in Nat /\ batch \in Nat /\ sent \in Nat /\ greeting \in Nat
      /\ \A c \in Clients : view[c] \in Seq(Frame)
  BY DEF CycleInv, ViewTypeOK
<1>3. f \in Frame /\ f.cycle = batch /\ f.part = sent + 1 /\ f.from = "broadcast"
  BY <1>2 DEF Frame
<1> HIDE DEF f
<1>4. \A c \in Clients : /\ Append(view[c], f) \in Seq(Frame)
                         /\ \/ view'[c] = view[c]
                            \/ kind = "gateway" /\ view'[c] = Append(view[c], f)
  BY <1>1, <1>2, <1>3, AppendIsLonger
<1>5. ViewTypeOK'
  <2>1. view' \in [Clients -> Seq(Frame)]
    BY <1>1, <1>2, <1>4
  <2>2. QED BY <1>1, <1>2, <2>1 DEF CycleInv, ViewTypeOK
<1>6. ASSUME kind = "gateway" PROVE CountInv' /\ \A c \in Clients : ViewInv(c)'
  <2>1. CountInv'
    BY <1>1, <1>6 DEF CycleInv, CountInv
  <2>2. ASSUME NEW c \in Clients PROVE ViewInv(c)'
    <3>1. ViewInv(c) /\ (Telling(c)' <=> Telling(c))
      BY <1>1, <1>6 DEF CycleInv, Telling
    <3>2. CASE view'[c] = view[c]
      <4>1. Follows(view[c], "broadcast", batch, sent + 1)
        <5>1. \A i \in DOMAIN view[c] : view[c][i].part \in Nat
          BY <1>2, FrameNumbers
        <5>2. QED BY <1>1, <1>2, <3>1, <5>1 DEF ViewInv, Follows
      <4>2. QED BY <1>1, <3>1, <3>2, <4>1 DEF ViewInv
    <3>3. CASE view'[c] = Append(view[c], f)
      <4> DEFINE v == view[c]
                 w == Append(v, f)
      <4>1. view'[c] = w /\ Longer(w, v, f)
        BY <1>2, <1>3, <3>3, AppendIsLonger
      <4>2. PICK o \in Nat :
              /\ LateIs(v, o)
              /\ Overtaken(v, batch) => batch = o
              /\ Telling(c) /\ batch < greeting => batch = o
        BY <1>1, <3>1 DEF ViewInv
      <4>3. /\ InOrder(v) /\ Under(v, counter) /\ Follows(v, "broadcast", batch, sent)
            /\ Telling(c) => Follows(v, "greeting", greeting, told)
            /\ server = "greeting" /\ handling = c => \A i \in DOMAIN v : v[i].from = "broadcast"
        BY <1>1, <3>1 DEF ViewInv
      <4>4. batch < counter /\ (Telling(c) => batch # greeting)
        BY <1>1, <1>6 DEF CycleInv, CountInv, Telling
      <4> HIDE DEF v, w
      <4>5. /\ InOrder(w) /\ Follows(w, "broadcast", batch, sent + 1)
            /\ Under(w, counter) /\ LateIs(w, o)
            /\ Telling(c) => Follows(w, "greeting", greeting, told)
        BY <1>2, <1>3, <4>1, <4>2, <4>3, <4>4, AppendFrame
      <4>6. /\ Overtaken(w, batch) => Overtaken(v, batch)
            /\ server = "greeting" /\ handling = c => \A i \in DOMAIN w : w[i].from = "broadcast"
        BY <1>3, <4>1, <4>3 DEF Overtaken, Longer
      <4>7. QED BY <1>1, <3>1, <4>1, <4>2, <4>5, <4>6 DEF ViewInv
    <3>4. QED BY <1>4, <3>2, <3>3
  <2>3. QED BY <2>1, <2>2
<1>7. ASSUME kind # "gateway" PROVE (server # "telling" /\ \A c \in Clients : view[c] = <<>>)'
  BY <1>1, <1>4, <1>7 DEF CycleInv
<1>8. QED BY <1>1, <1>5, <1>6, <1>7 DEF CycleInv

\* When a cycle has been sent nothing is left of it to send.
LEMMA FinishKeeps ==
  ASSUME CycleInv, FinishSend PROVE CycleInv'
<1>1. /\ UNCHANGED <<kind, view, counter, server, handling, greeting, told>>
      /\ ~Sending' /\ batch' = 0 /\ sent' = 0
  BY DEF FinishSend, Sending, loopVars, greetVars, clientVars
<1>2. ViewTypeOK'
  BY <1>1 DEF CycleInv, ViewTypeOK
<1>3. ASSUME kind = "gateway" PROVE CountInv' /\ \A c \in Clients : ViewInv(c)'
  BY <1>1, <1>3 DEF CycleInv, CountInv, ViewInv, Telling
<1>4. ASSUME kind # "gateway" PROVE (server # "telling" /\ \A c \in Clients : view[c] = <<>>)'
  BY <1>1, <1>4 DEF CycleInv
<1>5. QED BY <1>1, <1>2, <1>3, <1>4 DEF CycleInv

\* Every step of a streaming server keeps the invariant.
LEMMA CycleInvStep == CycleInv /\ [StreamNext]_streamVars => CycleInv'
<1> SUFFICES ASSUME CycleInv, [StreamNext]_streamVars PROVE CycleInv'
  OBVIOUS
<1>1. CASE StartServer \/ StopServer \/ HostStep \/ HostListenFails
  BY <1>1, HostKeeps
<1>2. CASE LoopListens \/ LoopReturns \/ LoopFails \/ SenderEnds \/ \E c \in Clients : LoopEvent(c)
  BY <1>2, ViewsKept DEF LoopListens, LoopReturns, LoopFails, SenderEnds, LoopEvent, sendVars,
     loopVars, greetVars, clientVars, Sending
<1>3. CASE LockConnections \/ \E c \in Clients : Connect(c) \/ Leave(c)
  BY <1>3, ViewsKept DEF LockConnections, Connect, Leave, sendVars, loopVars, greetVars, clientVars,
     Sending
<1>4. CASE UNCHANGED streamVars
  BY <1>4, ViewsKept DEF streamVars, Sending
<1>5. QED
  BY <1>1, <1>2, <1>3, <1>4, HandleKeeps, CountKeeps, GreetKeeps, BuildKeeps, SendKeeps,
     FinishKeeps DEF StreamNext, LoopStep

\* CycleInv holds in every state of the three servers.
THEOREM CycleInvariant == StreamSpec => []CycleInv
<1>1. StreamInit => CycleInv
  <2> SUFFICES ASSUME StreamInit PROVE CycleInv
    OBVIOUS
  <2>1. ViewTypeOK /\ server = "none" /\ \A c \in Clients : view[c] = <<>>
    BY EmptyView DEF StreamInit, ViewTypeOK
  <2>2. kind = "gateway" => ~Sending
    BY DEF StreamInit, Sending
  <2>3. QED BY <2>1, <2>2, EmptyView DEF CycleInv, CountInv, ViewInv, Telling
<1>2. QED BY <1>1, CycleInvStep, PTL DEF StreamSpec

\* For any number of clients, cycles and frames: the frames of a client's greeting
\* come in their order, as do those that are broadcast, with no number in common;
\* and one cycle at most comes after a greeting that is newer, however far others
\* overtake the greeting between two of its frames (fs_gateway.cpp:55, :68-75, :183).
THEOREM CyclesAdvanceAlways == StreamSpec => []CyclesAdvance
<1>1. CycleInv => CyclesAdvance
  <2> SUFFICES ASSUME CycleInv, NEW c \in Clients
               PROVE  LET v == view[c]
                      IN  /\ InOrder(v)
                          /\ \A i, j \in Late(v) : v[i].cycle = v[j].cycle
    BY DEF CyclesAdvance, InOrder
  <2> DEFINE v == view[c]
  <2>1. CASE kind = "gateway"
    <3>1. InOrder(v) /\ \E o \in Nat : LateIs(v, o)
      BY <2>1 DEF CycleInv, ViewInv
    <3> HIDE DEF v
    <3>2. \A i, j \in Late(v) : v[i].cycle = v[j].cycle
      BY <3>1 DEF Late, LateIs
    <3>3. QED BY <3>1, <3>2 DEF v
  <2>2. CASE kind # "gateway"
    <3>1. v = <<>>
      BY <2>2 DEF CycleInv
    <3> HIDE DEF v
    <3>2. InOrder(v) /\ Late(v) = {}
      BY <3>1, EmptyView DEF Late
    <3>3. QED BY <3>2 DEF v
  <2>3. QED BY <2>1, <2>2
<1>2. QED BY <1>1, CycleInvariant, PTL

-----------------------------------------------------------------------------
(* The export plane (ExportPlane): a sequence lock for each shard, and       *)
(* snapshots that add up.                                                    *)

\* The counters of a shard.
LEMMA FieldFacts ==
  /\ Range(Fields) = {"total", "valid", "fallback", "confidence", "consensus", "invalid"}
  /\ DOMAIN Fields = 1 .. 6 /\ Len(Fields) = 6
  /\ \A i \in 1 .. 6 : Fields[i] \in Range(Fields)
  /\ \A f \in Range(Fields) : \E i \in 1 .. 6 : Fields[i] = f
<1> DEFINE F == Fields
<1>1. /\ DOMAIN F = 1 .. 6 /\ Len(F) = 6
      /\ F[1] = "total" /\ F[2] = "valid" /\ F[3] = "fallback"
      /\ F[4] = "confidence" /\ F[5] = "consensus" /\ F[6] = "invalid"
  BY DEF Fields
<1> HIDE DEF F
<1>2. 1 .. 6 = {1, 2, 3, 4, 5, 6}
  OBVIOUS
<1>3. Range(F) = {"total", "valid", "fallback", "confidence", "consensus", "invalid"}
  <2>1. Range(F) = {F[i] : i \in 1 .. 6}
    BY <1>1 DEF Range
  <2> QED BY <1>1, <1>2, <2>1
<1>4. \A i \in 1 .. 6 : F[i] \in Range(F)
  BY <1>1 DEF Range
<1>5. \A f \in Range(F) : \E i \in 1 .. 6 : F[i] = f
  BY <1>1 DEF Range
<1> QED BY <1>1, <1>3, <1>4, <1>5 DEF F

\* No two threads count in one shard.
LEMMA ShardsDiffer ==
  ASSUME NEW c \in Cores, NEW d \in Cores, ShardOf(c) = ShardOf(d)
  PROVE  c = d
<1> DEFINE f == [core \in Cores |-> ShardOf(core)]
<1>1. f \in Surjection(Cores, Shards)
  BY DEF Surjection, Shards
<1>2. f \in Injection(Cores, Shards)
  BY <1>1, FS_Surjection, ExportAssumption, ShardsApart
<1>3. f[c] = f[d]
  OBVIOUS
<1> HIDE DEF f
<1> QED BY <1>2, <1>3 DEF Injection, IsInjective

\* The shards are numbers below MAX_CORES.
LEMMA ShardNumbers ==
  /\ Shards \in SUBSET Nat /\ Shards # {} /\ MaxCores \in Nat
  /\ \A s \in Shards : s < MaxCores
  /\ \A c \in Cores : ShardOf(c) \in Shards
<1>1. MaxCores \in Nat /\ MaxCores > 0 /\ Cores \subseteq Nat /\ Cores # {}
  BY ExportAssumption
<1>2. ASSUME NEW c \in Cores
      PROVE  ShardOf(c) \in Nat /\ ShardOf(c) < MaxCores /\ ShardOf(c) \in Shards
  <2>1. ShardOf(c) \in Shards
    BY DEF Shards
  <2> QED BY <1>1, <2>1 DEF ShardOf
<1>3. \A s \in Shards : \E c \in Cores : s = ShardOf(c)
  BY DEF Shards
<1> QED BY <1>1, <1>2, <1>3

-----------------------------------------------------------------------------
(* The writers *)

Snap == [Range(Fields) -> Nat]
Steps == Range(Fields) \cup {"end"}

\* What is left of a recordDecision: some counters, each once, and end_write.
Program(w) ==
  /\ w \in Seq(Steps)
  /\ \A i, j \in DOMAIN w : w[i] = w[j] => i = j
  /\ w # <<>> => w[Len(w)] = "end"

\* What it will still add to a counter.
Due(w, f) == IF \E i \in DOMAIN w : w[i] = f THEN 1 ELSE 0

Adds(v) == /\ v["total"] = v["valid"] + v["fallback"] + v["invalid"]
           /\ v["confidence"] + v["consensus"] <= v["fallback"]

\* v adds up once w has been done.
AddsAfter(v, w) ==
  /\ v["total"] + Due(w, "total")
       = v["valid"] + Due(w, "valid") + v["fallback"] + Due(w, "fallback")
           + v["invalid"] + Due(w, "invalid")
  /\ v["confidence"] + Due(w, "confidence") + v["consensus"] + Due(w, "consensus")
       <= v["fallback"] + Due(w, "fallback")

\* What the end of a program adds to it.
LEMMA ProgramEnds ==
  ASSUME NEW p \in Seq(Range(Fields)), \A i, j \in DOMAIN p : p[i] = p[j] => i = j
  PROVE  /\ Program(Append(p, "end")) /\ Append(p, "end") # <<>>
         /\ \A f \in Range(Fields) : Due(Append(p, "end"), f) = Due(p, f)
<1> DEFINE w == Append(p, "end")
           n == Len(p)
           R == Range(Fields)
<1>1. "end" \notin R /\ "end" \in Steps /\ R \subseteq Steps
  BY FieldFacts DEF Steps
<1>2. p \in Seq(Steps) /\ n \in Nat /\ DOMAIN p = 1 .. n /\ \A i \in 1 .. n : p[i] \in R
  BY <1>1
<1>3. /\ w \in Seq(Steps) /\ Len(w) = n + 1 /\ w[n + 1] = "end"
      /\ \A i \in 1 .. n : w[i] = p[i]
  BY <1>1, <1>2, AppendProperties
<1> HIDE DEF w, n, R
<1>4. DOMAIN w = 1 .. n + 1 /\ \A i \in 1 .. n + 1 : i = n + 1 \/ i \in 1 .. n
  BY <1>2, <1>3
<1>5. ASSUME NEW i \in 1 .. n + 1, NEW j \in 1 .. n + 1, w[i] = w[j] PROVE i = j
  <2>1. CASE i \in 1 .. n /\ j \in 1 .. n
    BY <1>2, <1>3, <1>5, <2>1
  <2>2. CASE ~(i \in 1 .. n /\ j \in 1 .. n)
    <3>1. i = n + 1 \/ j = n + 1
      BY <1>4, <2>2
    <3>2. \A k \in 1 .. n : w[k] # "end"
      BY <1>1, <1>2, <1>3
    <3> QED BY <1>3, <1>4, <1>5, <3>1, <3>2
  <2> QED BY <2>1, <2>2
<1>6. Program(w) /\ w # <<>>
  <2>1. w # <<>>
    BY <1>2, <1>3, EmptySeq
  <2> QED BY <1>3, <1>4, <1>5, <2>1 DEF Program
<1>7. ASSUME NEW f \in R PROVE Due(w, f) = Due(p, f)
  <2>1. (\E i \in DOMAIN w : w[i] = f) => \E i \in DOMAIN p : p[i] = f
    BY <1>1, <1>2, <1>3, <1>4, <1>7
  <2>2. (\E i \in DOMAIN p : p[i] = f) => \E i \in DOMAIN w : w[i] = f
    <3>1. \A i \in 1 .. n : i \in 1 .. n + 1
      BY <1>2
    <3> QED BY <1>2, <1>3, <1>4, <3>1
  <2> QED BY <2>1, <2>2 DEF Due
<1> QED BY <1>6, <1>7 DEF w, R

\* The program of a decision adds to the total once and to one of the rest.
LEMMA ProgramOfStatus ==
  ASSUME NEW status \in DecisionStatuses
  PROVE  LET w == Append(Counted[status], "end")
         IN  /\ Program(w) /\ w # <<>>
             /\ Due(w, "total") = Due(w, "valid") + Due(w, "fallback") + Due(w, "invalid")
             /\ Due(w, "confidence") + Due(w, "consensus") <= Due(w, "fallback")
<1> DEFINE p == Counted[status]
           w == Append(p, "end")
           R == Range(Fields)
           Sound(q) == /\ q \in Seq(R) /\ \A i, j \in DOMAIN q : q[i] = q[j] => i = j
                       /\ Due(q, "total") = Due(q, "valid") + Due(q, "fallback") + Due(q, "invalid")
                       /\ Due(q, "confidence") + Due(q, "consensus") <= Due(q, "fallback")
<1>1. R = {"total", "valid", "fallback", "confidence", "consensus", "invalid"}
  BY FieldFacts
<1>2. \/ p = <<"total", "valid">>
      \/ p = <<"total", "confidence", "fallback">>
      \/ p = <<"total", "consensus", "fallback">>
      \/ p = <<"total", "fallback">>
      \/ p = <<"total", "invalid">>
  BY StatusesCounted DEF Counted
<1> HIDE DEF p, R
<1>3. ASSUME NEW q, NEW a \in R, NEW b \in R, q = <<a, b>>, a # b
      PROVE  /\ q \in Seq(R) /\ \A i, j \in DOMAIN q : q[i] = q[j] => i = j
             /\ \A f \in R : Due(q, f) = IF f \in {a, b} THEN 1 ELSE 0
  <2>1. q \in Seq(R) /\ Len(q) = 2 /\ q[1] = a /\ q[2] = b
    BY <1>3
  <2>2. DOMAIN q = {1, 2}
    BY <2>1
  <2> QED BY <1>3, <2>1, <2>2 DEF Due
<1>4. ASSUME NEW q, NEW a \in R, NEW b \in R, NEW c \in R, q = <<a, b, c>>, a # b, b # c, a # c
      PROVE  /\ q \in Seq(R) /\ \A i, j \in DOMAIN q : q[i] = q[j] => i = j
             /\ \A f \in R : Due(q, f) = IF f \in {a, b, c} THEN 1 ELSE 0
  <2>1. q \in Seq(R) /\ Len(q) = 3 /\ q[1] = a /\ q[2] = b /\ q[3] = c
    BY <1>4
  <2>2. DOMAIN q = {1, 2, 3}
    BY <2>1
  <2> QED BY <1>4, <2>1, <2>2 DEF Due
<1>5. Sound(p)
  <2>1. CASE p = <<"total", "valid">>
    BY <1>1, <1>3, <2>1
  <2>2. CASE p = <<"total", "confidence", "fallback">>
    BY <1>1, <1>4, <2>2
  <2>3. CASE p = <<"total", "consensus", "fallback">>
    BY <1>1, <1>4, <2>3
  <2>4. CASE p = <<"total", "fallback">>
    BY <1>1, <1>3, <2>4
  <2>5. CASE p = <<"total", "invalid">>
    BY <1>1, <1>3, <2>5
  <2> QED BY <1>2, <2>1, <2>2, <2>3, <2>4, <2>5
<1>6. /\ Program(w) /\ w # <<>>
      /\ \A f \in R : Due(w, f) = Due(p, f)
  BY <1>5, ProgramEnds DEF R
<1> HIDE DEF w
<1>7. /\ Program(w) /\ w # <<>>
      /\ Due(w, "total") = Due(w, "valid") + Due(w, "fallback") + Due(w, "invalid")
      /\ Due(w, "confidence") + Due(w, "consensus") <= Due(w, "fallback")
  BY <1>1, <1>5, <1>6
<1> QED BY <1>7 DEF w, p

\* One step of a program.
LEMMA ProgramStep ==
  ASSUME NEW w, Program(w), w # <<>>
  PROVE  /\ Program(Tail(w)) /\ Head(w) \in Steps
         /\ Head(w) = "end" <=> Tail(w) = <<>>
         /\ \A f \in Range(Fields) :
              Due(w, f) = Due(Tail(w), f) + (IF f = Head(w) THEN 1 ELSE 0)
<1> DEFINE t == Tail(w)
           n == Len(w)
<1>1. /\ w \in Seq(Steps) /\ n \in Nat /\ n >= 1 /\ DOMAIN w = 1 .. n
      /\ Head(w) = w[1] /\ Head(w) \in Steps
      /\ t \in Seq(Steps) /\ Len(t) = n - 1 /\ DOMAIN t = 1 .. n - 1
      /\ \A i \in 1 .. n - 1 : t[i] = w[i + 1]
  BY HeadTailProperties DEF Program
<1> HIDE DEF t, n
<1>2. \A i \in 1 .. n - 1 : i + 1 \in 1 .. n /\ i + 1 # 1
  BY <1>1
<1>3. Program(t)
  <2>1. ASSUME NEW i \in 1 .. n - 1, NEW j \in 1 .. n - 1, t[i] = t[j] PROVE i = j
    <3>1. w[i + 1] = w[j + 1] /\ i + 1 \in DOMAIN w /\ j + 1 \in DOMAIN w
      BY <1>1, <1>2, <2>1
    <3>2. i + 1 = j + 1
      BY <3>1 DEF Program
    <3> QED BY <1>1, <3>2
  <2>2. ASSUME t # <<>> PROVE t[n - 1] = "end"
    <3>1. n - 1 \in 1 .. n - 1 /\ n - 1 + 1 = n
      BY <1>1, <2>2, EmptySeq
    <3>2. w[n] = "end"
      BY <1>1, EmptySeq DEF Program, n
    <3> QED BY <1>1, <3>1, <3>2
  <2> QED BY <1>1, <2>1, <2>2 DEF Program
<1>4. w[1] = "end" <=> t = <<>>
  <2>1. w[n] = "end" /\ n \in 1 .. n /\ 1 \in 1 .. n
    BY <1>1 DEF Program, n
  <2>2. w[1] = "end" <=> n = 1
    BY <1>1, <2>1 DEF Program
  <2>3. n = 1 <=> t = <<>>
    BY <1>1, EmptySeq
  <2> QED BY <2>2, <2>3
<1>5. ASSUME NEW f \in Range(Fields)
      PROVE  Due(w, f) = Due(t, f) + (IF f = w[1] THEN 1 ELSE 0)
  <2>0. 1 \in DOMAIN w
    BY <1>1
  <2>1. ASSUME NEW i \in DOMAIN w, w[i] = f
        PROVE  f = w[1] \/ \E j \in DOMAIN t : t[j] = f
    <3>1. CASE i = 1
      BY <2>1, <3>1
    <3>2. CASE i # 1
      <4>1. i - 1 \in 1 .. n - 1 /\ i - 1 + 1 = i
        BY <1>1, <3>2
      <4>2. t[i - 1] = f
        BY <1>1, <2>1, <4>1
      <4> QED BY <1>1, <4>1, <4>2
    <3> QED BY <3>1, <3>2
  <2>2. ASSUME NEW j \in DOMAIN t, t[j] = f
        PROVE  (\E i \in DOMAIN w : w[i] = f) /\ f # w[1]
    <3>1. j + 1 \in DOMAIN w /\ w[j + 1] = f /\ j + 1 # 1
      BY <1>1, <1>2, <2>2
    <3>2. w[j + 1] # w[1]
      BY <2>0, <3>1 DEF Program
    <3> QED BY <3>1, <3>2
  <2>3. (\E i \in DOMAIN w : w[i] = f) <=> (f = w[1] \/ \E i \in DOMAIN t : t[i] = f)
    BY <2>0, <2>1, <2>2
  <2> QED BY <2>2, <2>3 DEF Due
<1> QED BY <1>1, <1>3, <1>4, <1>5 DEF t

\* A counter and what is due to it come to the same, of u and w and of v and x.
Moved(u, v, w, x, f) ==
  /\ u[f] \in Nat /\ v[f] \in Nat /\ Due(w, f) \in Nat /\ Due(x, f) \in Nat
  /\ v[f] + Due(x, f) = u[f] + Due(w, f)

\* Two shards whose counters and programs come to the same add up alike.
LEMMA AddsMove ==
  ASSUME NEW u \in Snap, NEW v \in Snap, NEW w, NEW x,
         \A f \in Range(Fields) : v[f] + Due(x, f) = u[f] + Due(w, f),
         AddsAfter(u, w)
  PROVE  AddsAfter(v, x)
<1>1. \A f \in Range(Fields) :
        u[f] \in Nat /\ v[f] \in Nat /\ Due(w, f) \in Nat /\ Due(x, f) \in Nat
  BY DEF Snap, Due
<1>2. /\ "total" \in Range(Fields) /\ "valid" \in Range(Fields) /\ "fallback" \in Range(Fields)
      /\ "confidence" \in Range(Fields) /\ "consensus" \in Range(Fields)
      /\ "invalid" \in Range(Fields)
  BY FieldFacts
<1>3. Moved(u, v, w, x, "total") /\ Moved(u, v, w, x, "valid") /\ Moved(u, v, w, x, "fallback")
  BY <1>1, <1>2 DEF Moved
<1>4. Moved(u, v, w, x, "confidence") /\ Moved(u, v, w, x, "consensus") /\ Moved(u, v, w, x, "invalid")
  BY <1>1, <1>2 DEF Moved
<1> QED BY <1>3, <1>4 DEF AddsAfter, Moved

\* A shard nothing is left to be done to adds up.
LEMMA NothingDue ==
  /\ Program(<<>>) /\ \A f : Due(<<>>, f) = 0
  /\ \A v \in Snap : AddsAfter(v, <<>>) <=> Adds(v)
<1>1. Program(<<>>)
  BY EmptySeq DEF Program
<1>2. \A f : Due(<<>>, f) = 0
  BY DEF Due
<1>3. ASSUME NEW v \in Snap PROVE AddsAfter(v, <<>>) <=> Adds(v)
  <2>1. /\ v["total"] \in Nat /\ v["valid"] \in Nat /\ v["fallback"] \in Nat
        /\ v["confidence"] \in Nat /\ v["consensus"] \in Nat /\ v["invalid"] \in Nat
    BY FieldFacts DEF Snap
  <2>2. /\ Due(<<>>, "total") = 0 /\ Due(<<>>, "valid") = 0 /\ Due(<<>>, "fallback") = 0
        /\ Due(<<>>, "confidence") = 0 /\ Due(<<>>, "consensus") = 0 /\ Due(<<>>, "invalid") = 0
    BY <1>2
  <2> QED BY <2>1, <2>2 DEF AddsAfter, Adds
<1> QED BY <1>1, <1>2, <1>3

\* Each shard has its sequence odd just while its thread writes, and adds up
\* with what that thread has left to do.
WritersOK ==
  /\ sequence \in [Shards -> Nat] /\ shard \in [Shards -> Snap]
  /\ DOMAIN writing = Cores
  /\ \A c \in Cores :
       /\ Program(writing[c])
       /\ sequence[ShardOf(c)] % 2 = 0 <=> writing[c] = <<>>
       /\ AddsAfter(shard[ShardOf(c)], writing[c])

\* Counters and sequences only grow, and a shard whose sequence is even and
\* stays what it was has not moved.
Grows ==
  \A s \in Shards :
    /\ sequence[s] <= sequence'[s]
    /\ \A f \in Range(Fields) : shard[s][f] <= shard'[s][f]
    /\ sequence[s] % 2 = 0 /\ sequence'[s] = sequence[s] => shard'[s] = shard[s]

\* Odd and even.
LEMMA Parity ==
  ASSUME NEW n \in Nat
  PROVE  n + 1 \in Nat /\ ((n + 1) % 2 = 0 <=> ~(n % 2 = 0))
OBVIOUS

\* Sums of counters and of what is due to them.
LEMMA Reorder ==
  ASSUME NEW v \in Nat, NEW f \in Nat, NEW i \in Nat,
         NEW dv \in Nat, NEW df \in Nat, NEW di \in Nat
  PROVE  (v + f + i) + (dv + df + di) = v + dv + f + df + i + di
OBVIOUS

\* Two sums within their bounds are so together.
LEMMA Within ==
  ASSUME NEW f \in Nat, NEW a \in Nat, NEW b \in Nat, a + b <= f,
         NEW df \in Nat, NEW da \in Nat, NEW db \in Nat, da + db <= df
  PROVE  a + da + b + db <= f + df
OBVIOUS

\* A decision that begins.
LEMMA RecordGrows ==
  ASSUME WritersOK, NEW c \in Cores, Record(c)
  PROVE  WritersOK' /\ Grows
<1> DEFINE s == ShardOf(c)
<1>1. PICK status \in DecisionStatuses :
        writing' = [writing EXCEPT ![c] = Append(Counted[status], "end")]
  BY DEF Record
<1> DEFINE w == Append(Counted[status], "end")
<1>2. /\ Program(w) /\ w # <<>>
      /\ Due(w, "total") = Due(w, "valid") + Due(w, "fallback") + Due(w, "invalid")
      /\ Due(w, "confidence") + Due(w, "consensus") <= Due(w, "fallback")
  BY ProgramOfStatus
<1>3. /\ writing[c] = <<>> /\ writing' = [writing EXCEPT ![c] = w]
      /\ sequence' = [sequence EXCEPT ![s] = sequence[s] + 1] /\ shard' = shard
      /\ s \in Shards
  BY <1>1, ShardNumbers DEF Record
<1> HIDE DEF w, s
<1>4. /\ sequence' \in [Shards -> Nat] /\ shard' \in [Shards -> Snap] /\ DOMAIN writing' = Cores
  BY <1>3 DEF WritersOK
<1>5. sequence[s] \in Nat /\ sequence[s] % 2 = 0
  BY <1>3 DEF WritersOK, s
<1>6. sequence'[s] = sequence[s] + 1 /\ sequence'[s] % 2 # 0
  BY <1>3, <1>5, Parity DEF WritersOK
<1>7. AddsAfter(shard[s], w)
  <2>1. shard[s] \in Snap /\ Adds(shard[s])
    BY <1>3, NothingDue DEF WritersOK, s
  <2> DEFINE v == shard[s]
  <2>2. /\ v["total"] \in Nat /\ v["valid"] \in Nat /\ v["fallback"] \in Nat
        /\ v["confidence"] \in Nat /\ v["consensus"] \in Nat /\ v["invalid"] \in Nat
    BY <2>1, FieldFacts DEF Snap
  <2>3. \A f : Due(w, f) \in Nat
    BY DEF Due
  <2>4. /\ Due(w, "total") \in Nat /\ Due(w, "valid") \in Nat /\ Due(w, "fallback") \in Nat
        /\ Due(w, "confidence") \in Nat /\ Due(w, "consensus") \in Nat /\ Due(w, "invalid") \in Nat
    BY <2>3
  <2>5. Adds(v)
    BY <2>1
  <2> HIDE DEF v
  <2>6. /\ v["total"] = v["valid"] + v["fallback"] + v["invalid"]
        /\ v["confidence"] + v["consensus"] <= v["fallback"]
    BY <2>5 DEF Adds
  <2>7. v["total"] + Due(w, "total")
          = v["valid"] + Due(w, "valid") + v["fallback"] + Due(w, "fallback")
              + v["invalid"] + Due(w, "invalid")
    <3>1. v["total"] + Due(w, "total")
            = (v["valid"] + v["fallback"] + v["invalid"])
                + (Due(w, "valid") + Due(w, "fallback") + Due(w, "invalid"))
      BY <1>2, <2>6, Zenon
    <3>2. (v["valid"] + v["fallback"] + v["invalid"])
            + (Due(w, "valid") + Due(w, "fallback") + Due(w, "invalid"))
            = v["valid"] + Due(w, "valid") + v["fallback"] + Due(w, "fallback")
                + v["invalid"] + Due(w, "invalid")
      BY <2>2, <2>4, SMTT(30)
    <3> QED BY <3>1, <3>2, Zenon
  <2>8. v["confidence"] + Due(w, "confidence") + v["consensus"] + Due(w, "consensus")
          <= v["fallback"] + Due(w, "fallback")
    BY <1>2, <2>2, <2>4, <2>6, Within, Zenon
  <2>9. AddsAfter(v, w)
    BY <2>7, <2>8 DEF AddsAfter
  <2> QED BY <2>9 DEF v
<1>8. ASSUME NEW d \in Cores
      PROVE  /\ Program(writing'[d])
             /\ sequence'[ShardOf(d)] % 2 = 0 <=> writing'[d] = <<>>
             /\ AddsAfter(shard'[ShardOf(d)], writing'[d])
  <2>1. CASE d = c
    BY <1>2, <1>3, <1>6, <1>7, <2>1 DEF WritersOK, s
  <2>2. CASE d # c
    <3>1. ShardOf(d) # s /\ ShardOf(d) \in Shards
      BY <2>2, ShardsDiffer, ShardNumbers DEF s
    <3>2. writing'[d] = writing[d] /\ sequence'[ShardOf(d)] = sequence[ShardOf(d)]
      BY <1>3, <2>2, <3>1 DEF WritersOK
    <3> QED BY <1>3, <3>2 DEF WritersOK
  <2> QED BY <2>1, <2>2
<1>9. WritersOK'
  BY <1>4, <1>8 DEF WritersOK
<1>10. ASSUME NEW r \in Shards
       PROVE  /\ sequence[r] <= sequence'[r]
              /\ \A f \in Range(Fields) : shard[r][f] <= shard'[r][f]
  <2>1. sequence[r] \in Nat /\ \A f \in Range(Fields) : shard[r][f] \in Nat
    BY DEF WritersOK, Snap
  <2>2. sequence'[r] = sequence[r] \/ sequence'[r] = sequence[r] + 1
    BY <1>3 DEF WritersOK
  <2> QED BY <1>3, <2>1, <2>2
<1> QED BY <1>3, <1>9, <1>10 DEF Grows

\* A step of a decision that is recorded.
LEMMA WriteGrows ==
  ASSUME WritersOK, NEW c \in Cores, Write(c)
  PROVE  WritersOK' /\ Grows
<1> DEFINE s == ShardOf(c)
           w == writing[c]
           t == Tail(w)
           h == Head(w)
<1>1. /\ w # <<>> /\ writing' = [writing EXCEPT ![c] = t]
      /\ s \in Shards /\ shard[s] \in Snap /\ sequence[s] \in Nat
      /\ ~(sequence[s] % 2 = 0) /\ AddsAfter(shard[s], w) /\ Program(w)
  BY ShardNumbers DEF Write, WritersOK
<1>2. IF h = "end"
        THEN sequence' = [sequence EXCEPT ![s] = sequence[s] + 1] /\ shard' = shard
        ELSE shard' = [shard EXCEPT ![s][h] = shard[s][h] + 1] /\ sequence' = sequence
  BY DEF Write
<1>3. /\ Program(t) /\ h \in Steps
      /\ h = "end" <=> t = <<>>
      /\ \A f \in Range(Fields) : Due(w, f) = Due(t, f) + (IF f = h THEN 1 ELSE 0)
  BY <1>1, ProgramStep
<1>4. writing'[c] = t /\ DOMAIN writing' = Cores
      /\ \A d \in Cores : d # c => writing'[d] = writing[d]
  BY <1>1 DEF WritersOK
<1>5. "end" \notin Range(Fields)
  BY FieldFacts
<1>6. CASE h = "end"
  <2> HIDE DEF s, w, t, h
  <2>1. /\ sequence' \in [Shards -> Nat] /\ shard' = shard
        /\ sequence'[s] = sequence[s] + 1
        /\ \A r \in Shards : r # s => sequence'[r] = sequence[r]
    BY <1>1, <1>2, <1>6 DEF WritersOK
  <2>2. sequence'[s] % 2 = 0
    BY <1>1, <2>1, Parity
  <2>3. AddsAfter(shard[s], t)
    <3>1. \A f \in Range(Fields) : Due(w, f) = Due(t, f)
      <4>1. \A f \in Range(Fields) : f # h /\ Due(t, f) \in Nat
        BY <1>5, <1>6 DEF Due
      <4> QED BY <1>3, <4>1
    <3> QED BY <1>1, <3>1, FieldFacts DEF AddsAfter
  <2>4. ASSUME NEW d \in Cores
        PROVE  /\ Program(writing'[d])
               /\ sequence'[ShardOf(d)] % 2 = 0 <=> writing'[d] = <<>>
               /\ AddsAfter(shard'[ShardOf(d)], writing'[d])
    <3>1. CASE d = c
      BY <1>3, <1>4, <1>6, <2>1, <2>2, <2>3, <3>1 DEF s
    <3>2. CASE d # c
      <4>1. ShardOf(d) # s /\ ShardOf(d) \in Shards
        BY <3>2, ShardsDiffer, ShardNumbers DEF s
      <4> QED BY <1>4, <2>1, <3>2, <4>1 DEF WritersOK
    <3> QED BY <3>1, <3>2
  <2>5. WritersOK'
    BY <1>4, <2>1, <2>4 DEF WritersOK
  <2>6. ASSUME NEW r \in Shards
        PROVE  /\ sequence[r] <= sequence'[r]
               /\ \A f \in Range(Fields) : shard[r][f] <= shard'[r][f]
    <3>1. sequence[r] \in Nat /\ \A f \in Range(Fields) : shard[r][f] \in Nat
      BY DEF WritersOK, Snap
    <3> QED BY <1>1, <2>1, <3>1
  <2> QED BY <2>1, <2>5, <2>6 DEF Grows
<1>7. CASE h # "end"
  <2> HIDE DEF s, w, t, h
  <2>0. h \in Range(Fields)
    BY <1>3, <1>7 DEF Steps
  <2> DEFINE v == [shard[s] EXCEPT ![h] = shard[s][h] + 1]
  <2>1. /\ v \in Snap /\ v[h] = shard[s][h] + 1
        /\ \A f \in Range(Fields) : f # h => v[f] = shard[s][f]
        /\ \A f \in Range(Fields) : shard[s][f] \in Nat
    BY <1>1, <2>0 DEF Snap
  <2>2. /\ shard' = [shard EXCEPT ![s] = v] /\ sequence' = sequence
    BY <1>2, <1>7
  <2> HIDE DEF v
  <2>3. /\ shard' \in [Shards -> Snap] /\ shard'[s] = v
        /\ \A r \in Shards : r # s => shard'[r] = shard[r]
    BY <1>1, <2>1, <2>2 DEF WritersOK
  <2>4. AddsAfter(v, t)
    <3>1. \A f \in Range(Fields) : v[f] + Due(t, f) = shard[s][f] + Due(w, f)
      <4>1. ASSUME NEW f \in Range(Fields) PROVE v[f] + Due(t, f) = shard[s][f] + Due(w, f)
        <5>1. Due(t, f) \in Nat /\ shard[s][f] \in Nat
          BY <2>1 DEF Due
        <5>2. CASE f = h
          BY <1>3, <2>1, <5>1, <5>2
        <5>3. CASE f # h
          BY <1>3, <2>1, <5>1, <5>3
        <5> QED BY <5>2, <5>3
      <4> QED BY <4>1
    <3> QED BY <1>1, <2>1, <3>1, AddsMove
  <2>5. ASSUME NEW d \in Cores
        PROVE  /\ Program(writing'[d])
               /\ sequence'[ShardOf(d)] % 2 = 0 <=> writing'[d] = <<>>
               /\ AddsAfter(shard'[ShardOf(d)], writing'[d])
    <3>1. CASE d = c
      BY <1>1, <1>3, <1>4, <1>7, <2>2, <2>3, <2>4, <3>1 DEF s
    <3>2. CASE d # c
      <4>1. ShardOf(d) # s /\ ShardOf(d) \in Shards
        BY <3>2, ShardsDiffer, ShardNumbers DEF s
      <4> QED BY <1>4, <2>2, <2>3, <3>2, <4>1 DEF WritersOK
    <3> QED BY <3>1, <3>2
  <2>6. WritersOK'
    BY <1>4, <2>2, <2>3, <2>5 DEF WritersOK
  <2>7. ASSUME NEW r \in Shards
        PROVE  /\ sequence[r] <= sequence'[r]
               /\ \A f \in Range(Fields) : shard[r][f] <= shard'[r][f]
    <3>1. sequence[r] \in Nat /\ \A f \in Range(Fields) : shard[r][f] \in Nat
      BY DEF WritersOK, Snap
    <3>2. CASE r = s
      <4>1. \A f \in Range(Fields) : shard'[r][f] = shard[r][f] \/ shard'[r][f] = shard[r][f] + 1
        BY <2>1, <2>3, <3>2
      <4> QED BY <2>2, <3>1, <4>1
    <3>3. CASE r # s
      BY <2>2, <2>3, <3>1, <3>3
    <3> QED BY <3>2, <3>3
  <2>8. \A r \in Shards : sequence[r] % 2 = 0 => shard'[r] = shard[r]
    BY <1>1, <2>3
  <2> QED BY <2>6, <2>7, <2>8 DEF Grows
<1> QED BY <1>6, <1>7

-----------------------------------------------------------------------------
(* The reader *)

Lowest(T) == CHOOSE s \in T : \A t \in T : s <= t
Later(T) == T \ {Lowest(T)}

\* What is left to read are the highest shards.
Highest(T) == /\ T \in SUBSET Shards
              /\ \A s \in T : \A r \in Shards : s <= r => r \in T

\* The shard that is read is the lowest that is left.
LEMMA LowestFacts ==
  ASSUME NEW T \in SUBSET Shards, T # {}
  PROVE  /\ Lowest(T) \in T /\ \A t \in T : Lowest(T) <= t
         /\ Lowest(T) \in Shards /\ Lowest(T) \in Nat
         /\ Later(T) \in SUBSET Shards /\ Later(T) \subseteq T /\ Later(T) # T
<1>1. T \in SUBSET Nat
  BY ShardNumbers
<1>2. \E s \in T : \A t \in T : s <= t
  BY <1>1, LeastNatural
<1>3. Lowest(T) \in T /\ \A t \in T : Lowest(T) <= t
  BY <1>2 DEF Lowest
<1> QED BY <1>1, <1>3 DEF Later

\* What is left once it has been read.
LEMMA LaterHighest ==
  ASSUME NEW T, Highest(T), T # {}
  PROVE  Highest(Later(T))
<1>1. T \in SUBSET Shards /\ Lowest(T) \in Nat /\ \A t \in T : Lowest(T) <= t
  BY LowestFacts DEF Highest
<1>2. ASSUME NEW s \in Later(T), NEW r \in Shards, s <= r PROVE r \in Later(T)
  <2>1. s \in T /\ s # Lowest(T) /\ s \in Nat /\ r \in Nat /\ r \in T
    BY <1>1, <1>2, ShardNumbers DEF Later, Highest
  <2>2. r # Lowest(T)
    BY <1>1, <1>2, <2>1
  <2> QED BY <2>1, <2>2 DEF Later
<1> QED BY <1>1, <1>2, LowestFacts DEF Highest

\* There is one way to come to what is left.
LEMMA LaterOnce ==
  ASSUME NEW T, NEW U, Highest(T), Highest(U), T # {}, U # {}, Later(T) = Later(U)
  PROVE  T = U
<1> DEFINE a == Lowest(T)
           b == Lowest(U)
<1>1. /\ a \in T /\ b \in U /\ a \in Shards /\ b \in Shards /\ a \in Nat /\ b \in Nat
  BY LowestFacts DEF Highest
<1>2. T = Later(T) \cup {a} /\ U = Later(U) \cup {b} /\ a \notin Later(T) /\ b \notin Later(U)
  BY <1>1 DEF Later
<1> HIDE DEF a, b
<1>3. a <= b => b \in T
  BY <1>1 DEF Highest
<1>4. b <= a => a \in U
  BY <1>1 DEF Highest
<1>5. a <= b \/ b <= a
  BY <1>1
<1>6. a = b
  BY <1>2, <1>3, <1>4, <1>5
<1> QED BY <1>2, <1>6

\* u is in no counter ahead of v.
AtMost(u, v) == \A f \in Range(Fields) : u[f] <= v[f]
\* v is in no counter ahead of u and h together.
NoMore(v, u, h) == \A f \in Range(Fields) : v[f] <= u[f] + h[f]

\* S is what a reading had summed up before each shard it read down to those in
\* U, and no shard has fallen behind what was read of it.
Path(S, U) ==
  /\ S \in [SUBSET Shards -> Snap] /\ S[Shards] = Zeros
  /\ \A T \in SUBSET Shards : Highest(T) /\ U \subseteq T /\ U # T =>
       NoMore(S[Later(T)], S[T], shard[Lowest(T)])

Reading == exporter \in {"enter", "load", "check"}

\* The last snapshot that went into the stream.
LastShown == IF stream = <<>> THEN shown ELSE stream[Len(stream)]

\* The sum of the shards read so far, and of the reading before.
SumOK ==
  /\ exporter \in {"none", "look", "enter", "load", "check", "push", "ended"}
  /\ sum \in Snap /\ Adds(sum)
  /\ Reading => Highest(toRead) /\ toRead # {}
  /\ exporter = "push" => toRead = {}
  /\ Reading \/ exporter = "push" => \E S : Path(S, toRead) /\ S[toRead] = sum
  /\ \E S : /\ Path(S, {}) /\ AtMost(LastShown, S[{}])
            /\ Reading \/ exporter = "push" => AtMost(S[toRead], sum)

\* What has been loaded of a shard is what the shard holds, unless its sequence
\* has moved.
LocalOK ==
  exporter \in {"load", "check"} =>
    /\ local \in Seq(Nat) /\ mark \in Nat /\ mark % 2 = 0 /\ mark <= sequence[Lowest(toRead)]
    /\ exporter = "load" => Len(local) < 6
    /\ exporter = "check" => Len(local) = 6
    /\ mark = sequence[Lowest(toRead)] =>
         \A i \in DOMAIN local : local[i] = shard[Lowest(toRead)][Fields[i]]

\* The stream holds snapshots that add up, each no older than the one before.
StreamOK ==
  /\ stream \in Seq(Snap) /\ shown \in Snap /\ Adds(shown)
  /\ \A i \in 1 .. Len(stream) : Adds(stream[i])
  /\ \A i \in 1 .. Len(stream) : AtMost(IF i = 1 THEN shown ELSE stream[i - 1], stream[i])

ExportInv == WritersOK /\ SumOK /\ LocalOK /\ StreamOK

\* u is in no counter ahead of v, nor v of w.
LEMMA AtMostTransitive ==
  ASSUME NEW u \in Snap, NEW v \in Snap, NEW w \in Snap, AtMost(u, v), AtMost(v, w)
  PROVE  AtMost(u, w)
<1>1. ASSUME NEW f \in Range(Fields) PROVE u[f] <= w[f]
  <2>1. u[f] \in Nat /\ v[f] \in Nat /\ w[f] \in Nat /\ u[f] <= v[f] /\ v[f] <= w[f]
    BY DEF Snap, AtMost
  <2> QED BY <2>1
<1> QED BY <1>1 DEF AtMost

\* Shards that grow fall behind nothing.
LEMMA PathGrows ==
  ASSUME shard \in [Shards -> Snap], shard' \in [Shards -> Snap], Grows,
         NEW S, NEW U \in SUBSET Shards, Path(S, U)
  PROVE  Path(S, U)'
<1>1. ASSUME NEW T \in SUBSET Shards, Highest(T), U \subseteq T, U # T
      PROVE  NoMore(S[Later(T)], S[T], shard'[Lowest(T)])
  <2> DEFINE s == Lowest(T)
             u == S[Later(T)]
             v == S[T]
  <2>1. s \in Shards /\ Later(T) \in SUBSET Shards
    BY <1>1, LowestFacts
  <2>2. u \in Snap /\ v \in Snap /\ NoMore(u, v, shard[s])
    BY <1>1, <2>1 DEF Path
  <2> HIDE DEF s, u, v
  <2>3. ASSUME NEW f \in Range(Fields) PROVE u[f] <= v[f] + shard'[s][f]
    <3>1. /\ u[f] \in Nat /\ v[f] \in Nat /\ shard[s][f] \in Nat /\ shard'[s][f] \in Nat
      BY <2>1, <2>2 DEF Snap
    <3>2. u[f] <= v[f] + shard[s][f] /\ shard[s][f] <= shard'[s][f]
      BY <2>1, <2>2 DEF NoMore, Grows
    <3> QED BY <3>1, <3>2
  <2> QED BY <2>3 DEF NoMore, s, u, v
<1> QED BY <1>1 DEF Path, Highest, Later, Lowest

\* The writers leave what the reader has alone.
LEMMA GrowthKeepsReader ==
  ASSUME ExportInv, WritersOK', Grows,
         UNCHANGED <<exporter, readerVars, stream, shown>>
  PROVE  ExportInv'
<1>1. shard \in [Shards -> Snap] /\ shard' \in [Shards -> Snap]
  BY DEF ExportInv, WritersOK
<1>2. StreamOK'
  BY DEF ExportInv, StreamOK, AtMost, Adds
<1>3. SumOK'
  <2>1. toRead' = toRead /\ sum' = sum /\ exporter' = exporter /\ stream' = stream /\ shown' = shown
    BY DEF readerVars
  <2>2. PICK Q : Path(Q, {}) /\ AtMost(LastShown, Q[{}])
                 /\ (Reading \/ exporter = "push" => AtMost(Q[toRead], sum))
    BY DEF ExportInv, SumOK
  <2>3. Path(Q, {})'
    BY <1>1, <2>2, PathGrows
  <2>4. ASSUME Reading \/ exporter = "push"
        PROVE  \E S : Path(S, toRead)' /\ S[toRead] = sum
    <3>1. PICK S : Path(S, toRead) /\ S[toRead] = sum
      BY <2>4 DEF ExportInv, SumOK
    <3>2. toRead \in SUBSET Shards
      BY <2>4 DEF ExportInv, SumOK, Highest
    <3>3. Path(S, toRead)'
      <4> DEFINE U == toRead
      <4>1. Path(S, U) /\ U \in SUBSET Shards
        BY <3>1, <3>2
      <4> QED BY <1>1, <2>1, <3>1, <3>2, PathGrows DEF Path
    <3> QED BY <3>1, <3>3
  <2> QED BY <2>1, <2>2, <2>3, <2>4
        DEF ExportInv, SumOK, Reading, Highest, LastShown, Adds, AtMost
<1>4. LocalOK'
  <2> SUFFICES ASSUME exporter \in {"load", "check"} PROVE LocalOK'
    BY DEF LocalOK, readerVars
  <2> DEFINE s == Lowest(toRead)
  <2>1. toRead' = toRead /\ local' = local /\ mark' = mark /\ exporter' = exporter
    BY DEF readerVars
  <2>2. s \in Shards
    BY LowestFacts DEF ExportInv, SumOK, Reading, Highest
  <2>3. s' = s
    BY <2>1 DEF Lowest
  <2>4. /\ local \in Seq(Nat) /\ mark \in Nat /\ mark % 2 = 0 /\ mark <= sequence[s]
        /\ exporter = "load" => Len(local) < 6
        /\ exporter = "check" => Len(local) = 6
        /\ mark = sequence[s] => \A i \in DOMAIN local : local[i] = shard[s][Fields[i]]
    BY DEF ExportInv, LocalOK
  <2>5. sequence[s] \in Nat /\ sequence'[s] \in Nat /\ sequence[s] <= sequence'[s]
        /\ (sequence[s] % 2 = 0 /\ sequence'[s] = sequence[s] => shard'[s] = shard[s])
    BY <2>2 DEF ExportInv, WritersOK, Grows
  <2> HIDE DEF s
  <2>6. mark <= sequence'[s]
    <3>1. mark \in Nat /\ mark <= sequence[s]
      BY <2>4, Zenon
    <3>2. sequence[s] \in Nat /\ sequence'[s] \in Nat /\ sequence[s] <= sequence'[s]
      BY <2>5, Zenon
    <3> QED BY ONLY <3>1, <3>2, SMT
  <2>7. ASSUME mark = sequence'[s]
        PROVE  \A i \in DOMAIN local : local[i] = shard'[s][Fields[i]]
    <3>1. mark = sequence[s] /\ sequence'[s] = sequence[s]
      BY <2>4, <2>5, <2>7
    <3> QED BY <2>4, <2>5, <3>1
  <2> QED BY <2>1, <2>3, <2>4, <2>6, <2>7 DEF LocalOK, s
<1> QED BY <1>2, <1>3, <1>4 DEF ExportInv

\* A path that is independent of what changes.
LEMMA PathStays ==
  ASSUME shard' = shard, NEW S, NEW U, Path(S, U)
  PROVE  Path(S, U)'
BY DEF Path, Highest, Later, Lowest

\* Zeros is a snapshot, and less than any.
LEMMA ZerosFacts == Zeros \in Snap /\ Adds(Zeros) /\ AtMost(Zeros, Zeros)
<1>1. Zeros \in Snap /\ \A f \in Range(Fields) : Zeros[f] = 0
  BY DEF Zeros, Snap
<1> QED BY <1>1, FieldFacts DEF Adds, AtMost

\* A reading that begins, or the end of the loop.
LEMMA LookKeeps ==
  ASSUME ExportInv, Look
  PROVE  ExportInv'
<1>1. /\ exporter' \in {"enter", "ended"} /\ toRead' = Shards /\ sum' = Zeros
      /\ UNCHANGED <<writerVars, stream, shown>>
  BY DEF Look
<1>2. WritersOK' /\ StreamOK' /\ LocalOK'
  BY <1>1 DEF ExportInv, WritersOK, StreamOK, LocalOK, writerVars, AtMost, Adds
<1>3. SumOK'
  <2> DEFINE S == [T \in SUBSET Shards |-> Zeros]
  <2>1. Path(S, Shards)
    BY ZerosFacts DEF Path
  <2>2. S[Shards] = Zeros
    OBVIOUS
  <2> HIDE DEF S
  <2>3. Path(S, Shards)'
    BY <1>1, <2>1, PathStays DEF writerVars
  <2>4. PICK Q : Path(Q, {}) /\ AtMost(LastShown, Q[{}])
    BY DEF ExportInv, SumOK
  <2>5. Path(Q, {})' /\ AtMost(LastShown, Q[{}])'
    BY <1>1, <2>4, PathStays DEF writerVars, LastShown, AtMost
  <2>6. AtMost(Q[Shards], Zeros)
    BY <2>4, ZerosFacts DEF Path
  <2>7. Highest(Shards)'
    BY <1>1 DEF Highest
  <2>8. (Path(S, toRead) /\ S[toRead] = sum)'
    BY <1>1, <2>2, <2>3
  <2>9. (Path(Q, {}) /\ AtMost(LastShown, Q[{}]) /\ AtMost(Q[toRead], sum))'
    BY <1>1, <2>5, <2>6 DEF AtMost
  <2>10. (sum \in Snap /\ Adds(sum) /\ toRead # {} /\ Highest(toRead) /\ exporter # "push")'
    BY <1>1, <2>7, ZerosFacts, ShardNumbers DEF Adds
  <2>11. exporter' \in {"none", "look", "enter", "load", "check", "push", "ended"}
    BY <1>1
  <2> QED BY <2>8, <2>9, <2>10, <2>11 DEF SumOK
<1> QED BY <1>2, <1>3 DEF ExportInv

\* A step of the loop that leaves the sum and what is left to read alone.
LEMMA SumStays ==
  ASSUME ExportInv, UNCHANGED <<writerVars, toRead, sum, stream, shown>>,
         exporter' \in {"none", "look", "enter", "load", "check", "ended"},
         Reading' => Reading
  PROVE  WritersOK' /\ StreamOK' /\ SumOK'
<1>1. WritersOK' /\ StreamOK'
  BY DEF ExportInv, WritersOK, StreamOK, writerVars, AtMost, Adds
<1>2. PICK Q : /\ Path(Q, {}) /\ AtMost(LastShown, Q[{}])
               /\ Reading => AtMost(Q[toRead], sum)
  BY DEF ExportInv, SumOK
<1>3. Path(Q, {})' /\ AtMost(LastShown, Q[{}])' /\ (Reading' => AtMost(Q[toRead], sum)')
  BY <1>2, PathStays DEF writerVars, LastShown, AtMost
<1>4. ASSUME Reading' PROVE \E S : (Path(S, toRead) /\ S[toRead] = sum)'
  <2>1. PICK S : Path(S, toRead) /\ S[toRead] = sum
    BY <1>4 DEF ExportInv, SumOK
  <2> DEFINE U == toRead
  <2>2. Path(S, U)' /\ U' = U
    BY <2>1, PathStays DEF writerVars, Path, Highest, Later, Lowest
  <2> QED BY <2>1, <2>2
<1>5. SumOK'
  <2>1. (sum \in Snap /\ Adds(sum))' /\ exporter' # "push"
    BY DEF ExportInv, SumOK, Adds
  <2>2. Reading' => (Highest(toRead) /\ toRead # {})'
    BY DEF ExportInv, SumOK, Highest
  <2> QED BY <1>3, <1>4, <2>1, <2>2 DEF SumOK
<1> QED BY <1>1, <1>5

\* The sequence is read, when it is even.
LEMMA EnterKeeps ==
  ASSUME ExportInv, Enter
  PROVE  ExportInv'
<1> DEFINE s == Lowest(toRead)
<1>1. s = Current
  BY DEF Lowest, Current
<1>2. /\ exporter = "enter" /\ sequence[s] % 2 = 0 /\ mark' = sequence[s] /\ local' = <<>>
      /\ exporter' = "load" /\ UNCHANGED <<writerVars, toRead, sum, stream, shown>>
  BY <1>1 DEF Enter
<1>3. WritersOK' /\ StreamOK' /\ SumOK'
  BY <1>2, SumStays DEF Reading
<1>4. s' = s /\ s \in Shards
  BY <1>2, LowestFacts DEF ExportInv, SumOK, Reading, Highest, Lowest
<1>5. sequence[s] \in Nat /\ sequence'[s] = sequence[s]
  BY <1>2, <1>4 DEF ExportInv, WritersOK, writerVars
<1> HIDE DEF s
<1>6. LocalOK'
  <2>1. local' \in Seq(Nat) /\ Len(local') < 6 /\ DOMAIN local' = {}
    BY <1>2
  <2> QED BY <1>2, <1>4, <1>5, <2>1 DEF LocalOK, s
<1> QED BY <1>3, <1>6 DEF ExportInv

\* A counter is loaded.
LEMMA LoadKeeps ==
  ASSUME ExportInv, Load
  PROVE  ExportInv'
<1> DEFINE s == Lowest(toRead)
           n == Len(local)
           v == shard[s][Fields[n + 1]]
<1>1. s = Current
  BY DEF Lowest, Current
<1>2. /\ exporter = "load" /\ local' = Append(local, v) /\ mark' = mark
      /\ exporter' = IF Len(local') = Len(Fields) THEN "check" ELSE "load"
      /\ UNCHANGED <<writerVars, toRead, sum, stream, shown>>
  BY <1>1 DEF Load
<1>3. WritersOK' /\ StreamOK' /\ SumOK'
  BY <1>2, SumStays DEF Reading
<1>4. s' = s /\ s \in Shards
  BY <1>2, LowestFacts DEF ExportInv, SumOK, Reading, Highest, Lowest
<1>5. sequence' = sequence /\ shard' = shard
  BY <1>2 DEF writerVars
<1>6. /\ local \in Seq(Nat) /\ mark \in Nat /\ mark % 2 = 0 /\ mark <= sequence[s] /\ n < 6
      /\ mark = sequence[s] => \A i \in DOMAIN local : local[i] = shard[s][Fields[i]]
  BY <1>2 DEF ExportInv, LocalOK
<1>7. n \in Nat /\ n + 1 \in 1 .. 6 /\ DOMAIN local = 1 .. n
  BY <1>6
<1>8. v \in Nat
  BY <1>4, <1>7, FieldFacts DEF ExportInv, WritersOK, Snap
<1>9. /\ local' \in Seq(Nat) /\ Len(local') = n + 1 /\ local'[n + 1] = v
      /\ \A i \in 1 .. n : local'[i] = local[i]
  BY <1>2, <1>6, <1>8, AppendProperties
<1>10. DOMAIN local' = 1 .. n + 1 /\ \A i \in 1 .. n + 1 : i = n + 1 \/ i \in 1 .. n
  BY <1>7, <1>9
<1> HIDE DEF s, n
<1>11. (exporter' = "load" => n + 1 < 6) /\ (exporter' = "check" => n + 1 = 6)
  BY <1>2, <1>7, <1>9, FieldFacts
<1>12. mark = sequence[s] => \A i \in DOMAIN local' : local'[i] = shard[s][Fields[i]]
  BY <1>6, <1>7, <1>9, <1>10
<1> HIDE DEF v
<1>13. LocalOK'
  BY <1>2, <1>4, <1>5, <1>6, <1>9, <1>11, <1>12 DEF LocalOK, s
<1> QED BY <1>3, <1>13 DEF ExportInv

\* Counters that add up do so together, and so do sums.
LEMMA AddsTogether ==
  ASSUME NEW u \in Snap, NEW v \in Snap, NEW x \in Snap, Adds(u), Adds(v),
         \A f \in Range(Fields) : x[f] = u[f] + v[f]
  PROVE  Adds(x)
<1>1. /\ u["total"] \in Nat /\ u["valid"] \in Nat /\ u["fallback"] \in Nat
      /\ u["confidence"] \in Nat /\ u["consensus"] \in Nat /\ u["invalid"] \in Nat
  BY FieldFacts DEF Snap
<1>2. /\ v["total"] \in Nat /\ v["valid"] \in Nat /\ v["fallback"] \in Nat
      /\ v["confidence"] \in Nat /\ v["consensus"] \in Nat /\ v["invalid"] \in Nat
  BY FieldFacts DEF Snap
<1>3. /\ x["total"] = u["total"] + v["total"] /\ x["valid"] = u["valid"] + v["valid"]
      /\ x["fallback"] = u["fallback"] + v["fallback"]
      /\ x["confidence"] = u["confidence"] + v["confidence"]
      /\ x["consensus"] = u["consensus"] + v["consensus"]
      /\ x["invalid"] = u["invalid"] + v["invalid"]
  BY FieldFacts
<1>4. /\ u["total"] = u["valid"] + u["fallback"] + u["invalid"]
      /\ u["confidence"] + u["consensus"] <= u["fallback"]
      /\ v["total"] = v["valid"] + v["fallback"] + v["invalid"]
      /\ v["confidence"] + v["consensus"] <= v["fallback"]
  BY DEF Adds
<1>5. x["total"] = x["valid"] + x["fallback"] + x["invalid"]
  BY <1>1, <1>2, <1>3, <1>4, SMTT(30)
<1>6. x["confidence"] + x["consensus"] <= x["fallback"]
  BY <1>1, <1>2, <1>3, <1>4, SMTT(30)
<1> QED BY <1>5, <1>6 DEF Adds

\* A shard whose sequence has not moved is added to the sum.
LEMMA RecheckKeeps ==
  ASSUME ExportInv, Recheck
  PROVE  ExportInv'
<1> DEFINE s == Lowest(toRead)
<1>1. s = Current
  BY DEF Lowest, Current
<1>2. /\ exporter = "check" /\ Reading
      /\ UNCHANGED <<writerVars, mark, local, stream, shown>>
  BY DEF Recheck, Reading
<1>3. s \in Shards /\ Highest(toRead) /\ toRead # {} /\ toRead \in SUBSET Shards
  BY <1>2, LowestFacts DEF ExportInv, SumOK, Highest
<1>4. CASE sequence[s] # mark
  <2>1. exporter' = "enter" /\ toRead' = toRead /\ sum' = sum
    BY <1>1, <1>4 DEF Recheck
  <2>2. WritersOK' /\ StreamOK' /\ SumOK'
    BY <1>2, <2>1, SumStays DEF Reading
  <2>3. LocalOK'
    BY <2>1 DEF LocalOK
  <2> QED BY <2>2, <2>3 DEF ExportInv
<1>5. CASE sequence[s] = mark
  <2> DEFINE h == shard[s]
             U == Later(toRead)
  <2>1. /\ sum' = [f \in Range(Fields) |-> sum[f] + local[CHOOSE i \in DOMAIN Fields : Fields[i] = f]]
        /\ toRead' = U
        /\ exporter' = IF toRead' = {} THEN "push" ELSE "enter"
    BY <1>1, <1>5 DEF Recheck, Later, Lowest, Current
  <2>2. /\ local \in Seq(Nat) /\ Len(local) = 6 /\ mark % 2 = 0
        /\ \A i \in DOMAIN local : local[i] = h[Fields[i]]
    BY <1>2, <1>5 DEF ExportInv, LocalOK
  <2>3. /\ sum \in Snap /\ Adds(sum) /\ h \in Snap
    BY <1>3 DEF ExportInv, SumOK, WritersOK
  <2>4. Adds(h)
    <3>1. PICK c \in Cores : s = ShardOf(c)
      BY <1>3 DEF Shards
    <3>2. writing[c] = <<>> /\ AddsAfter(h, writing[c])
      BY <1>5, <2>2, <3>1 DEF ExportInv, WritersOK
    <3> QED BY <2>3, <3>2, NothingDue
  <2> HIDE DEF h
  <2>5. ASSUME NEW f \in Range(Fields)
        PROVE  sum'[f] = sum[f] + h[f] /\ sum'[f] \in Nat
    <3> DEFINE i == CHOOSE j \in DOMAIN Fields : Fields[j] = f
    <3>1. i \in DOMAIN Fields /\ Fields[i] = f
      BY FieldFacts
    <3>2. i \in DOMAIN local
      BY <2>2, <3>1, FieldFacts
    <3>3. sum'[f] = sum[f] + local[i]
      BY <2>1
    <3> HIDE DEF i
    <3>4. local[i] = h[f]
      BY <2>2, <3>1, <3>2
    <3>5. sum[f] \in Nat /\ h[f] \in Nat
      BY <2>3 DEF Snap
    <3> QED BY <3>3, <3>4, <3>5
  <2>6. sum' \in Snap
    BY <2>1, <2>5 DEF Snap
  <2>7. Adds(sum')
    BY <2>3, <2>4, <2>5, <2>6, AddsTogether
  <2>8. Highest(U) /\ U \in SUBSET Shards /\ U \subseteq toRead /\ U # toRead
    BY <1>3, LaterHighest, LowestFacts
  <2>9. \E S : Path(S, U) /\ S[U] = sum'
    <3>1. PICK S : Path(S, toRead) /\ S[toRead] = sum
      BY <1>2 DEF ExportInv, SumOK
    <3> DEFINE R == [S EXCEPT ![U] = sum']
    <3>2. R \in [SUBSET Shards -> Snap] /\ R[U] = sum'
      BY <2>6, <2>8, <3>1 DEF Path
    <3>3. \A T \in SUBSET Shards : T # U => R[T] = S[T]
      BY <3>1 DEF Path
    <3> HIDE DEF R
    <3>4. Shards # U
      BY <1>3, <2>8
    <3>5. R[Shards] = Zeros
      BY <3>1, <3>3, <3>4 DEF Path
    <3>6. ASSUME NEW T \in SUBSET Shards, Highest(T), U \subseteq T, U # T
          PROVE  NoMore(R[Later(T)], R[T], shard[Lowest(T)])
      <4>1. R[T] = S[T]
        BY <3>3, <3>6
      <4>2. CASE T = toRead
        <5>1. Later(T) = U /\ R[T] = sum /\ shard[Lowest(T)] = h
          BY <3>1, <4>1, <4>2 DEF h
        <5>2. \A f \in Range(Fields) : sum'[f] <= sum[f] + h[f]
          BY <2>5
        <5> QED BY <3>2, <5>1, <5>2 DEF NoMore
      <4>3. CASE T # toRead
        <5>1. T # {}
          BY <3>6
        <5>2. Later(T) # U
          BY <1>3, <3>6, <4>3, <5>1, LaterOnce
        <5>3. toRead \subseteq T
          <6> SUFFICES ASSUME NEW r \in toRead PROVE r \in T
            OBVIOUS
          <6>1. r \in U \/ r = s
            BY DEF Later
          <6>2. CASE r \in U
            BY <3>6, <6>2
          <6>3. CASE r = s
            <7>1. \E t \in T : t <= s
              <8>1. PICK t \in T : t \notin U
                BY <3>6
              <8>2. CASE t \in toRead
                BY <8>1, <8>2, LowestFacts, <1>3, ShardNumbers DEF Later
              <8>3. CASE t \notin toRead
                <9>1. t \in Nat /\ s \in Nat /\ t \in Shards
                  BY <1>3, <3>6, <8>1, ShardNumbers
                <9>2. ~(s <= t)
                  BY <1>3, <8>3, <9>1, LowestFacts DEF Highest
                <9> QED BY <8>1, <9>1, <9>2
              <8> QED BY <8>2, <8>3
            <7> QED BY <1>3, <3>6, <6>3, <7>1 DEF Highest
          <6> QED BY <6>1, <6>2, <6>3
        <5>4. NoMore(S[Later(T)], S[T], shard[Lowest(T)])
          BY <3>1, <3>6, <4>3, <5>3 DEF Path
        <5>5. R[Later(T)] = S[Later(T)]
          BY <3>3, <5>1, <5>2, LowestFacts
        <5> QED BY <4>1, <5>4, <5>5
      <4> QED BY <4>2, <4>3
    <3>7. Path(R, U)
      BY <3>2, <3>5, <3>6 DEF Path
    <3> QED BY <3>2, <3>7
  <2>10. \E S : /\ Path(S, {}) /\ AtMost(LastShown, S[{}]) /\ AtMost(S[U], sum')
    <3>1. PICK Q : /\ Path(Q, {}) /\ AtMost(LastShown, Q[{}]) /\ AtMost(Q[toRead], sum)
      BY <1>2 DEF ExportInv, SumOK
    <3>2. NoMore(Q[U], Q[toRead], h)
      BY <1>3, <3>1 DEF Path, h
    <3>3. Q[U] \in Snap /\ Q[toRead] \in Snap
      BY <1>3, <2>8, <3>1 DEF Path
    <3>4. ASSUME NEW f \in Range(Fields) PROVE Q[U][f] <= sum'[f]
      <4>1. Q[U][f] \in Nat /\ Q[toRead][f] \in Nat /\ h[f] \in Nat /\ sum[f] \in Nat
        BY <2>3, <3>3 DEF Snap
      <4>2. Q[U][f] <= Q[toRead][f] + h[f] /\ Q[toRead][f] <= sum[f] /\ sum'[f] = sum[f] + h[f]
        BY <2>5, <3>1, <3>2 DEF NoMore, AtMost
      <4> HIDE DEF U
      <4> QED BY <4>1, <4>2
    <3> QED BY <3>1, <3>4 DEF AtMost
  <2>11. toRead' = U
    BY <2>1
  <2> HIDE DEF U
  <2>12. SumOK'
    <3>1. \E S : (Path(S, toRead) /\ S[toRead] = sum)'
      BY <1>2, <2>9, <2>11 DEF writerVars, Path, Highest, Later, Lowest
    <3>2. \E S : (Path(S, {}) /\ AtMost(LastShown, S[{}]) /\ AtMost(S[toRead], sum))'
      BY <1>2, <2>10, <2>11 DEF writerVars, Path, Highest, Later, Lowest, LastShown, AtMost
    <3>3. (sum \in Snap /\ Adds(sum))'
      BY <2>6, <2>7 DEF Adds
    <3>4. (Reading => Highest(toRead) /\ toRead # {})' /\ (exporter = "push" => toRead = {})'
      BY <2>1, <2>8, <2>11 DEF Reading, Highest
    <3>5. exporter' \in {"none", "look", "enter", "load", "check", "push", "ended"}
      BY <2>1
    <3> QED BY <3>1, <3>2, <3>3, <3>4, <3>5 DEF SumOK
  <2>13. LocalOK'
    BY <2>1 DEF LocalOK
  <2>14. WritersOK' /\ StreamOK'
    BY <1>2 DEF ExportInv, WritersOK, StreamOK, writerVars, AtMost, Adds
  <2> QED BY <2>12, <2>13, <2>14 DEF ExportInv
<1> QED BY <1>4, <1>5

\* A snapshot goes into the stream, or is dropped.
LEMMA ExportKeeps ==
  ASSUME ExportInv, Export
  PROVE  ExportInv'
<1> DEFINE n == Len(stream)
<1>1. /\ exporter = "push" /\ exporter' = "look"
      /\ stream' = IF n < StreamBound THEN Append(stream, sum) ELSE stream
      /\ UNCHANGED <<writerVars, toRead, mark, local, sum, shown>>
  BY DEF Export, readerVars
<1>2. toRead = {} /\ sum \in Snap /\ Adds(sum)
  BY <1>1 DEF ExportInv, SumOK
<1>3. PICK S : Path(S, toRead) /\ S[toRead] = sum
  BY <1>1 DEF ExportInv, SumOK
<1>4. PICK Q : Path(Q, {}) /\ AtMost(LastShown, Q[{}]) /\ AtMost(Q[toRead], sum)
  BY <1>1 DEF ExportInv, SumOK
<1>5. WritersOK' /\ LocalOK'
  BY <1>1 DEF ExportInv, WritersOK, LocalOK, writerVars
<1>6. /\ stream \in Seq(Snap) /\ shown \in Snap /\ Adds(shown)
      /\ \A i \in 1 .. n : Adds(stream[i])
      /\ \A i \in 1 .. n : AtMost(IF i = 1 THEN shown ELSE stream[i - 1], stream[i])
      /\ n \in Nat
  BY DEF ExportInv, StreamOK
<1>7. LastShown \in Snap
  BY <1>6, EmptySeq DEF LastShown
<1>8. AtMost(LastShown, sum)
  <2>1. Q[{}] \in Snap
    BY <1>4 DEF Path
  <2> QED BY <1>2, <1>4, <1>7, <2>1, AtMostTransitive
<1>9. (sum \in Snap /\ Adds(sum))' /\ ~Reading' /\ exporter' = "look"
  BY <1>1, <1>2 DEF Reading, Adds
<1>10. CASE stream' = stream
  <2>1. StreamOK'
    BY <1>1, <1>6, <1>10 DEF StreamOK, AtMost, Adds
  <2>2. \E P : (Path(P, {}) /\ AtMost(LastShown, P[{}]))'
    BY <1>1, <1>4, <1>10 DEF writerVars, Path, Highest, Later, Lowest, LastShown, AtMost
  <2> QED BY <1>5, <1>9, <2>1, <2>2 DEF ExportInv, SumOK
<1>11. CASE stream' = Append(stream, sum)
  <2>1. /\ stream' \in Seq(Snap) /\ Len(stream') = n + 1 /\ stream'[n + 1] = sum
        /\ \A i \in 1 .. n : stream'[i] = stream[i]
    BY <1>2, <1>6, <1>11, AppendProperties
  <2> HIDE DEF n
  <2>2. LastShown' = sum
    <3>1. stream' # <<>>
      BY <1>6, <2>1, EmptySeq
    <3> QED BY <2>1, <3>1 DEF LastShown
  <2>3. ASSUME NEW i \in 1 .. n + 1
        PROVE  /\ Adds(stream'[i])
               /\ AtMost(IF i = 1 THEN shown ELSE stream'[i - 1], stream'[i])
    <3>1. CASE i \in 1 .. n
      <4>1. i # 1 => i - 1 \in 1 .. n
        BY <1>6, <3>1
      <4> QED BY <1>6, <2>1, <3>1, <4>1
    <3>2. CASE i = n + 1
      <4>1. (IF i = 1 THEN shown ELSE stream'[i - 1]) = LastShown
        <5>1. CASE n = 0
          BY <1>6, <3>2, <5>1, EmptySeq DEF LastShown, n
        <5>2. CASE n # 0
          <6>1. stream # <<>> /\ i # 1 /\ i - 1 = n /\ n \in 1 .. n
            BY <1>6, <3>2, <5>2, EmptySeq DEF n
          <6> QED BY <2>1, <6>1 DEF LastShown, n
        <5> QED BY <5>1, <5>2
      <4> QED BY <1>2, <1>8, <2>1, <3>2, <4>1
    <3> QED BY <1>6, <3>1, <3>2
  <2>4. shown' = shown
    BY <1>1
  <2>5. StreamOK'
    BY <1>6, <2>1, <2>3, <2>4 DEF StreamOK, AtMost, Adds
  <2>6. AtMost(sum, sum)
    BY <1>2 DEF AtMost, Snap
  <2>7. \E P : (Path(P, {}) /\ AtMost(LastShown, P[{}]))'
    BY <1>1, <1>2, <1>3, <2>2, <2>6 DEF writerVars, Path, Highest, Later, Lowest, AtMost
  <2> QED BY <1>5, <1>9, <2>5, <2>7 DEF ExportInv, SumOK
<1> QED BY <1>1, <1>10, <1>11

\* The consumer pops the oldest snapshot.
LEMMA ConsumeKeeps ==
  ASSUME ExportInv, Consume
  PROVE  ExportInv'
<1> DEFINE n == Len(stream)
<1>1. /\ stream # <<>> /\ shown' = Head(stream) /\ stream' = Tail(stream)
      /\ UNCHANGED <<writerVars, exporter, readerVars>>
  BY DEF Consume
<1>2. /\ stream \in Seq(Snap) /\ shown \in Snap
      /\ \A i \in 1 .. n : Adds(stream[i])
      /\ \A i \in 1 .. n : AtMost(IF i = 1 THEN shown ELSE stream[i - 1], stream[i])
  BY DEF ExportInv, StreamOK
<1>3. /\ n \in Nat /\ n >= 1 /\ shown' = stream[1] /\ shown' \in Snap
      /\ stream' \in Seq(Snap) /\ Len(stream') = n - 1
      /\ \A i \in 1 .. n - 1 : stream'[i] = stream[i + 1]
  BY <1>1, <1>2, HeadTailProperties
<1> HIDE DEF n
<1>4. LastShown' = LastShown
  <2>1. LastShown = stream[n]
    BY <1>1 DEF LastShown, n
  <2>2. CASE n = 1
    <3>1. stream' = <<>>
      BY <1>3, <2>2, EmptySeq
    <3> QED BY <1>3, <2>1, <2>2, <3>1 DEF LastShown
  <2>3. CASE n # 1
    <3>1. stream' # <<>> /\ n - 1 \in 1 .. n - 1 /\ n - 1 + 1 = n
      BY <1>3, <2>3, EmptySeq
    <3> QED BY <1>3, <2>1, <3>1 DEF LastShown
  <2> QED BY <2>2, <2>3
<1>5. ASSUME NEW i \in 1 .. n - 1
      PROVE  /\ Adds(stream'[i])
             /\ AtMost(IF i = 1 THEN shown' ELSE stream'[i - 1], stream'[i])
  <2>1. i + 1 \in 1 .. n /\ i + 1 # 1 /\ i + 1 - 1 = i /\ stream'[i] = stream[i + 1]
    BY <1>3
  <2>2. AtMost(stream[i], stream[i + 1]) /\ Adds(stream[i + 1])
    BY <1>2, <2>1
  <2>3. (IF i = 1 THEN shown' ELSE stream'[i - 1]) = stream[i]
    <3>1. i # 1 => i - 1 \in 1 .. n - 1 /\ i - 1 + 1 = i
      BY <1>3
    <3> QED BY <1>3, <3>1
  <2> QED BY <2>1, <2>2, <2>3
<1>6. StreamOK'
  <2>1. 1 \in 1 .. n
    BY <1>3
  <2>2. Adds(shown')
    BY <1>2, <1>3, <2>1
  <2> QED BY <1>3, <1>5, <2>2 DEF StreamOK, AtMost, Adds
<1>7. WritersOK' /\ LocalOK'
  BY <1>1 DEF ExportInv, WritersOK, LocalOK, writerVars, readerVars, Lowest
<1>8. SumOK'
  <2>1. exporter' = exporter /\ toRead' = toRead /\ sum' = sum /\ shard' = shard
    BY <1>1 DEF writerVars, readerVars
  <2>2. PICK Q : Path(Q, {}) /\ AtMost(LastShown, Q[{}])
                 /\ (Reading \/ exporter = "push" => AtMost(Q[toRead], sum))
    BY DEF ExportInv, SumOK
  <2>3. (Path(Q, {}) /\ AtMost(LastShown, Q[{}])
           /\ (Reading \/ exporter = "push" => AtMost(Q[toRead], sum)))'
    BY <1>4, <2>1, <2>2 DEF Path, Highest, Later, Lowest, AtMost, Reading
  <2>4. Reading \/ exporter = "push" => \E S : (Path(S, toRead) /\ S[toRead] = sum)'
    BY <2>1 DEF ExportInv, SumOK, Path, Highest, Later, Lowest
  <2> QED BY <2>1, <2>3, <2>4 DEF ExportInv, SumOK, Reading, Highest, Adds
<1> QED BY <1>6, <1>7, <1>8 DEF ExportInv

\* Every step of the plane.
LEMMA ExportStepKeeps ==
  ASSUME ExportInv, [ExportNext]_exportVars
  PROVE  ExportInv'
<1>1. ASSUME NEW c \in Cores, Record(c) PROVE ExportInv'
  <2>1. WritersOK' /\ Grows
    BY <1>1, RecordGrows DEF ExportInv
  <2> QED BY <1>1, <2>1, GrowthKeepsReader DEF Record
<1>2. ASSUME NEW c \in Cores, Write(c) PROVE ExportInv'
  <2>1. WritersOK' /\ Grows
    BY <1>2, WriteGrows DEF ExportInv
  <2> QED BY <1>2, <2>1, GrowthKeepsReader DEF Write
<1>3. CASE StartExport \/ StopExport
  <2>1. /\ UNCHANGED <<writerVars, toRead, sum, stream, shown>>
        /\ \/ exporter' = "look" \/ exporter' = "none"
           \/ UNCHANGED exporter
        /\ local' = local /\ mark' = mark
    BY <1>3 DEF StartExport, StopExport, readerVars
  <2>2. CASE exporter' \in {"look", "none"}
    <3>1. ~Reading'
      BY <2>2 DEF Reading
    <3>2. WritersOK' /\ StreamOK' /\ SumOK'
      BY <2>1, <2>2, <3>1, SumStays
    <3>3. LocalOK'
      BY <2>2 DEF LocalOK
    <3> QED BY <3>2, <3>3 DEF ExportInv
  <2>3. CASE exporter' = exporter
    <3>1. Grows
      BY <2>1 DEF ExportInv, WritersOK, Grows, writerVars, Snap
    <3>2. WritersOK'
      BY <2>1 DEF ExportInv, WritersOK, writerVars
    <3> QED BY <2>1, <2>3, <3>1, <3>2, GrowthKeepsReader DEF readerVars
  <2> QED BY <2>1, <2>2, <2>3
<1>4. CASE UNCHANGED exportVars
  <2>1. UNCHANGED <<writerVars, exporter, readerVars, stream, shown>>
    BY <1>4 DEF exportVars, writerVars, readerVars
  <2>2. Grows
    BY <2>1 DEF ExportInv, WritersOK, Grows, writerVars, Snap
  <2>3. WritersOK'
    BY <2>1 DEF ExportInv, WritersOK, writerVars
  <2> QED BY <2>1, <2>2, <2>3, GrowthKeepsReader
<1> QED BY <1>1, <1>2, <1>3, <1>4, LookKeeps, EnterKeeps, LoadKeeps, RecheckKeeps,
           ExportKeeps, ConsumeKeeps DEF ExportNext, ExportStep

\* What the stream holds is what the property says of it.
LEMMA StreamAddsUp ==
  ASSUME StreamOK
  PROVE  SnapshotsAddUp
<1> DEFINE one == <<shown>>
           seen == one \o stream
           n == Len(stream)
<1>1. one \in Seq(Snap) /\ Len(one) = 1 /\ one[1] = shown /\ stream \in Seq(Snap) /\ n \in Nat
  BY DEF StreamOK
<1> HIDE DEF one
<1>2. /\ seen \in Seq(Snap) /\ Len(seen) = 1 + n
      /\ \A i \in 1 .. 1 + n : seen[i] = IF i <= 1 THEN one[i] ELSE stream[i - 1]
  <2>1. seen \in Seq(Snap)
    BY <1>1, ConcatProperties
  <2>2. Len(seen) = Len(one) + n
    BY <1>1, ConcatProperties
  <2>3. \A i \in 1 .. Len(one) + n : seen[i] = IF i <= Len(one) THEN one[i] ELSE stream[i - Len(one)]
    BY <1>1, ConcatProperties
  <2> HIDE DEF seen, n
  <2> QED BY <1>1, <2>1, <2>2, <2>3
<1>3. DOMAIN seen = 1 .. 1 + n
  BY <1>1, <1>2
<1> HIDE DEF seen, n
<1>4. ASSUME NEW i \in 1 .. 1 + n
      PROVE  Adds(seen[i]) /\ (i > 1 => AtMost(seen[i - 1], seen[i]))
  <2>1. CASE i = 1
    <3>1. seen[1] = shown
      BY <1>1, <1>2, <2>1
    <3>2. Adds(shown)
      BY DEF StreamOK
    <3> QED BY <2>1, <3>1, <3>2
  <2>2. CASE i # 1
    <3> DEFINE j == i - 1
    <3>1. j \in 1 .. n /\ j \in 1 .. 1 + n /\ seen[i] = stream[j]
      BY <1>1, <1>2, <2>2
    <3>2. Adds(stream[j]) /\ AtMost(IF j = 1 THEN shown ELSE stream[j - 1], stream[j])
      BY <3>1 DEF StreamOK, n
    <3>3. seen[j] = IF j = 1 THEN shown ELSE stream[j - 1]
      BY <1>1, <1>2, <3>1
    <3> QED BY <3>1, <3>2, <3>3
  <2> QED BY <2>1, <2>2
<1>5. ASSUME NEW i \in 1 .. 1 + n
      PROVE  LET s == seen[i]
             IN  /\ s.total = s.valid + s.fallback + s.invalid
                 /\ s.confidence + s.consensus <= s.fallback
                 /\ i > 1 => \A f \in Range(Fields) : seen[i - 1][f] <= s[f]
  BY <1>4 DEF Adds, AtMost
<1> QED BY <1>3, <1>5 DEF SnapshotsAddUp, seen, one

\* However the writers of the shards and the reader interleave, and however
\* often the plane is started and stopped: each snapshot the stream hands out
\* adds up, and none is older than the one before it.
THEOREM SnapshotsAreSound == ExportSpec => []SnapshotsAddUp
<1>1. ExportInit => ExportInv
  <2> SUFFICES ASSUME ExportInit PROVE ExportInv
    OBVIOUS
  <2>1. WritersOK
    <3>1. /\ sequence \in [Shards -> Nat] /\ shard \in [Shards -> Snap] /\ DOMAIN writing = Cores
      BY ZerosFacts DEF ExportInit
    <3>2. ASSUME NEW c \in Cores
          PROVE  writing[c] = <<>> /\ sequence[ShardOf(c)] = 0 /\ shard[ShardOf(c)] = Zeros
      BY ShardNumbers DEF ExportInit
    <3>3. AddsAfter(Zeros, <<>>)
      BY ZerosFacts, NothingDue
    <3> QED BY <3>1, <3>2, <3>3, NothingDue DEF WritersOK
  <2>2. StreamOK
    <3>1. stream = <<>> /\ shown = Zeros
      BY DEF ExportInit
    <3> QED BY <3>1, ZerosFacts, EmptySeq DEF StreamOK
  <2>3. SumOK
    <3> DEFINE S == [T \in SUBSET Shards |-> Zeros]
    <3>1. Path(S, {})
      <4>1. ASSUME NEW T \in SUBSET Shards, T # {}
            PROVE  NoMore(Zeros, Zeros, shard[Lowest(T)])
        <5>1. shard[Lowest(T)] \in Snap
          BY <2>1, <4>1, LowestFacts DEF WritersOK
        <5>2. \A f \in Range(Fields) : Zeros[f] = 0 /\ shard[Lowest(T)][f] \in Nat
          BY <5>1 DEF Zeros, Snap
        <5> QED BY <5>2 DEF NoMore
      <4>2. ASSUME NEW T \in SUBSET Shards
            PROVE  S[T] = Zeros /\ S[Later(T)] = Zeros
        BY DEF Later
      <4> QED BY <4>1, <4>2, ZerosFacts DEF Path
    <3>2. AtMost(LastShown, S[{}])
      BY ZerosFacts DEF ExportInit, LastShown
    <3> QED BY <3>1, <3>2, ZerosFacts DEF SumOK, ExportInit, Reading
  <2> QED BY <2>1, <2>2, <2>3 DEF ExportInv, LocalOK, ExportInit
<1>2. ExportInv /\ [ExportNext]_exportVars => ExportInv'
  BY ExportStepKeeps
<1>3. ExportInv => SnapshotsAddUp
  BY StreamAddsUp DEF ExportInv
<1> QED BY <1>1, <1>2, <1>3, PTL DEF ExportSpec
=============================================================================
