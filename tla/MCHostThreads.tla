--------------------------- MODULE MCHostThreads ---------------------------
(* The servers that host programs run in threads of their own. They share no *)
(* state: a behaviour belongs to the REST server or to one that streams.     *)
EXTENDS RestServer, StreamServers

VARIABLE world

HostInit == /\ world \in {"rest", "stream"}
            /\ RestInit /\ StreamInit
            /\ world = "rest" => kind = "spire"

HostNext ==
    /\ UNCHANGED world
    /\ \/ world = "rest" /\ RestNext /\ UNCHANGED streamVars
       \/ world = "stream" /\ StreamNext /\ UNCHANGED restVars

HostSpec == HostInit /\ [][HostNext]_<<world, restVars, streamVars>>
            /\ RestFairness /\ StreamFairness
=============================================================================
