--------------------------- MODULE PluginRegistry ---------------------------
(***************************************************************************)
(* The registry of plugin factories (ailee_plugins/PluginRegistry.hpp):     *)
(* four maps from names to factories behind one mutex, which is held while  *)
(* a factory runs. The four categories have the same three operations, so   *)
(* a plugin is a pair of category and name.                                 *)
(***************************************************************************)
EXTENDS Naturals

CONSTANTS Users,       \* threads that use the registry
          Plugins,     \* categories and names
          Factories,   \* what may be registered
          Reentrant,   \* the factories that use the registry themselves
          Unlocked, Unset

ASSUME RegistryAssumption == Unlocked \notin Users /\ Unset \notin Factories
                             /\ Reentrant \subseteq Factories

VARIABLES
    factories,   \* market_data_, execution_, analytics_, trading_alerts_
    mutex,       \* the holder of mutex_
    calling      \* what each user does: a record, or how its last call ended

registryVars == <<factories, mutex, calling>>

Returned(how) == [what |-> "idle", how |-> how]

RegistryInit ==
    /\ factories = [p \in Plugins |-> Unset]
    /\ mutex = Unlocked
    /\ calling = [u \in Users |-> Returned(Unset)]

\* register*, create* and has*.
Request(u) ==
    /\ calling[u].what = "idle"
    /\ \E p \in Plugins :
           \/ \E f \in Factories :
                calling' = [calling EXCEPT ![u] = [what |-> "register", plugin |-> p, factory |-> f]]
           \/ \E what \in {"create", "has"} :
                calling' = [calling EXCEPT ![u] = [what |-> what, plugin |-> p]]
    /\ UNCHANGED <<factories, mutex>>

LockRegistry(u) ==
    /\ calling[u].what # "idle" /\ mutex = Unlocked
    /\ mutex' = u
    /\ UNCHANGED <<factories, calling>>

\* The call ends with its lock.
Answer(u, how) ==
    /\ calling' = [calling EXCEPT ![u] = Returned(how)]
    /\ mutex' = Unlocked

\* Mutant: the last factory of a name wins.
RegisterAnyway(u) ==
    /\ mutex = u /\ calling[u].what = "register"
    /\ factories' = [factories EXCEPT ![calling[u].plugin] = calling[u].factory]
    /\ Answer(u, "registered")

\* A name is registered once.
Register(u) ==
    /\ mutex = u /\ calling[u].what = "register"
    /\ IF factories[calling[u].plugin] # Unset
         THEN Answer(u, "invalid_argument") /\ UNCHANGED factories
         ELSE /\ factories' = [factories EXCEPT ![calling[u].plugin] = calling[u].factory]
              /\ Answer(u, "registered")

Has(u) ==
    /\ mutex = u /\ calling[u].what = "has"
    /\ Answer(u, IF factories[calling[u].plugin] = Unset THEN "absent" ELSE "present")
    /\ UNCHANGED factories

\* A factory runs under the mutex, may throw, and never returns if it asks the
\* registry for something.
Construct(u) ==
    /\ mutex = u /\ calling[u].what = "create"
    /\ factories[calling[u].plugin] \notin Reentrant
    /\ \E how \in IF factories[calling[u].plugin] = Unset THEN {"out_of_range"}
                  ELSE {factories[calling[u].plugin], "exception"} : Answer(u, how)
    /\ UNCHANGED factories

RegistryStep(u) == LockRegistry(u) \/ Register(u) \/ Has(u) \/ Construct(u)

RegistryNext == \E u \in Users : Request(u) \/ RegistryStep(u)

RegistrySpec == RegistryInit /\ [][RegistryNext]_registryVars

-----------------------------------------------------------------------------
\* Two registrations of one name that race leave the winner's factory for good,
\* and the loser is told (PluginRegistry.hpp:81).
FirstRegistrationStays ==
    [][\A p \in Plugins : factories[p] # Unset => factories'[p] = factories[p]]_registryVars
=============================================================================
