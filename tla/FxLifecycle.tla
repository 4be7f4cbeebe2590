----------------------------- MODULE FxLifecycle -------------------------------
(***************************************************************************)
(* The connections of an Fx application: makeConnection of fx.go and the   *)
(* hook it registers, under the lifecycle of Fx.                           *)
(*                                                                         *)
(* Fx builds a component after those it depends on, runs the start hooks   *)
(* in the order they were registered in and the stop hooks in the reverse  *)
(* order, and when a start hook fails it stops only what has started.      *)
(***************************************************************************)
EXTENDS Integers, Sequences, FiniteSets, SequencesExt

CONSTANTS
    Conn,       \* the connections: Module and each ModuleFor
    Consumer,   \* the components that use connections while they are started
    Uses        \* the connections each of them depends on

ASSUME UsesAssumption ==
    Conn \cap Consumer = {} /\ Uses \in [Consumer -> SUBSET Conn]

VARIABLES
    app,        \* the phase of the application
    hooks,      \* the components whose hooks are registered, in order
    running,    \* how many of them have started
    pool,       \* "none", "open" or "closed", for each connection
    pinged,     \* the connections whose database has answered
    dead        \* the connections whose database has not

vars == <<app, hooks, running, pool, pinged, dead>>

Init ==
    /\ app = "building"
    /\ hooks = <<>>
    /\ running = 0
    /\ pool = [c \in Conn |-> "none"]
    /\ pinged = {}
    /\ dead = {}

Built == {hooks[i] : i \in DOMAIN hooks}

Started == {hooks[i] : i \in 1 .. running}

-------------------------------------------------------------------------------
(* Building.                                                               *)

\* Variation: the pool is left to whoever depends on it.
RegisteredNothing(c) == hooks

\* lifecycle.Append: the hook pings on start and closes on stop.
Registered(c) == Append(hooks, c)

\* makeConnection; pgxpool does not dial until first use.
MakeConnection(c) ==
    /\ app = "building"
    /\ pool[c] = "none"
    /\ pool' = [pool EXCEPT ![c] = "open"]
    /\ hooks' = Registered(c)
    /\ UNCHANGED <<app, running, pinged, dead>>

\* Make refuses the configuration: the application cannot be built.
MakeFails(c) ==
    /\ app = "building"
    /\ pool[c] = "none"
    /\ app' = "failed"
    /\ UNCHANGED <<hooks, running, pool, pinged, dead>>

BuildConsumer(k) ==
    /\ app = "building"
    /\ k \notin Built
    /\ \A c \in Uses[k] : pool[c] = "open"
    /\ hooks' = Append(hooks, k)
    /\ UNCHANGED <<app, running, pool, pinged, dead>>

Start ==
    /\ app = "building"
    /\ Consumer \subseteq Built
    /\ app' = "starting"
    /\ UNCHANGED <<hooks, running, pool, pinged, dead>>

-------------------------------------------------------------------------------
(* Starting and stopping.                                                  *)

Due == hooks[running + 1]

\* OnStart of a connection: db.Ping.
Ping ==
    /\ app = "starting"
    /\ running < Len(hooks)
    /\ Due \in Conn
    /\ pinged' = pinged \cup {Due}
    /\ running' = running + 1
    /\ UNCHANGED <<app, hooks, pool, dead>>

StartConsumer ==
    /\ app = "starting"
    /\ running < Len(hooks)
    /\ Due \in Consumer
    /\ running' = running + 1
    /\ UNCHANGED <<app, hooks, pool, pinged, dead>>

\* db.Ping fails: the start hook of the connection does.
PingFails ==
    /\ app = "starting"
    /\ running < Len(hooks)
    /\ Due \in Conn
    /\ dead' = dead \cup {Due}
    /\ app' = "rollback"
    /\ UNCHANGED <<hooks, running, pool, pinged>>

\* The start hook of another component fails, or the start takes too long.
StartFails ==
    /\ app = "starting"
    /\ running < Len(hooks)
    /\ app' = "rollback"
    /\ UNCHANGED <<hooks, running, pool, pinged, dead>>

AllStarted ==
    /\ app = "starting"
    /\ running = Len(hooks)
    /\ app' = "started"
    /\ UNCHANGED <<hooks, running, pool, pinged, dead>>

Stop ==
    /\ app = "started"
    /\ app' = "stopping"
    /\ UNCHANGED <<hooks, running, pool, pinged, dead>>

\* OnStop of a connection closes its pool.
StopHook ==
    /\ app \in {"rollback", "stopping"}
    /\ running > 0
    /\ pool' = IF hooks[running] \in Conn
               THEN [pool EXCEPT ![hooks[running]] = "closed"]
               ELSE pool
    /\ running' = running - 1
    /\ UNCHANGED <<app, hooks, pinged, dead>>

Stopped ==
    /\ app \in {"rollback", "stopping"}
    /\ running = 0
    /\ app' = IF app = "stopping" THEN "stopped" ELSE "failed"
    /\ UNCHANGED <<hooks, running, pool, pinged, dead>>

Next ==
    \/ \E c \in Conn : MakeConnection(c) \/ MakeFails(c)
    \/ \E k \in Consumer : BuildConsumer(k)
    \/ Start
    \/ Ping \/ PingFails \/ StartConsumer \/ StartFails \/ AllStarted
    \/ Stop \/ StopHook \/ Stopped

Spec == Init /\ [][Next]_vars

-------------------------------------------------------------------------------

\* A started component works with pools that are open and whose database has
\* answered, from its start hook to its stop hook.
UsedIsReady ==
    \A k \in Consumer \cap Started : \A c \in Uses[k] :
        pool[c] = "open" /\ c \in pinged

\* An application whose start succeeded and that has stopped since leaves no
\* pool open, not even one that nothing depends on.  A start that failed is what
\* RejectedIsClosed is about.
StoppedLeavesNothingOpen ==
    app = "stopped" => \A c \in Conn : pool[c] # "open"

\* A connection whose verification failed is cleaned up as well: "Module
\* manages verification and cleanup through the Fx lifecycle" (make.go:10-11).
RejectedIsClosed ==
    app = "failed" => \A c \in dead : pool[c] # "open"

===============================================================================
