--------------------------- MODULE FxLifecycleProofs ---------------------------
(***************************************************************************)
(* For any connections, components and dependencies: a component that runs *)
(* has open, verified pools, and an application that has stopped has none. *)
(*                                                                         *)
(* Both rest on the order of the hooks.  A component's hook is registered  *)
(* after those of the connections it uses (DependenciesFirst), so these    *)
(* have started before it and are stopped after it; and every open pool    *)
(* has a hook (OpenIsHooked), so undoing all hooks closes them all.        *)
(***************************************************************************)
EXTENDS FxLifecycle, TLAPS

TypeOK ==
    /\ app \in {"building", "starting", "started", "stopping", "rollback", "stopped",
                "failed"}
    /\ hooks \in Seq(Conn \cup Consumer)
    /\ running \in 0 .. Len(hooks)
    /\ pool \in [Conn -> {"none", "open", "closed"}]
    /\ pinged \subseteq Conn

\* Every component registers one hook.
HookedOnce == \A i, j \in DOMAIN hooks : hooks[i] = hooks[j] => i = j

\* The hooks of the connections a component uses come before its own.
DependenciesFirst ==
    \A i \in DOMAIN hooks : hooks[i] \in Consumer =>
        \A c \in Uses[hooks[i]] : \E j \in 1 .. (i - 1) : hooks[j] = c

\* A connection is hooked when its pool is made, and has been neither closed
\* nor left unverified while its hook is started.
OpenIsHooked ==
    /\ \A c \in Conn : pool[c] = "none" <=> c \notin Built
    /\ app \in {"building", "starting"} => \A c \in Conn : pool[c] # "closed"
    /\ \A i \in 1 .. running : hooks[i] \in Conn =>
        pool[hooks[i]] = "open" /\ hooks[i] \in pinged

\* What is stopped has been started as a whole.
OpenIsStarted ==
    /\ app = "building" => running = 0
    /\ app = "started" => running = Len(hooks)
    /\ app = "stopped" => running = 0
    /\ app \in {"stopping", "stopped"} =>
        \A c \in Conn : pool[c] = "open" => c \in Started

IInv == TypeOK /\ HookedOnce /\ DependenciesFirst /\ OpenIsHooked /\ OpenIsStarted

LEMMA InitOK == Init => IInv
<1> SUFFICES ASSUME Init PROVE IInv
  OBVIOUS
<1>1. hooks = <<>> /\ hooks \in Seq(Conn \cup Consumer) /\ DOMAIN hooks = {} /\ Len(hooks) = 0
  BY DEF Init
<1>2. TypeOK
  BY <1>1 DEF Init, TypeOK
<1>3. HookedOnce /\ DependenciesFirst
  BY <1>1 DEF HookedOnce, DependenciesFirst
<1>4. OpenIsHooked /\ OpenIsStarted
  BY <1>1 DEF Init, OpenIsHooked, OpenIsStarted, Built
<1> QED  BY <1>2, <1>3, <1>4 DEF IInv

\* One more hook, of a component that had none.
LEMMA HookAdded ==
    ASSUME IInv, app = "building", NEW x \in (Conn \cup Consumer) \ Built,
           hooks' = Append(hooks, x),
           x \in Consumer => \A c \in Uses[x] : c \in Built,
           UNCHANGED running
    PROVE  /\ hooks' \in Seq(Conn \cup Consumer) /\ running' \in 0 .. Len(hooks')
           /\ HookedOnce' /\ DependenciesFirst' /\ Built' = Built \cup {x}
           /\ running' = 0
<1> DEFINE n == Len(hooks) + 1
<1>1. /\ hooks \in Seq(Conn \cup Consumer) /\ n \in Nat \ {0} /\ running = 0
  BY DEF IInv, TypeOK, OpenIsStarted
<1>2. /\ hooks' \in Seq(Conn \cup Consumer) /\ Len(hooks') = n
      /\ DOMAIN hooks' = DOMAIN hooks \cup {n} /\ DOMAIN hooks = 1 .. (n - 1)
      /\ \A i \in DOMAIN hooks : hooks'[i] = hooks[i]
      /\ hooks'[n] = x
  BY <1>1
<1> HIDE DEF n
<1>3. Built' = Built \cup {x}
  BY <1>2 DEF Built
<1>4. HookedOnce'
  BY <1>2 DEF IInv, HookedOnce, Built
<1>5. DependenciesFirst'
  <2> SUFFICES ASSUME NEW i \in DOMAIN hooks', hooks'[i] \in Consumer,
                      NEW c \in Uses[hooks'[i]]
               PROVE  \E j \in 1 .. (i - 1) : hooks'[j] = c
    BY DEF DependenciesFirst
  <2>1. CASE i = n
    <3>1. c \in Built
      BY <1>2, <2>1
    <3>2. PICK j \in DOMAIN hooks : hooks[j] = c
      BY <3>1 DEF Built
    <3> QED  BY <1>1, <1>2, <2>1, <3>2
  <2>2. CASE i \in DOMAIN hooks
    <3>1. PICK j \in 1 .. (i - 1) : hooks[j] = c
      BY <1>2, <2>2 DEF IInv, DependenciesFirst
    <3>2. j \in DOMAIN hooks
      BY <1>1, <1>2, <2>2, <3>1
    <3> QED  BY <1>2, <3>1, <3>2
  <2> QED  BY <1>2, <2>1, <2>2
<1> QED  BY <1>1, <1>2, <1>3, <1>4, <1>5

LEMMA NextOK == IInv /\ [Next]_vars => IInv'
<1> SUFFICES ASSUME IInv, [Next]_vars PROVE IInv'
  OBVIOUS
<1>1. /\ TypeOK /\ HookedOnce /\ DependenciesFirst /\ OpenIsHooked /\ OpenIsStarted
      /\ hooks \in Seq(Conn \cup Consumer) /\ running \in Nat /\ Len(hooks) \in Nat
      /\ running <= Len(hooks) /\ DOMAIN hooks = 1 .. Len(hooks)
      /\ pool \in [Conn -> {"none", "open", "closed"}]
      /\ \A i \in DOMAIN hooks : hooks[i] \in Conn \cup Consumer
  BY DEF IInv, TypeOK
<1>2. ASSUME NEW c \in Conn, MakeConnection(c) PROVE IInv'
  <2>1. /\ app = "building" /\ app' = app /\ pool[c] = "none" /\ running' = running
        /\ pinged' = pinged /\ hooks' = Append(hooks, c)
        /\ pool' = [pool EXCEPT ![c] = "open"]
    BY <1>2 DEF MakeConnection, Registered
  <2>2. c \notin Built /\ c \notin Consumer
    BY <1>1, <2>1, UsesAssumption DEF OpenIsHooked
  <2>3. /\ hooks' \in Seq(Conn \cup Consumer) /\ running' \in 0 .. Len(hooks')
        /\ HookedOnce' /\ DependenciesFirst' /\ Built' = Built \cup {c} /\ running' = 0
    BY <2>1, <2>2, HookAdded
  <2>4. /\ pool' \in [Conn -> {"none", "open", "closed"}] /\ pool'[c] = "open"
        /\ \A d \in Conn \ {c} : pool'[d] = pool[d]
    BY <1>1, <2>1
  <2>5. TypeOK'
    BY <1>1, <2>1, <2>3, <2>4 DEF TypeOK
  <2>6. OpenIsHooked'
    BY <1>1, <2>1, <2>3, <2>4 DEF OpenIsHooked
  <2>7. OpenIsStarted'
    BY <2>1, <2>3 DEF OpenIsStarted
  <2> QED  BY <2>3, <2>5, <2>6, <2>7 DEF IInv
<1>3. ASSUME NEW k \in Consumer, BuildConsumer(k) PROVE IInv'
  <2>1. /\ app = "building" /\ k \notin Built /\ \A c \in Uses[k] : pool[c] = "open"
        /\ hooks' = Append(hooks, k) /\ UNCHANGED <<app, running, pool, pinged>>
    BY <1>3 DEF BuildConsumer
  <2>2. \A c \in Uses[k] : c \in Built
    BY <1>1, <2>1, UsesAssumption DEF OpenIsHooked
  <2>3. /\ hooks' \in Seq(Conn \cup Consumer) /\ running' \in 0 .. Len(hooks')
        /\ HookedOnce' /\ DependenciesFirst' /\ Built' = Built \cup {k} /\ running' = 0
    BY <2>1, <2>2, HookAdded
  <2>4. k \notin Conn
    BY UsesAssumption
  <2>5. TypeOK'
    BY <1>1, <2>1, <2>3 DEF TypeOK
  <2>6. OpenIsHooked'
    BY <1>1, <2>1, <2>3, <2>4 DEF OpenIsHooked
  <2>7. OpenIsStarted'
    BY <2>1, <2>3 DEF OpenIsStarted
  <2> QED  BY <2>3, <2>5, <2>6, <2>7 DEF IInv
<1>4. ASSUME UNCHANGED <<hooks, running, pool, pinged>>,
             app' \in {"building", "starting", "started", "stopping", "rollback", "stopped",
                       "failed"},
             app' \in {"building", "starting"} => app \in {"building", "starting"},
             OpenIsStarted'
      PROVE  IInv'
  BY <1>1, <1>4
     DEF IInv, TypeOK, HookedOnce, DependenciesFirst, OpenIsHooked, Built
<1>5. CASE \/ \E c \in Conn : MakeFails(c)
           \/ Start \/ PingFails \/ StartFails \/ Stopped
  <2>1. OpenIsStarted'
    BY <1>1, <1>5
       DEF MakeFails, Start, PingFails, StartFails, Stopped, OpenIsStarted, Started
  <2> QED  BY <1>4, <1>5, <2>1 DEF MakeFails, Start, PingFails, StartFails, Stopped
<1>6. CASE AllStarted
  <2>1. OpenIsStarted'
    BY <1>6 DEF AllStarted, OpenIsStarted
  <2> QED  BY <1>4, <1>6, <2>1 DEF AllStarted
<1>7. CASE Stop
  <2>1. Started = Built
    BY <1>1, <1>7 DEF Stop, OpenIsStarted, Started, Built
  <2>2. OpenIsStarted'
    BY <1>1, <1>7, <2>1 DEF Stop, OpenIsStarted, OpenIsHooked, Started
  <2> QED  BY <1>4, <1>7, <2>2 DEF Stop
<1>8. CASE Ping \/ StartConsumer
  <2>1. /\ app = "starting" /\ running < Len(hooks) /\ running' = running + 1
        /\ Due = hooks[running + 1] /\ UNCHANGED <<app, hooks, pool>>
        /\ pinged \subseteq pinged'
        /\ \/ Due \in Conn /\ pinged' = pinged \cup {Due}
           \/ Due \in Consumer /\ pinged' = pinged
    BY <1>8 DEF Ping, StartConsumer, Due
  <2>2. Due \in Conn => pool[Due] = "open"
    BY <1>1, <2>1 DEF OpenIsHooked, Built
  <2>3. OpenIsHooked'
    <3>1. \A i \in 1 .. running' : i \in 1 .. running \/ i = running + 1
      BY <1>1, <2>1
    <3>2. \A i \in 1 .. running' : hooks[i] \in Conn =>
            pool[hooks[i]] = "open" /\ hooks[i] \in pinged'
      BY <1>1, <2>1, <2>2, <3>1, UsesAssumption DEF OpenIsHooked
    <3> QED  BY <1>1, <2>1, <3>2 DEF OpenIsHooked, Built
  <2>4. TypeOK'
    BY <1>1, <2>1 DEF TypeOK
  <2> QED  BY <1>1, <2>1, <2>3, <2>4 DEF IInv, HookedOnce, DependenciesFirst, OpenIsStarted
<1>9. CASE StopHook
  <2> DEFINE x == hooks[running]
  <2>1. /\ app \in {"rollback", "stopping"} /\ running > 0 /\ running' = running - 1
        /\ UNCHANGED <<app, hooks, pinged>>
        /\ pool' = IF x \in Conn THEN [pool EXCEPT ![x] = "closed"] ELSE pool
    BY <1>9 DEF StopHook
  <2>2. /\ running \in DOMAIN hooks /\ running' \in 0 .. Len(hooks)
        /\ 1 .. running' \subseteq 1 .. running /\ running \notin 1 .. running'
        /\ \A i \in 1 .. running : i \in DOMAIN hooks /\ (i \in 1 .. running' \/ i = running)
    BY <1>1, <2>1
  <2>3. /\ pool' \in [Conn -> {"none", "open", "closed"}]
        /\ \A d \in Conn : d # x => pool'[d] = pool[d]
        /\ x \in Conn => pool'[x] = "closed"
    BY <1>1, <2>1
  <2>4. \A i \in 1 .. running' : hooks[i] # x
    BY <1>1, <2>2 DEF HookedOnce
  <2>5. TypeOK'
    BY <1>1, <2>1, <2>2, <2>3 DEF TypeOK
  <2>6. OpenIsHooked'
    BY <1>1, <2>1, <2>2, <2>3, <2>4 DEF OpenIsHooked, Built
  <2>7. OpenIsStarted'
    <3>1. ASSUME app = "stopping", NEW c \in Conn, pool'[c] = "open"
          PROVE  c \in Started'
      <4>1. c # x /\ pool[c] = "open"
        BY <2>3, <3>1
      <4>2. PICK i \in 1 .. running : hooks[i] = c
        BY <1>1, <3>1, <4>1 DEF OpenIsStarted, Started
      <4> QED  BY <2>1, <2>2, <4>1, <4>2 DEF Started
    <3> QED  BY <2>1, <3>1 DEF OpenIsStarted
  <2> QED  BY <1>1, <2>1, <2>5, <2>6, <2>7 DEF IInv, HookedOnce, DependenciesFirst
<1>10. CASE UNCHANGED vars
  BY <1>1, <1>4, <1>10 DEF vars, OpenIsStarted, Started, TypeOK
<1> QED
  BY <1>2, <1>3, <1>5, <1>6, <1>7, <1>8, <1>9, <1>10 DEF Next

\* The invariant holds in every state of the application's life.
THEOREM Inductive == Spec => []IInv
  BY InitOK, NextOK, PTL DEF Spec

\* A component that runs has open pools whose database has answered.
THEOREM ReadyWhenUsed == Spec => []UsedIsReady
<1>1. IInv => UsedIsReady
  <2> SUFFICES ASSUME IInv, NEW k \in Consumer \cap Started, NEW c \in Uses[k]
               PROVE  pool[c] = "open" /\ c \in pinged
    BY DEF UsedIsReady
  <2>1. PICK i \in 1 .. running : hooks[i] = k
    BY DEF Started
  <2>2. i \in DOMAIN hooks /\ running \in Nat
    BY DEF IInv, TypeOK
  <2>3. PICK j \in 1 .. (i - 1) : hooks[j] = c
    BY <2>1, <2>2 DEF IInv, DependenciesFirst
  <2>4. j \in 1 .. running /\ c \in Conn
    BY <2>1, <2>2, UsesAssumption
  <2> QED  BY <2>3, <2>4 DEF IInv, OpenIsHooked
<1> QED  BY <1>1, Inductive, PTL

\* A stopped application leaves no pool open.
THEOREM NothingOpenAfterStop == Spec => []StoppedLeavesNothingOpen
<1>1. IInv => StoppedLeavesNothingOpen
  BY DEF IInv, OpenIsStarted, StoppedLeavesNothingOpen, Started
<1> QED  BY <1>1, Inductive, PTL

===============================================================================
