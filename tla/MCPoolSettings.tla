--------------------------- MODULE MCPoolSettings ------------------------------
(***************************************************************************)
(* Valid configurations of every sslmode and of an unknown one, and some   *)
(* that are wrong in several ways; options that override each other, or    *)
(* the configuration, in every order.                                      *)
(***************************************************************************)
EXTENDS PoolSettings

Limits(max, min) ==
    [l \in Limit |-> CASE l = "max_conns" -> max
                       [] l = "min_conns" -> min
                       [] l = "max_conn_lifetime" -> 60
                       [] l = "health_period" -> 0
                       [] OTHER -> -1]

Valid ==
    [host |-> "db", database |-> "app", user |-> "role", password |-> Unset,
     mode |-> Unset, serverName |-> Unset, appName |-> Unset, connect |-> 0,
     limits |-> Limits(0, 0)]

MCConfig ==
    {[Valid EXCEPT !.mode = m, !.serverName = n, !.appName = a, !.limits = Limits(2, 1)] :
        m \in {Unset, "disable", "allow", "require", "verify-ca", "verify-full", "verifyfull"},
        n \in {Unset, "db.internal"}, a \in {Unset, "orders"}}
    \cup
    {[Valid EXCEPT !.host = h, !.database = d, !.limits = Limits(x, n), !.connect = t,
                   !.mode = m, !.user = Unset, !.password = "secret"] :
        h \in {Unset, "malformed", "db"}, d \in {Unset, "app"}, m \in {Unset, "verifyfull"},
        x \in {-1, 0, 2}, n \in {-1, 0, 3}, t \in {-1, 1}}

Process(user, password, mode, appName) ==
    [user |-> user, password |-> password, database |-> Unset, mode |-> mode,
     appName |-> appName]

MCEnv == {Process(Unset, Unset, Unset, Unset), Process("pg", "pw", "require", "libpq")}

Set(s, to) == [set |-> s, to |-> to]

MCOption ==
    {Unset, Set("tracing", "o"), Set("tracer", "t"), Set("tracer", Unset),
     Set("metrics", "f"), Set("metrics", Unset), Set("sql", "raw"),
     Set("tls", "own"), Set("tls", Unset), Set("application_name", "mine"),
     Set("exec_mode", "simple"), Set("exec_mode", "cached")}

\* .pgpass has a line for the role on the database, and none for others.
MCPassfile ==
    [d \in {Unset, "app"}, u \in {"os", "pg", "role"} |->
        IF d = "app" /\ u = "role" THEN "filed" ELSE Unset]

MCDefaultLimit ==
    [l \in Limit |-> CASE l = "max_conns" -> 4
                       [] l \in {"max_conn_lifetime", "max_conn_idle_time"} -> 30
                       [] OTHER -> 0]

===============================================================================
