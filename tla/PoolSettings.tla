---------------------------- MODULE PoolSettings -------------------------------
(***************************************************************************)
(* What Make makes of a Config and its options (make.go, config.go,        *)
(* options.go), on top of what pgxpool.ParseConfig takes from libpq's      *)
(* environment: the settings of the pool and the links its connections     *)
(* are dialled over.  A deployment whose configuration Make refuses is     *)
(* corrected in what the refusal names, some way or other, and rolled out  *)
(* again.                                                                  *)
(*                                                                         *)
(* Names, durations and certificates are values told apart by equality;    *)
(* an empty string of the code is Unset, and so is a nil.                  *)
(***************************************************************************)
EXTENDS Integers, Sequences, SequencesExt, FiniteSetsExt

CONSTANTS
    Config,         \* the configurations deployments start from
    Env,            \* the environments libpq's defaults are taken from
    Option,         \* the options callers give: [set, to] or Unset
    Amount,         \* the numbers of connections a correction may choose
    MaxOptions,     \* bound on the options of one Make, and on the refusals
                    \* before it together with them
    Slot,           \* settings of pgx an option installs as they are
    OsUser,         \* the user of the operating system
    Passfile,       \* the password .pgpass has for a database and a role
    DefaultLimit,   \* the limits pgxpool defaults to
    Unset

Limit ==
    {"max_conns", "min_conns", "min_idle_conns", "max_conn_lifetime",
     "max_conn_lifetime_jitter", "max_conn_idle_time", "health_period"}

\* The sslmodes there are.
KnownMode == {"disable", "allow", "prefer", "require", "verify-ca", "verify-full"}

ASSUME LimitAssumption == DefaultLimit \in [Limit -> Nat]

\* What options set besides the slots of pgx.
Named == {"tracing", "tracer", "metrics", "sql", "tls", "application_name"}

ConfigField ==
    {"host", "database", "user", "password", "mode", "serverName", "appName",
     "connect", "limits"}

IsConfig(c) ==
    /\ DOMAIN c = ConfigField
    /\ c.connect \in Int
    /\ c.limits \in [Limit -> Int]

ASSUME ConfigAssumption == \A c \in Config : IsConfig(c)

ASSUME AmountAssumption == Amount \subseteq Nat

\* What is not set differs from what pgconn or a correction sets.
ASSUME UnsetAssumption == Unset \notin {"files"} \cup KnownMode

ASSUME OptionAssumption ==
    /\ Slot \cap Named = {}
    /\ \A o \in Option : o # Unset => o.set \in Named \cup Slot

VARIABLES
    cfg,        \* the Config
    env,        \* the environment of the process
    given,      \* the options of the call, in order
    options,    \* what makeOptions has collected from them
    phase,      \* "validating", "giving", "refused", "failed", "made",
                \* "connected" or "unreachable"
    refusals,   \* what each refusal so far has named
    pool,       \* the *pgxpool.Config, or Unset
    tries,      \* how many links the connection has tried
    link        \* the link it is dialled over, or Unset

makeVars == <<phase, refusals, pool>>
dialVars == <<tries, link>>
vars == <<cfg, env, given, options, makeVars, dialVars>>

\* A value that is set, or else another.
Or(value, otherwise) == IF value = Unset THEN otherwise ELSE value

-------------------------------------------------------------------------------
(* Config.Validate.                                                        *)

Problem ==
    {"host", "database", "max_conns", "min_conns", "min_max_conns", "connect"}

\* resolveEndpoint: a host, or a host and a port, that is there and parses.
Resolves(host) == host \notin {Unset, "malformed"}

Wrong(c, p) ==
    CASE p = "host" -> ~Resolves(c.host)
      [] p = "database" -> c.database = Unset
      [] p \in {"max_conns", "min_conns"} -> c.limits[p] < 0
      [] p = "min_max_conns" ->
            /\ c.limits["max_conns"] > 0
            /\ c.limits["min_conns"] > c.limits["max_conns"]
      [] p = "connect" -> c.connect < 0

\* Variation: only the first problem is reported.
ValidateFirst(c) ==
    LET all == {p \in Problem : Wrong(c, p)}
    IN  IF all = {} THEN {} ELSE {CHOOSE p \in all : TRUE}

\* Every problem it checks for, at once.
Validate(c) == {p \in Problem : Wrong(c, p)}

-------------------------------------------------------------------------------
(* pgxpool.ParseConfig, given the host and the TLS settings only.          *)

\* Links without TLS, with what the files of the Config hold, and with the
\* application's own *tls.Config, whose server name is its own affair.
Plain == [tls |-> Unset, name |-> Unset]
FromFiles(host) == [tls |-> "files", name |-> host]
Exactly(tls) == [tls |-> tls, name |-> Unset]

\* The links of an sslmode, in the order they are tried.
LinksOf(mode, host) ==
    CASE mode = "disable" -> <<Plain>>
      [] mode = "allow" -> <<Plain, FromFiles(host)>>
      [] mode = "prefer" -> <<FromFiles(host), Plain>>
      [] mode \in {"require", "verify-ca", "verify-full"} -> <<FromFiles(host)>>
      [] OTHER -> <<>>

Mode == Or(cfg.mode, Or(env.mode, "prefer"))

\* An unknown sslmode.
ParseFails == LinksOf(Mode, cfg.host) = <<>>

ParseConfig ==
    LET links == LinksOf(Mode, cfg.host)
        user == Or(env.user, OsUser)
    IN  [host |-> cfg.host,
         database |-> env.database,
         user |-> user,
         password |-> Or(env.password, Passfile[env.database, user]),
         connect |-> 0,
         tls |-> Head(links),
         fallbacks |-> Tail(links),
         appName |-> env.appName,
         limits |-> DefaultLimit,
         tracer |-> <<>>,
         slots |-> [s \in Slot |-> Unset]]

-------------------------------------------------------------------------------
(* Config.poolConfig.                                                      *)

\* What the Config sets is overridden, the rest stays as parsed; the server
\* name is that of the first link, when that one is encrypted.
Override(parsed) ==
    [parsed EXCEPT
        !.database = cfg.database,
        !.user = Or(cfg.user, @),
        !.password = Or(cfg.password, @),
        !.connect = IF cfg.connect > 0 THEN cfg.connect ELSE @,
        !.tls = IF cfg.serverName # Unset /\ @ # Plain
                THEN [@ EXCEPT !.name = cfg.serverName]
                ELSE @,
        !.appName = Or(cfg.appName, @)]

ApplyPoolLimits(p) ==
    [p EXCEPT !.limits =
        [l \in Limit |-> IF cfg.limits[l] > 0 THEN cfg.limits[l] ELSE @[l]]]

Observers(o) ==
    (IF o.tracing THEN <<[by |-> "otel", with |-> o.tracingOptions]>> ELSE <<>>)
    \o (IF o.tracer # Unset THEN <<[by |-> "tracer", with |-> o.tracer]>> ELSE <<>>)
    \o (IF o.metrics # Unset
        THEN <<[by |-> "metrics", with |-> <<o.metrics, o.sql>>]>>
        ELSE <<>>)

\* Variation: the metrics callback takes the place of the other tracers.
BuildTracerReplacing(o) ==
    IF o.metrics = Unset THEN Observers(o) ELSE <<Last(Observers(o))>>

\* The tracer of the pool: none, the only one, or a multitracer over all.
BuildTracer(o) == Observers(o)

\* Variation: the fallbacks of the sslmode stay.
WithTLSKeepingFallbacks(p, tls) == [p EXCEPT !.tls = Exactly(tls)]

WithTLS(p, tls) == [p EXCEPT !.tls = Exactly(tls), !.fallbacks = <<>>]

\* What the function an option has left in poolOptions does to the pool.
Mutate(p, o) ==
    CASE o.set = "tls" -> WithTLS(p, o.to)
      [] o.set = "application_name" -> [p EXCEPT !.appName = o.to]
      [] OTHER -> [p EXCEPT !.slots[o.set] = o.to]

\* Variation: the options mutate the pool before the Config is applied.
PoolConfigOptionsFirst ==
    LET mutated == FoldLeft(Mutate, ParseConfig, options.pool)
    IN  [ApplyPoolLimits(Override(mutated)) EXCEPT !.tracer = BuildTracer(options)]

PoolConfig ==
    LET configured == ApplyPoolLimits(Override(ParseConfig))
        traced == [configured EXCEPT !.tracer = BuildTracer(options)]
    IN  FoldLeft(Mutate, traced, options.pool)

-------------------------------------------------------------------------------

NoOptions ==
    [tracing |-> FALSE, tracingOptions |-> <<>>, tracer |-> Unset,
     metrics |-> Unset, sql |-> Unset, pool |-> <<>>]

Init ==
    /\ cfg \in Config
    /\ env \in Env
    /\ given = <<>>
    /\ options = NoOptions
    /\ phase = "validating"
    /\ refusals = <<>>
    /\ pool = Unset
    /\ tries = 0
    /\ link = Unset

\* An option runs on the options collected so far; a nil one is skipped.
Apply(o, opts) ==
    IF o = Unset THEN opts
    ELSE CASE o.set = "tracing" ->
                [opts EXCEPT !.tracing = TRUE, !.tracingOptions = Append(@, o.to)]
           [] o.set \in {"tracer", "metrics", "sql"} -> [opts EXCEPT ![o.set] = o.to]
           [] OTHER -> [opts EXCEPT !.pool = Append(@, o)]

MakeValid ==
    /\ phase = "validating"
    /\ Validate(cfg) = {}
    /\ phase' = "giving"
    /\ UNCHANGED <<cfg, env, given, options, refusals, pool, dialVars>>

\* makeOptions comes to the next option.
Give(o) ==
    /\ phase = "giving"
    /\ Len(given) + Len(refusals) < MaxOptions
    /\ given' = Append(given, o)
    /\ options' = Apply(o, options)
    /\ UNCHANGED <<cfg, env, makeVars, dialVars>>

Refuse(reasons) ==
    /\ phase' = "refused"
    /\ refusals' = Append(refusals, reasons)
    /\ UNCHANGED <<cfg, env, given, options, pool, dialVars>>

MakeInvalid ==
    /\ phase = "validating"
    /\ Validate(cfg) # {}
    /\ Refuse(Validate(cfg))

MakeUnparsable ==
    /\ phase = "giving"
    /\ ParseFails
    /\ Refuse({"sslmode"})

Make ==
    /\ phase = "giving"
    /\ ~ParseFails
    /\ phase' = "made"
    /\ pool' = PoolConfig
    /\ UNCHANGED <<cfg, env, given, options, refusals, dialVars>>

\* pgxpool.NewWithConfig returns an error, whose cause is its own.
MakeFails ==
    /\ phase = "giving"
    /\ ~ParseFails
    /\ phase' = "failed"
    /\ UNCHANGED <<cfg, env, given, options, refusals, pool, dialVars>>

\* The Config with these limits and this mode, and the rest of what a refusal
\* names mended.
Mended(named, max, min, mode) ==
    [cfg EXCEPT
        !.host = IF "host" \in named THEN "db" ELSE @,
        !.database = IF "database" \in named THEN "app" ELSE @,
        !.connect = IF "connect" \in named THEN 0 ELSE @,
        !.mode = mode,
        !.limits["max_conns"] = max,
        !.limits["min_conns"] = min]

\* The deployment corrects what the refusal names in any way that leaves none of
\* it wrong, and nothing else, and the program starts anew.
Correct ==
    /\ phase = "refused"
    /\ LET named == Last(refusals)
           sizes(l) == IF {l, "min_max_conns"} \cap named = {}
                       THEN {cfg.limits[l]}
                       ELSE Amount
           modes == IF "sslmode" \in named THEN KnownMode ELSE {cfg.mode}
       IN  /\ \E max \in sizes("max_conns"), min \in sizes("min_conns"), mode \in modes :
                cfg' = Mended(named, max, min, mode)
           /\ \A p \in named \cap Problem : ~Wrong(cfg', p)
    /\ given' = <<>>
    /\ options' = NoOptions
    /\ phase' = "validating"
    /\ UNCHANGED <<env, refusals, pool, dialVars>>

-------------------------------------------------------------------------------
(* A connection of the pool: its links in turn, until one is accepted.     *)

Links == <<pool.tls>> \o pool.fallbacks

Dial ==
    /\ phase = "made"
    /\ tries < Len(Links)
    /\ tries' = tries + 1
    /\ \/ link' = Links[tries'] /\ phase' = "connected"
       \/ UNCHANGED <<link, phase>>
    /\ UNCHANGED <<cfg, env, given, options, refusals, pool>>

Unreachable ==
    /\ phase = "made"
    /\ tries = Len(Links)
    /\ phase' = "unreachable"
    /\ UNCHANGED <<cfg, env, given, options, refusals, pool, dialVars>>

Next ==
    \/ MakeInvalid \/ MakeValid
    \/ \E o \in Option : Give(o)
    \/ MakeUnparsable \/ Make \/ MakeFails
    \/ Correct
    \/ Dial \/ Unreachable

Spec == Init /\ [][Next]_vars

-------------------------------------------------------------------------------

\* The options that set s, by position, and the last of them.
Setting(s) == {i \in DOMAIN given : given[i] # Unset /\ given[i].set = s}

LastWord(s, otherwise) ==
    IF Setting(s) = {} THEN otherwise ELSE given[Max(Setting(s))].to

\* The last option that sets something decides it, whatever was given before
\* and between; without one the Config does, and where that is silent the
\* environment or pgx: "only overrides them when set" (config.go:138-139),
\* "Zero values leave the pgxpool defaults in place" (config.go:84-85).
LastWordWins ==
    pool # Unset =>
        /\ pool.user = Or(cfg.user, Or(env.user, OsUser))
        /\ Or(cfg.password, env.password) # Unset =>
                pool.password = Or(cfg.password, env.password)
        /\ pool.appName =
                LastWord("application_name", Or(cfg.appName, env.appName))
        /\ \A s \in Slot : pool.slots[s] = LastWord(s, Unset)
        /\ \A l \in Limit :
                pool.limits[l] =
                    IF cfg.limits[l] > 0 THEN cfg.limits[l] ELSE DefaultLimit[l]

\* A connection never comes to be over a link that was not asked for: with
\* WithTLS it is exactly the last one given ("every connection attempt uses
\* exactly this configuration", options.go:118-119), without it the sslmode
\* decides, and verify-full verifies the name the Config gives.
LinkAsRequired ==
    phase = "connected" =>
        IF Setting("tls") # {}
        THEN link = Exactly(LastWord("tls", Unset))
        ELSE /\ Mode \in {"require", "verify-ca", "verify-full"} => link # Plain
             /\ Mode = "disable" => link = Plain
             /\ Mode = "verify-full" => link.name = Or(cfg.serverName, cfg.host)

\* Each observer that was enabled hears of a statement once, whatever the
\* order of the options: "It composes with WithTracing and WithQueryMetrics
\* rather than replacing them" (options.go:84), "nil disables it" (:91).
ObserversCompose ==
    pool # Unset =>
        LET heard(by) == {i \in DOMAIN pool.tracer : pool.tracer[i].by = by}
            once(by, with) ==
                \E i \in heard(by) : heard(by) = {i} /\ pool.tracer[i].with = with
            last(s) == LastWord(s, Unset)
        IN  /\ IF Setting("tracing") = {} THEN heard("otel") = {}
               ELSE \E i \in heard("otel") :
                        /\ heard("otel") = {i}
                        /\ ToSet(pool.tracer[i].with) =
                            {given[j].to : j \in Setting("tracing")}
            /\ IF last("tracer") = Unset THEN heard("tracer") = {}
               ELSE once("tracer", last("tracer"))
            /\ IF last("metrics") = Unset THEN heard("metrics") = {}
               ELSE once("metrics", <<last("metrics"), LastWord("sql", Unset)>>)

\* What a later refusal may still name.  "every problem at once ... so a
\* misconfigured deployment takes one rollout to fix" (config.go:118-120) is kept
\* but for an sslmode, which only ParseConfig knows to be wrong, and for limits
\* that were corrected to a pair that does not fit: a negative max_conns hides
\* that min_conns is too large for any but a larger one.  Either is named once,
\* so the third rollout is the last one.
NamedAtOnce ==
    /\ Len(refusals) <= 3
    /\ \A i \in 2 .. Len(refusals) :
        \/ refusals[i] = {"sslmode"}
        \/ /\ refusals[i] = {"min_max_conns"}
           /\ refusals[i - 1] \cap {"max_conns", "min_conns"} # {}

\* A password looked up in .pgpass is that of the database and the role the
\* pool connects to: "User and Password are optional: when empty they fall
\* back to libpq's defaults (PGUSER / the OS user, and PGPASSWORD / .pgpass)"
\* (config.go:28-30).
PasswordOfTheRole ==
    pool # Unset /\ Or(cfg.password, env.password) = Unset =>
        pool.password = Passfile[pool.database, pool.user]

===============================================================================
