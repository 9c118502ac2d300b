------------------------------ MODULE Lifecycle -----------------------------
(***************************************************************************)
(* The processes of the program: how replicas start, migrate the schema    *)
(* they share, serve and shut down, and the migrate commands operators run *)
(* meanwhile (cmd/task-management/main.go, internal/app/app.go,            *)
(* pkg/migrator, and the server's Listen and Shutdown).                    *)
(*                                                                         *)
(* MySQL, golang-migrate and fasthttp are modelled by what the code relies *)
(* on.  golang-migrate holds GET_LOCK on its connection while it works,    *)
(* and brackets every file with the version and a dirty flag in            *)
(* schema_migrations; DDL is not transactional, so a file can stop half    *)
(* way.  fasthttp's Shutdown closes the listeners it has, and waits for    *)
(* open connections until its context ends.  Any call may fail, and any    *)
(* process may be killed between two steps.                                *)
(***************************************************************************)
EXTENDS Integers

CONSTANTS
    Replicas,    \* processes that can run together
    Files,       \* Files[r]: the number of migrations in r's image
    Commands,    \* what they are started with, see AllCommands
    MaxSteps,    \* bound on N in "migrate down N"
    MaxRequests, \* bound on the requests a replica has in flight
    MaxStarts,   \* bound on the number of starts of all replicas
    NoReplica

\* "serve" and "migrate up|down"; "serve_only" is "serve" with
\* MIGRATE_ON_START=false.
AllCommands == {"serve", "serve_only", "up", "down"}

ASSUME LifecycleAssumption ==
    /\ Files \in [Replicas -> Nat]
    /\ Commands \subseteq AllCommands
    /\ MaxSteps \in Nat /\ MaxRequests \in Nat /\ MaxStarts \in Nat
    /\ NoReplica \notin Replicas

VARIABLES
    version,    \* schema_migrations.version, 0 when there is none
    dirty,      \* schema_migrations.dirty
    schema,     \* schema[m]: how much of migration m is in the schema
    lock,       \* who holds the advisory lock
    downs,      \* history: a "migrate down" has begun to change the schema
    starts,     \* the number of starts so far
    pc,         \* pc[r]: the next call of r's main goroutine
    cmd,        \* cmd[r]: r's command
    todo,       \* todo[r]: the migrations r has still to apply or revert
    signalled,  \* signalled[r]: SIGTERM has cancelled r's context
    pools,      \* pools[r]: the connection pools r has open
    listener,   \* listener[r]: the state of r's Listen goroutine
    inflight,   \* inflight[r]: the requests r has accepted and not answered
    timedOut    \* history, timedOut[r]: r's shutdown did not wait any longer

database == <<version, dirty, schema, lock, downs>>
serving  == <<listener, inflight, timedOut>>
vars     == <<database, starts, pc, cmd, todo, signalled, pools, serving>>

Migrations == UNION {1..Files[r] : r \in Replicas}

Init ==
    /\ version = 0 /\ dirty = FALSE /\ schema = [m \in Migrations |-> "none"]
    /\ lock = NoReplica /\ downs = FALSE /\ starts = 0
    /\ pc = [r \in Replicas |-> "exited"]
    /\ cmd = [r \in Replicas |-> "serve"]
    /\ todo = [r \in Replicas |-> 0]
    /\ signalled = [r \in Replicas |-> FALSE]
    /\ pools = [r \in Replicas |-> {}]
    /\ listener = [r \in Replicas |-> "none"]
    /\ inflight = [r \in Replicas |-> 0]
    /\ timedOut = [r \in Replicas |-> FALSE]

Running(r) == pc[r] # "exited"

Goto(r, next) == pc' = [pc EXCEPT ![r] = next]

OpenPool(r, pool) == pools' = [pools EXCEPT ![r] = @ \cup {pool}]

ClosePool(r, pool) == pools' = [pools EXCEPT ![r] = @ \ {pool}]

\* main returns: the process ends, and with it its goroutines.
Exit(r) ==
    /\ Goto(r, "exited")
    /\ todo' = [todo EXCEPT ![r] = 0]
    /\ signalled' = [signalled EXCEPT ![r] = FALSE]
    /\ listener' = [listener EXCEPT ![r] = "none"]
    /\ inflight' = [inflight EXCEPT ![r] = 0]
    /\ timedOut' = [timedOut EXCEPT ![r] = FALSE]

-----------------------------------------------------------------------------
(* Starting: run, serve, migrateCmd.                                       *)

\* A process is started with a command.
Run(r) ==
    /\ ~Running(r) /\ starts < MaxStarts
    /\ starts' = starts + 1
    /\ \E c \in Commands, n \in 1..MaxSteps :
          /\ cmd' = [cmd EXCEPT ![r] = c]
          /\ todo' = [todo EXCEPT ![r] = IF c = "down" THEN n ELSE 0]
          /\ Goto(r, IF c = "serve_only" THEN "mysql" ELSE "connect")
    /\ UNCHANGED <<database, signalled, pools, serving>>

\* SIGTERM or SIGINT cancels the context of run.
Signal(r) ==
    /\ Running(r) /\ ~signalled[r]
    /\ signalled' = [signalled EXCEPT ![r] = TRUE]
    /\ UNCHANGED <<database, starts, pc, cmd, todo, pools, serving>>

\* The process is killed.  MySQL drops its connections and their lock.
Kill(r) ==
    /\ Running(r)
    /\ Exit(r)
    /\ lock' = IF lock = r THEN NoReplica ELSE lock
    /\ pools' = [pools EXCEPT ![r] = {}]
    /\ UNCHANGED <<version, dirty, schema, downs, starts, cmd>>

-----------------------------------------------------------------------------
(* The migrator.                                                           *)

\* New: a ping under the context, and schema_migrations is created under the
\* lock.  On an error the pool is closed.
Connect(r) ==
    /\ pc[r] = "connect"
    /\ \/ /\ ~signalled[r] /\ lock = NoReplica
          /\ OpenPool(r, "migrator")
          /\ Goto(r, "lock")
          /\ UNCHANGED <<todo, signalled, serving>>
       \/ Exit(r) /\ UNCHANGED pools
    /\ UNCHANGED <<database, starts, cmd>>

\* An error ends Up or Down: the lock is released, the deferred Close closes
\* the migrator, and main exits with status 1.
Abandon(r) ==
    /\ Exit(r)
    /\ ClosePool(r, "migrator")
    /\ lock' = IF lock = r THEN NoReplica ELSE lock

\* A bug: a replica that cannot have the lock in time leaves the migrations
\* to its holder and goes on.
LockOrGoOn(r) ==
    /\ pc[r] = "lock"
    /\ \/ /\ lock = NoReplica
          /\ lock' = r
          /\ Goto(r, "check")
          /\ UNCHANGED pools
       \/ /\ lock # NoReplica
          /\ ClosePool(r, "migrator")
          /\ Goto(r, "mysql")
          /\ UNCHANGED lock
    /\ UNCHANGED <<version, dirty, schema, downs, starts, cmd, todo, signalled, serving>>

\* A bug: it connects and asks again, as often as it takes.
LockRetrying(r) ==
    /\ pc[r] = "lock"
    /\ \/ /\ lock = NoReplica
          /\ lock' = r
          /\ Goto(r, "check")
          /\ UNCHANGED pools
       \/ /\ ClosePool(r, "migrator")
          /\ Goto(r, "connect")
          /\ UNCHANGED lock
    /\ UNCHANGED <<version, dirty, schema, downs, starts, cmd, todo, signalled, serving>>

\* GET_LOCK, or an error when somebody holds it for too long.  The context
\* is not consulted from here to the end of Up.
Lock(r) ==
    /\ pc[r] = "lock"
    /\ \/ /\ lock = NoReplica
          /\ lock' = r
          /\ Goto(r, "check")
          /\ UNCHANGED <<todo, signalled, pools, serving>>
       \/ Abandon(r)
    /\ UNCHANGED <<version, dirty, schema, downs, starts, cmd>>

\* A bug: the dirty flag is ignored.
PlanIgnoringDirty(r) ==
    /\ version <= Files[r]
    /\ todo' = [todo EXCEPT ![r] = IF cmd[r] = "down" THEN @ ELSE Files[r] - version]

\* A dirty schema is refused, and so is a version that r's image does not
\* have.  Up goes to the last file, Down as many steps as it was told.
Plan(r) ==
    /\ ~dirty /\ version <= Files[r]
    /\ todo' = [todo EXCEPT ![r] = IF cmd[r] = "down" THEN @ ELSE Files[r] - version]

CheckVersion(r) ==
    /\ pc[r] = "check"
    /\ \/ /\ Plan(r)
          /\ Goto(r, "next")
          /\ UNCHANGED <<lock, signalled, pools, serving>>
       \/ Abandon(r)
    /\ UNCHANGED <<version, dirty, schema, downs, starts, cmd>>

\* The file that the process is at: the one it marked, or, reverting, the
\* one above.
Current(r) == IF cmd[r] = "down" THEN version + 1 ELSE version

\* A bug: the version is set and the dirty flag is not.
MarkCleanly(r) ==
    /\ pc[r] = "next" /\ todo[r] > 0
    /\ cmd[r] = "down" => version > 0
    /\ version' = IF cmd[r] = "down" THEN version - 1 ELSE version + 1
    /\ downs' = (downs \/ cmd[r] = "down")
    /\ Goto(r, "apply")
    /\ UNCHANGED <<dirty, schema, lock, starts, cmd, todo, signalled, pools, serving>>

\* The target version is stored, marked dirty, before its file is run.
Mark(r) ==
    /\ pc[r] = "next" /\ todo[r] > 0
    /\ cmd[r] = "down" => version > 0
    /\ version' = IF cmd[r] = "down" THEN version - 1 ELSE version + 1
    /\ dirty' = TRUE
    /\ downs' = (downs \/ cmd[r] = "down")
    /\ Goto(r, "apply")
    /\ UNCHANGED <<schema, lock, starts, cmd, todo, signalled, pools, serving>>

\* The statements of the file, the first ones and the rest; an error leaves
\* what has been executed.
Apply(r) ==
    /\ pc[r] \in {"apply", "rest"}
    /\ \/ /\ pc[r] = "apply"
          /\ schema' = [schema EXCEPT ![Current(r)] = "part"]
          /\ Goto(r, "rest")
          /\ UNCHANGED <<lock, todo, signalled, pools, serving>>
       \/ /\ pc[r] = "rest"
          /\ schema' = [schema EXCEPT ![Current(r)] =
                            IF cmd[r] = "down" THEN "none" ELSE "full"]
          /\ Goto(r, "clean")
          /\ UNCHANGED <<lock, todo, signalled, pools, serving>>
       \/ Abandon(r) /\ UNCHANGED schema
    /\ UNCHANGED <<version, dirty, downs, starts, cmd>>

\* The mark is removed, and the next file begins.
Clean(r) ==
    /\ pc[r] = "clean"
    /\ \/ /\ dirty' = FALSE
          /\ todo' = [todo EXCEPT ![r] = @ - 1]
          /\ Goto(r, "next")
          /\ UNCHANGED <<lock, signalled, pools, serving>>
       \/ Abandon(r) /\ UNCHANGED dirty
    /\ UNCHANGED <<version, schema, downs, starts, cmd>>

\* Nothing is left (ErrNoChange is no error): the lock is released and the
\* migrator closed.  A replica goes on; a migrate command is done, and Down
\* fails when it was told more steps than there are.
Unlock(r) ==
    /\ pc[r] = "next"
    /\ todo[r] = 0 \/ (cmd[r] = "down" /\ version = 0)
    /\ \/ /\ cmd[r] = "serve"
          /\ lock' = NoReplica
          /\ ClosePool(r, "migrator")
          /\ Goto(r, "mysql")
          /\ UNCHANGED <<todo, signalled, serving>>
       \/ Abandon(r)
    /\ UNCHANGED <<version, dirty, schema, downs, starts, cmd>>

Migrate(r) == \/ Lock(r) \/ CheckVersion(r) \/ Mark(r) \/ Apply(r)
              \/ Clean(r) \/ Unlock(r)

-----------------------------------------------------------------------------
(* Serving: app.New, App.Run.                                              *)

\* database.Open pings under the context.
OpenMySQL(r) ==
    /\ pc[r] = "mysql"
    /\ \/ /\ ~signalled[r]
          /\ OpenPool(r, "mysql")
          /\ Goto(r, "redis")
          /\ UNCHANGED <<todo, signalled, serving>>
       \/ Exit(r) /\ UNCHANGED pools
    /\ UNCHANGED <<database, starts, cmd>>

\* A bug: New returns without closing MySQL's pool when Redis is down.
OpenRedisLeaking(r) ==
    /\ pc[r] = "redis"
    /\ \/ /\ ~signalled[r]
          /\ OpenPool(r, "redis")
          /\ Goto(r, "run")
          /\ listener' = [listener EXCEPT ![r] = "pending"]
          /\ UNCHANGED <<todo, signalled, inflight, timedOut>>
       \/ Exit(r) /\ UNCHANGED pools
    /\ UNCHANGED <<database, starts, cmd>>

\* redisx.Open, likewise; on an error New closes MySQL's pool.  Otherwise it
\* builds the server and Run starts the Listen goroutine.
OpenRedis(r) ==
    /\ pc[r] = "redis"
    /\ \/ /\ ~signalled[r]
          /\ OpenPool(r, "redis")
          /\ Goto(r, "run")
          /\ listener' = [listener EXCEPT ![r] = "pending"]
          /\ UNCHANGED <<todo, signalled, inflight, timedOut>>
       \/ Exit(r) /\ ClosePool(r, "mysql")
    /\ UNCHANGED <<database, starts, cmd>>

New(r) == OpenMySQL(r) \/ OpenRedis(r)

\* The goroutine: the port is bound, or cannot be.
Listen(r) ==
    /\ listener[r] = "pending"
    /\ listener' \in {[listener EXCEPT ![r] = l] : l \in {"open", "failed"}}
    /\ UNCHANGED <<database, starts, pc, cmd, todo, signalled, pools, inflight, timedOut>>

\* A request arrives; and is answered, by its handler or by its deadline.
Accept(r) ==
    /\ listener[r] = "open" /\ inflight[r] < MaxRequests
    /\ inflight' = [inflight EXCEPT ![r] = @ + 1]
    /\ UNCHANGED <<database, starts, pc, cmd, todo, signalled, pools, listener, timedOut>>

Respond(r) ==
    /\ inflight[r] > 0
    /\ inflight' = [inflight EXCEPT ![r] = @ - 1]
    /\ UNCHANGED <<database, starts, pc, cmd, todo, signalled, pools, listener, timedOut>>

-----------------------------------------------------------------------------
(* Stopping: App.Run's select and App.shutdown.                            *)

Stop(r) ==
    /\ pc[r] = "run"
    /\ signalled[r] \/ listener[r] = "failed"
    /\ Goto(r, "shutdown")
    /\ UNCHANGED <<database, starts, cmd, todo, signalled, pools, serving>>

\* server.Shutdown closes the listener.  When Listen has not got there yet
\* there is none, and Shutdown returns at once.
ShutdownServer(r) ==
    /\ pc[r] = "shutdown"
    /\ \/ /\ listener[r] = "open"
          /\ listener' = [listener EXCEPT ![r] = "closed"]
          /\ Goto(r, "drain")
       \/ /\ listener[r] # "open"
          /\ Goto(r, "close_db")
          /\ UNCHANGED listener
    /\ UNCHANGED <<database, starts, cmd, todo, signalled, pools, inflight, timedOut>>

\* A bug: Shutdown waits without a deadline.
DrainForever(r) ==
    /\ pc[r] = "drain" /\ inflight[r] = 0
    /\ Goto(r, "close_db")
    /\ UNCHANGED <<database, starts, cmd, todo, signalled, pools, serving>>

\* A bug: nobody waits for the requests in flight.
DrainNothing(r) ==
    /\ pc[r] = "drain"
    /\ Goto(r, "close_db")
    /\ UNCHANGED <<database, starts, cmd, todo, signalled, pools, serving>>

\* It waits for the requests in flight, for HTTP_SHUTDOWN_TIMEOUT at most.
Drain(r) ==
    /\ pc[r] = "drain"
    /\ timedOut' = [timedOut EXCEPT ![r] = inflight[r] > 0]
    /\ Goto(r, "close_db")
    /\ UNCHANGED <<database, starts, cmd, todo, signalled, pools, listener, inflight>>

\* The backends are closed, whatever Shutdown returned.
CloseMySQL(r) ==
    /\ pc[r] = "close_db"
    /\ ClosePool(r, "mysql")
    /\ Goto(r, "close_redis")
    /\ UNCHANGED <<database, starts, cmd, todo, signalled, serving>>

CloseRedis(r) ==
    /\ pc[r] = "close_redis"
    /\ ClosePool(r, "redis")
    /\ Exit(r)
    /\ UNCHANGED <<database, starts, cmd>>

Shutdown(r) == ShutdownServer(r) \/ Drain(r) \/ CloseMySQL(r) \/ CloseRedis(r)

\* The main goroutine of a process, between its start and its end.
Main(r) == Connect(r) \/ Migrate(r) \/ New(r) \/ Stop(r) \/ Shutdown(r)

Next ==
    \E r \in Replicas :
        \/ Run(r) \/ Signal(r) \/ Kill(r)
        \/ Main(r) \/ Listen(r) \/ Accept(r) \/ Respond(r)

\* Goroutines are scheduled, and the calls that have a timeout end: GET_LOCK
\* (golang-migrate's lock timeout), the pings of New and Shutdown's wait.
\* Nobody has to send a request, to answer one, or to restart a process.
Fairness ==
    \A r \in Replicas :
        /\ WF_vars(Lock(r)) /\ WF_vars(New(r)) /\ WF_vars(Listen(r))
        /\ WF_vars(Stop(r)) /\ WF_vars(Shutdown(r))

Spec == Init /\ [][Next]_vars

FairSpec == Spec /\ Fairness
-----------------------------------------------------------------------------
(* What is correct.                                                        *)

Labels == {"exited", "connect", "lock", "check", "next", "apply", "rest",
           "clean", "mysql", "redis", "run", "shutdown", "drain",
           "close_db", "close_redis"}

\* Types of the schema table and of the processes' variables.
TypeOK ==
    /\ version \in Nat /\ dirty \in BOOLEAN
    /\ schema \in [Migrations -> {"none", "part", "full"}]
    /\ lock \in Replicas \cup {NoReplica}
    /\ downs \in BOOLEAN /\ starts \in Nat
    /\ pc \in [Replicas -> Labels]
    /\ cmd \in [Replicas -> AllCommands]
    /\ todo \in [Replicas -> Nat]
    /\ signalled \in [Replicas -> BOOLEAN]
    /\ pools \in [Replicas -> SUBSET {"migrator", "mysql", "redis"}]
    /\ listener \in [Replicas -> {"none", "pending", "open", "failed", "closed"}]
    /\ inflight \in [Replicas -> Nat]
    /\ timedOut \in [Replicas -> BOOLEAN]

\* The schema is that of version v in every file but those in S.
SchemaIs(v, S) ==
    \A m \in Migrations \ S : schema[m] = IF m <= v THEN "full" ELSE "none"

\* "Running it from several replicas at once is safe" (migrator.go): whoever
\* migrates up or down and whoever is killed at it, a schema that is not
\* marked dirty is exactly that of its version, and one that is marked
\* differs in one file, next to the version.
SchemaMatchesVersion ==
    \/ ~dirty /\ SchemaIs(version, {})
    \/ dirty /\ \E m \in {version, version + 1} : SchemaIs(version, {m})

\* A replica that migrates serves only when every migration of its image is in the schema,
\* whoever ran it, and although replicas with other images migrate before
\* and after; as long as no operator reverts migrations.
Serving(r) == pc[r] \in {"mysql", "redis", "run", "shutdown", "drain",
                         "close_db", "close_redis"}

ServesMigrated ==
    \A r \in Replicas : Serving(r) /\ cmd[r] = "serve" /\ ~downs =>
        \A m \in 1..Files[r] : schema[m] = "full"

\* "Stop accepting requests first and drain in-flight ones, then close the
\* backends they depend on" (App.Run, shutdown): a request in flight has its
\* backends, unless the shutdown ran out of time, or SIGTERM came before Listen
\* had bound the port: then Shutdown finds no listener and returns at once, and
\* the server begins to accept when its backends are closed.
BackendsOutliveRequests ==
    \A r \in Replicas : inflight[r] > 0 =>
        \/ {"mysql", "redis"} \subseteq pools[r]
        \/ timedOut[r]
        \/ listener[r] = "open" /\ pc[r] \in {"close_db", "close_redis"}

\* However a process ends, it has closed what it had opened and let go of
\* the migration lock; nothing is left for MySQL to time out.
CleanExit ==
    \A r \in Replicas : pc[r] = "exited" => pools[r] = {} /\ lock # r

\* The inductive strengthening of these.  Whoever works on the schema holds
\* the lock, and knows how far the schema is.
Working == {"check", "next", "apply", "rest", "clean"}

Progress(r) ==
    /\ pc[r] = "next" =>
         /\ ~dirty /\ version <= Files[r]
         /\ cmd[r] # "down" => version + todo[r] = Files[r]
    /\ pc[r] \in {"apply", "rest", "clean"} =>
         /\ dirty /\ Current(r) \in 1..Files[r] /\ todo[r] > 0
         /\ cmd[r] # "down" => version + todo[r] = Files[r] + 1
         /\ cmd[r] = "down" => downs
         /\ SchemaIs(version, {Current(r)})
    /\ pc[r] \in {"apply", "rest"} /\ cmd[r] # "down" => schema[Current(r)] # "full"
    /\ pc[r] = "clean" =>
         schema[Current(r)] = IF cmd[r] = "down" THEN "none" ELSE "full"

\* The pools that are open at each call.
PoolsAt(r) ==
    /\ "migrator" \in pools[r] <=> pc[r] \in Working \cup {"lock"}
    /\ "mysql" \in pools[r] <=>
         pc[r] \in {"redis", "run", "shutdown", "drain", "close_db"}
    /\ "redis" \in pools[r] <=>
         pc[r] \in {"run", "shutdown", "drain", "close_db", "close_redis"}

\* The listener and the requests at each call.
ServerAt(r) ==
    /\ listener[r] # "none" =>
         pc[r] \in {"run", "shutdown", "drain", "close_db", "close_redis"}
    /\ listener[r] = "closed" => pc[r] \in {"drain", "close_db", "close_redis"}
    /\ inflight[r] > 0 => listener[r] \in {"open", "closed"}
    /\ pc[r] \in {"close_db", "close_redis"} /\ inflight[r] > 0 =>
         timedOut[r] \/ listener[r] = "open"

LifecycleInv ==
    /\ TypeOK /\ SchemaMatchesVersion /\ ServesMigrated
    /\ \A r \in Replicas :
         /\ pc[r] \in Working <=> lock = r
         /\ Progress(r) /\ PoolsAt(r) /\ ServerAt(r)

\* The file that the holder of the lock is at, 0 for none, and the abstract
\* specification of the schema.
AtFile(r) == pc[r] \in {"apply", "rest", "clean"}

File == IF lock \in Replicas /\ AtFile(lock) THEN Current(lock) ELSE 0

Contract == INSTANCE Migration WITH Numbers <- Migrations, file <- File

\* However many replicas and commands migrate at once and die at it (Up and
\* Down, migrator.go), the schema sees one migrator, a file at a time: the
\* version moves by one file, is recorded as clean when the file is
\* complete, and after a failed file nobody changes the schema any more.
MigrationContract == Contract!Spec

\* The migrator's other calls have no timeout (migrator.New and Up, and a DSN
\* without readTimeout): with MySQL silent, or a file that waits for a
\* metadata lock, they end when MySQL ends them.
CallsEnd(r) == WF_vars(Connect(r)) /\ WF_vars(Migrate(r))

\* SIGTERM stops a process from wherever it is, waiting for the lock or for
\* requests that nobody answers (run, App.Run, shutdown); unless MySQL leaves
\* a call of its own migrator without an answer.
StopsOnSignal ==
    \A r \in Replicas : CallsEnd(r) => (signalled[r] ~> pc[r] = "exited")

\* A process that was started serves, or exits (serve, migrateCmd): it does
\* not wait for ever for another one's migrations, not even when that one is
\* stuck; only its own migrator's calls have to end.
StartsOrFails ==
    \A r \in Replicas :
        CallsEnd(r) => (pc[r] \in {"connect", "mysql"} ~> pc[r] \in {"run", "exited"})
=============================================================================
